----------------------------- MODULE AnswerProofs -----------------------------
(***************************************************************************)
(* Proofs about AnswerBlocks, for every corpus, every answer and every     *)
(* placement of the kills.                                                 *)
(*                                                                         *)
(* AnswerInv says what holds at each place of the program.  The corpus     *)
(* determines each row's answer, its place in the history and so its block *)
(* (Taken, PlacesOf, BlockOf), whichever run writes it; so what a run      *)
(* writes over the files of an earlier one is what was there, and a replay *)
(* reads the blocks of its own index.  A call of _generate is described by *)
(* CallGood, which every token keeps.  There is one lemma per action.      *)
(***************************************************************************)
EXTENDS AnswerBlocks, TLAPS, FiniteSetTheorems, WellFoundedInduction

\* A set of numbers that is not empty has a least element.
LEMMA LeastNumber ==
  ASSUME NEW T \in SUBSET Nat, T # {}
  PROVE  \E n \in T : \A m \in T : ~(m < n)
<1> DEFINE R == {ss \in Nat \X Nat : ss[1] < ss[2]}
<1>1. IsWellFoundedOn(R, Nat)
  BY NatLessThanWellFounded, Zenon DEF OpToRel
<1>2. \A p : p \in R <=> p \in Nat \X Nat /\ p[1] < p[2]
  OBVIOUS
<1> HIDE DEF R
<1>3. \E x \in T : \A y \in T : ~(<<y, x>> \in R)
  BY <1>1, WFMin, Zenon
<1> QED BY <1>2, <1>3

\* A set of numbers with zero and the successor of each of its elements has them all.
LEMMA AllNumbers ==
  ASSUME NEW S \in SUBSET Nat, 0 \in S, \A n \in S : n + 1 \in S
  PROVE  S = Nat
<1> SUFFICES ASSUME S # Nat PROVE FALSE
  OBVIOUS
<1> DEFINE T == Nat \ S
<1>1. PICK n \in T : \A m \in T : ~(m < n)
  BY LeastNumber
<1>2. n - 1 \in Nat /\ n - 1 \notin T
  BY <1>1
<1> QED BY <1>1, <1>2

------------------------------------------------------------------------------
(* The program that saves blocks of its answers.  A row's answer, its place *)
(* in the history and so its block are fixed by the corpus: what a run      *)
(* writes over an earlier run's files is what was there.                    *)

\* How many tokens of an answer are generated.
Taken(answer, limit) ==
  CHOOSE n \in 1..limit : (n = limit \/ answer[n] \in Stops) /\ \A i \in 1..(n - 1) : answer[i] \notin Stops

\* Where the history of each row starts.
IsPlaces(p, c, n) ==
  /\ p \in [1..(n + 1) -> Nat] /\ p[1] = 0
  /\ \A r \in 1..n : p[r + 1] = p[r] + c[r].prompt + Taken(c[r].main, MaxNew)

PlacesOf(c) == CHOOSE p \in [1..(Len(c) + 1) -> Nat] : IsPlaces(p, c, Len(c))

BlockLength(c, r) == IF Taken(c[r].main, MaxNew) < BlockSize THEN Taken(c[r].main, MaxNew) ELSE BlockSize

OwnerOf(r, branch) == [row |-> r, branch |-> branch]

\* The block of a row, and its description.
BlockTokens(c, r) == [i \in 1..BlockLength(c, r) |-> c[r].main[i]]
BlockPositions(c, r) == Spaced(PlacesOf(c)[r] + c[r].prompt, BlockLength(c, r))
BlockKeys(c, r) ==
  [i \in 1..BlockLength(c, r) |->
    [pos |-> PlacesOf(c)[r] + c[r].prompt + i - 1, of |-> OwnerOf(r, "main"), token |-> c[r].main[i]]]
BlockOf(c, r) == [keys |-> BlockKeys(c, r), positions |-> BlockPositions(c, r), tokens |-> BlockTokens(c, r)]
MetaOf(c, r) == [row |-> r, positions |-> BlockPositions(c, r), tokens |-> BlockTokens(c, r)]

CorpusRow ==
  [prompt : Nat \ {0}, index : Nat \ {0},
   main : {a \in Seq(Tokens) : Len(a) >= MaxNew}, fact : {a \in Seq(Tokens) : Len(a) >= IndexMaxNew}]

\* What is said of the constants, of a row.
LEMMA CorpusRows ==
  ASSUME NEW c \in Corpora, NEW r \in 1..Len(c)
  PROVE  /\ c \in Seq(CorpusRow) /\ Len(c) \in Nat
         /\ c[r].prompt \in Nat \ {0} /\ c[r].index \in Nat \ {0}
         /\ c[r].main \in Seq(Tokens) /\ Len(c[r].main) >= MaxNew
         /\ c[r].fact \in Seq(Tokens) /\ Len(c[r].fact) >= IndexMaxNew
<1>1. c \in Seq(CorpusRow)
  BY AnswerAssumption DEF CorpusRow
<1>2. c[r] \in CorpusRow /\ Len(c) \in Nat
  BY <1>1
<1> QED BY <1>1, <1>2 DEF CorpusRow

LEMMA CorpusLength ==
  ASSUME NEW c \in Corpora
  PROVE  c \in Seq(CorpusRow) /\ Len(c) \in Nat
BY AnswerAssumption DEF CorpusRow

\* An answer ends at its first end token, at its limit otherwise.
LEMMA TakenEnds ==
  ASSUME NEW limit \in Nat \ {0}, NEW answer
  PROVE  /\ Taken(answer, limit) \in 1..limit
         /\ Taken(answer, limit) = limit \/ answer[Taken(answer, limit)] \in Stops
         /\ \A i \in 1..(Taken(answer, limit) - 1) : answer[i] \notin Stops
<1> DEFINE T == {n \in 1..limit : n = limit \/ answer[n] \in Stops}
<1>1. limit \in T /\ T \in SUBSET Nat
  OBVIOUS
<1>2. PICK n \in T : \A m \in T : ~(m < n)
  BY <1>1, LeastNumber
<1>3. (n = limit \/ answer[n] \in Stops) /\ \A i \in 1..(n - 1) : answer[i] \notin Stops
  <2>1. n \in 1..limit /\ (n = limit \/ answer[n] \in Stops)
    BY <1>2
  <2>2. ASSUME NEW i \in 1..(n - 1), answer[i] \in Stops PROVE FALSE
    BY <1>2, <2>1, <2>2
  <2> QED BY <2>1, <2>2
<1>4. n \in 1..limit
  BY <1>2
<1> QED BY <1>3, <1>4, Zenon DEF Taken

\* That place is the only one.
LEMMA TakenIs ==
  ASSUME NEW limit \in Nat \ {0}, NEW answer, NEW n \in 1..limit,
         n = limit \/ answer[n] \in Stops, \A i \in 1..(n - 1) : answer[i] \notin Stops
  PROVE  n = Taken(answer, limit)
<1> DEFINE t == Taken(answer, limit)
<1>1. t \in 1..limit /\ (t = limit \/ answer[t] \in Stops) /\ \A i \in 1..(t - 1) : answer[i] \notin Stops
  BY TakenEnds, Zenon
<1> HIDE DEF t
<1>2. ~(n < t)
  <2> SUFFICES ASSUME n < t PROVE FALSE
    OBVIOUS
  <2>1. n \in 1..(t - 1) /\ n # limit
    BY <1>1
  <2> QED BY <1>1, <2>1
<1>3. ~(t < n)
  <2> SUFFICES ASSUME t < n PROVE FALSE
    OBVIOUS
  <2>1. t \in 1..(n - 1) /\ t # limit
    BY <1>1
  <2> QED BY <1>1, <2>1
<1>4. n = t
  BY <1>1, <1>2, <1>3
<1> QED BY <1>4 DEF t

LEMMA TakenInRow ==
  ASSUME NEW c \in Corpora, NEW r \in 1..Len(c)
  PROVE  /\ Taken(c[r].main, MaxNew) \in 1..MaxNew /\ MaxNew \in Nat
         /\ BlockLength(c, r) \in 1..Taken(c[r].main, MaxNew)
         /\ BlockLength(c, r) <= BlockSize
         /\ Taken(c[r].main, MaxNew) <= Len(c[r].main)
<1>1. MaxNew \in Nat \ {0} /\ BlockSize \in Nat \ {0}
  BY AnswerAssumption
<1>2. Taken(c[r].main, MaxNew) \in 1..MaxNew
  BY <1>1, TakenEnds, Zenon
<1>3. c[r].main \in Seq(Tokens) /\ Len(c[r].main) >= MaxNew
  BY CorpusRows, Zenon
<1> QED BY <1>1, <1>2, <1>3 DEF BlockLength

\* The rows of a corpus have their places.
LEMMA PlacesAre ==
  ASSUME NEW c \in Corpora
  PROVE  IsPlaces(PlacesOf(c), c, Len(c))
<1> DEFINE L == Len(c)
           more(r) == c[r].prompt + Taken(c[r].main, MaxNew)
           S == {n \in Nat : n <= L => \E p \in [1..(n + 1) -> Nat] : IsPlaces(p, c, n)}
<1>1. L \in Nat
  BY CorpusLength
<1>2. \A r \in 1..L : more(r) \in Nat /\ c[r].prompt \in Nat /\ Taken(c[r].main, MaxNew) \in Nat
  <2> TAKE r \in 1..L
  <2>1. c[r].prompt \in Nat
    BY CorpusRows
  <2>2. Taken(c[r].main, MaxNew) \in Nat
    BY TakenInRow
  <2> QED BY <2>1, <2>2
<1>3. 0 \in S
  <2> DEFINE p == [i \in 1..1 |-> 0]
  <2>1. p \in [1..(0 + 1) -> Nat] /\ p[1] = 0
    OBVIOUS
  <2>2. \A r \in 1..0 : FALSE
    OBVIOUS
  <2> HIDE DEF p
  <2>3. IsPlaces(p, c, 0)
    BY <2>1, <2>2 DEF IsPlaces
  <2> QED BY <2>1, <2>3
<1>4. \A n \in S : n + 1 \in S
  <2> SUFFICES ASSUME NEW n \in S, n + 1 <= L PROVE \E p \in [1..((n + 1) + 1) -> Nat] : IsPlaces(p, c, n + 1)
    <3>1. \A n \in S : n \in Nat /\ n + 1 \in Nat
      OBVIOUS
    <3> QED BY <3>1, Zenon
  <2>1. PICK p \in [1..(n + 1) -> Nat] : IsPlaces(p, c, n)
    BY <1>1
  <2> DEFINE q == [i \in 1..(n + 2) |-> IF i = n + 2 THEN p[n + 1] + more(n + 1) ELSE p[i]]
  <2>2. p \in [1..(n + 1) -> Nat] /\ p[1] = 0 /\ n \in Nat
        /\ \A r \in 1..n : p[r + 1] = p[r] + c[r].prompt + Taken(c[r].main, MaxNew)
    BY <2>1 DEF IsPlaces
  <2>3. more(n + 1) \in Nat /\ n + 1 \in 1..L
    BY <1>1, <1>2, <2>2
  <2>5. c[n + 1].prompt \in Nat /\ Taken(c[n + 1].main, MaxNew) \in Nat
    BY <1>2, <2>3
  <2>6. more(n + 1) = c[n + 1].prompt + Taken(c[n + 1].main, MaxNew)
    OBVIOUS
  <2> HIDE DEF more
  <2>4. q \in [1..(n + 2) -> Nat] /\ q[1] = 0 /\ q[n + 2] = p[n + 1] + more(n + 1)
        /\ \A i \in 1..(n + 1) : q[i] = p[i]
    BY <2>2, <2>3
  <2> HIDE DEF q
  <2>7. \A r \in 1..(n + 1) : q[r + 1] = q[r] + c[r].prompt + Taken(c[r].main, MaxNew)
    <3> TAKE r \in 1..(n + 1)
    <3>1. CASE r = n + 1
      <4>1. q[r + 1] = p[n + 1] + more(n + 1) /\ q[r] = p[n + 1] /\ p[n + 1] \in Nat
        BY <2>2, <2>4, <3>1
      <4> QED BY <4>1, <2>5, <2>6, <3>1
    <3>2. CASE r # n + 1
      <4>1. r \in 1..n /\ r + 1 \in 1..(n + 1)
        BY <2>2, <3>2
      <4> QED BY <2>2, <2>4, <4>1
    <3> QED BY <3>1, <3>2
  <2>8. n + 1 + 1 = n + 2
    BY <2>2
  <2>9. q \in [1..((n + 1) + 1) -> Nat] /\ q[1] = 0
    BY <2>4, <2>8, Zenon
  <2>10. IsPlaces(q, c, n + 1)
    BY <2>7, <2>9, Zenon DEF IsPlaces
  <2> QED BY <2>9, <2>10, Zenon
<1>5. S = Nat
  <2> HIDE DEF S
  <2>1. S \in SUBSET Nat
    BY DEF S
  <2> QED BY <1>3, <1>4, <2>1, AllNumbers, Zenon
<1>6. \E p \in [1..(L + 1) -> Nat] : IsPlaces(p, c, L)
  BY <1>1, <1>5
<1> QED BY <1>6, Zenon DEF PlacesOf

LEMMA PlaceFacts ==
  ASSUME NEW c \in Corpora
  PROVE  /\ PlacesOf(c) \in [1..(Len(c) + 1) -> Nat] /\ PlacesOf(c)[1] = 0
         /\ \A r \in 1..Len(c) : PlacesOf(c)[r + 1] = PlacesOf(c)[r] + c[r].prompt + Taken(c[r].main, MaxNew)
BY PlacesAre, Zenon DEF IsPlaces

\* A row's place, its prompt and its answer come before the next rows.
LEMMA PlacesGrow ==
  ASSUME NEW c \in Corpora, NEW r \in 1..Len(c), NEW q \in 1..(Len(c) + 1), r < q
  PROVE  /\ PlacesOf(c)[r] \in Nat /\ PlacesOf(c)[q] \in Nat
         /\ PlacesOf(c)[r] + c[r].prompt + Taken(c[r].main, MaxNew) <= PlacesOf(c)[q]
<1> DEFINE p == PlacesOf(c)
           S == {n \in Nat : r + 1 + n <= Len(c) + 1 => p[r + 1] <= p[r + 1 + n]}
<1>1. Len(c) \in Nat /\ p \in [1..(Len(c) + 1) -> Nat]
  BY CorpusLength, PlaceFacts
<1>2. \A i \in 1..Len(c) : p[i] <= p[i + 1]
  <2> TAKE i \in 1..Len(c)
  <2>1. p[i + 1] = p[i] + c[i].prompt + Taken(c[i].main, MaxNew)
    BY PlaceFacts
  <2>2. c[i].prompt \in Nat /\ Taken(c[i].main, MaxNew) \in Nat
    BY CorpusRows, TakenInRow
  <2>3. p[i] \in Nat
    BY <1>1
  <2> HIDE DEF p
  <2> QED BY <2>1, <2>2, <2>3
<1>3. p[r + 1] = p[r] + c[r].prompt + Taken(c[r].main, MaxNew)
  BY PlaceFacts
<1> HIDE DEF p
<1>4. 0 \in S
  <2>1. r + 1 \in 1..(Len(c) + 1) /\ r + 1 + 0 = r + 1
    BY <1>1
  <2>2. p[r + 1] \in Nat
    BY <1>1, <2>1
  <2> QED BY <2>1, <2>2
<1>5. \A n \in S : n + 1 \in S
  <2> TAKE n \in S
  <2> SUFFICES ASSUME r + 1 + (n + 1) <= Len(c) + 1 PROVE p[r + 1] <= p[r + 1 + (n + 1)]
    OBVIOUS
  <2>1. n \in Nat /\ r + 1 + n \in 1..Len(c) /\ r + 1 + (n + 1) = (r + 1 + n) + 1 /\ r + 1 \in 1..(Len(c) + 1)
    BY <1>1
  <2>2. p[r + 1] <= p[r + 1 + n]
    BY <2>1, <1>1
  <2>3. p[r + 1 + n] <= p[(r + 1 + n) + 1]
    BY <1>2, <2>1
  <2>4. p[r + 1] \in Nat /\ p[r + 1 + n] \in Nat /\ p[(r + 1 + n) + 1] \in Nat
    BY <1>1, <2>1
  <2> QED BY <2>1, <2>2, <2>3, <2>4
<1>6. S = Nat
  <2>1. S \in SUBSET Nat
    OBVIOUS
  <2> HIDE DEF S
  <2> QED BY <1>4, <1>5, <2>1, AllNumbers, Zenon
<1>7. q - r - 1 \in S /\ r + 1 + (q - r - 1) = q /\ q <= Len(c) + 1
  <2> HIDE DEF S
  <2> QED BY <1>1, <1>6
<1>8. p[r + 1] <= p[q]
  <2> DEFINE m == q - r - 1
  <2>1. m \in S /\ r + 1 + m = q
    BY <1>7
  <2> HIDE DEF m
  <2>2. r + 1 + m <= Len(c) + 1 => p[r + 1] <= p[r + 1 + m]
    BY <2>1
  <2> QED BY <1>7, <2>1, <2>2
<1>9. p[r] \in Nat /\ p[q] \in Nat
  BY <1>1
<1> QED BY <1>3, <1>8, <1>9 DEF p

------------------------------------------------------------------------------
(* A call of _generate.                                                     *)

CacheNames == {"history", "clone", "replay", "split", "continuous"}
Owners == [row : Nat, branch : {"main", "index", "query"}]

Sights == SUBSET Nat

CallRecord ==
  [on : CacheNames \cup {"none"}, custom : BOOLEAN, prefix : Nat, start : Nat, prompt : Nat,
   of : Owners \cup {"none"}, answer : Seq(Tokens), limit : Nat, out : Seq(Tokens), capture : Nat,
   captured : [keys : Seq(Key), count : Nat] \cup {NoValue}, fact : BOOLEAN,
   vector : Seq(Key) \cup {NoValue}, sees : Seq(Sights)]

\* The generated tokens are the answer's first, none but the last ends it.
OutGood(out, answer, limit) ==
  /\ out \in Seq(Tokens) /\ Len(out) <= limit
  /\ \A i \in 1..Len(out) : out[i] = answer[i]
  /\ \A i \in 1..(Len(out) - 1) : out[i] \notin Stops

\* The k-th key a call appends.
KeyAt(of, start, prompt, out, k) ==
  [pos |-> start + k - 1, of |-> of, token |-> IF k <= prompt THEN "prompt" ELSE out[k - prompt]]

\* The cache has what was there, then the keys of the prompt and of what was generated.
CacheGood(cache, prefix, of, start, prompt, out) ==
  /\ cache \in Seq(Key) /\ Len(cache) = prefix + prompt + Len(out)
  /\ \A k \in 1..(prompt + Len(out)) : cache[prefix + k] = KeyAt(of, start, prompt, out, k)

\* Every query sees all keys before it and itself.
SeesGood(sees, prefix, n) ==
  /\ sees \in Seq(Sights) /\ Len(sees) = n
  /\ \A q \in 1..n : sees[q] = 1..(prefix + q)

\* The block is cut as soon as it is complete: at its size, or at an end token.
CutAt(n, out, capture) == n \in 1..Len(out) /\ n <= capture /\ (n = capture \/ (n = Len(out) /\ out[n] \in Stops))

CaptureGood(captured, capture, cache, before, out) ==
  /\ captured = NoValue =>
       capture = 0 \/ (Len(out) < capture /\ \A i \in 1..Len(out) : out[i] \notin Stops)
  /\ captured # NoValue =>
       \E n \in 1..Len(out) :
         /\ CutAt(n, out, capture)
         /\ captured = [keys |-> SubSeq(cache, before + 1, before + n), count |-> n]

\* The index is the cache as it was at FACT:.
IndexGood(fact, vector, cache, before, out) ==
  /\ fact /\ vector = NoValue => FactAt(out) = {}
  /\ vector # NoValue =>
       fact /\ \E v \in 1..Len(out) : out[v] = "fact" /\ vector = SubSeq(cache, 1, before + v)

CallGood(cache, call) ==
  /\ call \in CallRecord
  /\ call.limit > 0 /\ call.prompt > 0 /\ call.of \in Owners /\ call.on \in CacheNames
  /\ call.limit <= Len(call.answer) /\ call.capture <= Window /\ call.capture <= call.limit
  /\ OutGood(call.out, call.answer, call.limit)
  /\ CacheGood(cache, call.prefix, call.of, call.start, call.prompt, call.out)
  /\ SeesGood(call.sees, call.prefix, call.prompt + Len(call.out))
  /\ CaptureGood(call.captured, call.capture, cache, call.prefix + call.prompt, call.out)
  /\ IndexGood(call.fact, call.vector, cache, call.prefix + call.prompt, call.out)

\* One more element.
Longer(s, t) == Len(t) = Len(s) + 1 /\ \A i \in 1..Len(s) : t[i] = s[i]

\* A token: one more of the answer, one more key.
LEMMA OutGrows ==
  ASSUME NEW out, NEW answer \in Seq(Tokens), NEW limit \in Nat, limit <= Len(answer),
         OutGood(out, answer, limit), Len(out) # limit, out = <<>> \/ Last(out) \notin Stops
  PROVE  /\ Append(out, answer[Len(out) + 1]) \in Seq(Tokens)
         /\ Len(Append(out, answer[Len(out) + 1])) = Len(out) + 1
         /\ Last(Append(out, answer[Len(out) + 1])) = answer[Len(out) + 1]
         /\ answer[Len(out) + 1] \in Tokens
         /\ \A i \in 1..Len(out) : Append(out, answer[Len(out) + 1])[i] = out[i]
         /\ \A i \in 1..Len(out) : out[i] \notin Stops
         /\ OutGood(Append(out, answer[Len(out) + 1]), answer, limit)
<1>1. out \in Seq(Tokens) /\ Len(out) <= limit /\ Len(out) \in Nat
      /\ (\A i \in 1..Len(out) : out[i] = answer[i]) /\ \A i \in 1..(Len(out) - 1) : out[i] \notin Stops
  BY DEF OutGood
<1>2. Len(out) + 1 \in 1..Len(answer)
  BY <1>1
<1>3. answer[Len(out) + 1] \in Tokens
  BY <1>2
<1> DEFINE t == answer[Len(out) + 1]
           new == Append(out, t)
<1>4. t \in Tokens /\ t = answer[Len(out) + 1]
  BY <1>3
<1> HIDE DEF t
<1>5. new \in Seq(Tokens) /\ Len(new) = Len(out) + 1 /\ new[Len(out) + 1] = t
      /\ \A i \in 1..Len(out) : new[i] = out[i]
  BY <1>1, <1>4
<1> HIDE DEF new
<1>6. Last(new) = t
  BY <1>5 DEF Last
<1>7. \A i \in 1..Len(out) : out[i] \notin Stops
  <2> TAKE i \in 1..Len(out)
  <2>1. CASE i = Len(out)
    <3>1. out # <<>>
      BY <1>1, <2>1
    <3> QED BY <3>1, <2>1 DEF Last
  <2>2. CASE i # Len(out)
    BY <1>1, <2>2
  <2> QED BY <2>1, <2>2
<1>8. OutGood(new, answer, limit)
  <2>1. Len(new) <= limit
    BY <1>1, <1>5
  <2>2. \A i \in 1..Len(new) : new[i] = answer[i]
    BY <1>1, <1>4, <1>5
  <2>3. \A i \in 1..(Len(new) - 1) : new[i] \notin Stops
    BY <1>1, <1>5, <1>7
  <2> QED BY <1>5, <2>1, <2>2, <2>3 DEF OutGood
<1> QED BY <1>3, <1>5, <1>6, <1>7, <1>8 DEF new, t

LEMMA OneKey ==
  ASSUME NEW of, NEW token, NEW from \in Int
  PROVE  Keys(of, <<token>>, from) = <<[pos |-> from, of |-> of, token |-> token]>>
<1>1. Len(<<token>>) = 1 /\ <<token>>[1] = token
  OBVIOUS
<1>2. from + 1 - 1 = from
  OBVIOUS
<1>3. Keys(of, <<token>>, from) = [i \in 1..1 |-> [pos |-> from + i - 1, of |-> of, token |-> <<token>>[i]]]
  BY <1>1 DEF Keys
<1>4. 1..1 = {1}
  OBVIOUS
<1> QED BY <1>1, <1>2, <1>3, <1>4

LEMMA OneMore ==
  ASSUME NEW S, NEW s \in Seq(S), NEW e \in S
  PROVE  (s \o <<e>>) \in Seq(S) /\ Longer(s, s \o <<e>>) /\ (s \o <<e>>)[Len(s) + 1] = e
BY DEF Longer

LEMMA CacheGrows ==
  ASSUME NEW cache, NEW prefix \in Nat, NEW of \in Owners, NEW start \in Nat, NEW prompt \in Nat,
         NEW out \in Seq(Tokens), NEW new \in Seq(Tokens), Longer(out, new),
         CacheGood(cache, prefix, of, start, prompt, out),
         NEW k, k = KeyAt(of, start, prompt, new, prompt + Len(out) + 1), NEW grown, grown = cache \o <<k>>
  PROVE  CacheGood(grown, prefix, of, start, prompt, new) /\ Longer(cache, grown)
<1>0. Len(new) = Len(out) + 1 /\ \A i \in 1..Len(out) : new[i] = out[i]
  BY DEF Longer
<1>1. k = [pos |-> start + prompt + Len(out), of |-> of, token |-> Last(new)]
  <2>1. ~(prompt + Len(out) + 1 <= prompt) /\ prompt + Len(out) + 1 - prompt = Len(out) + 1
        /\ start + (prompt + Len(out) + 1) - 1 = start + prompt + Len(out)
    OBVIOUS
  <2>2. Last(new) = new[Len(out) + 1]
    BY <1>0 DEF Last
  <2> QED BY <2>1, <2>2 DEF KeyAt
<1>2. Last(new) = new[Len(out) + 1] /\ Last(new) \in Tokens /\ Len(out) \in Nat
  BY <1>0 DEF Last
<1>3. k \in Key
  BY <1>1, <1>2 DEF Key, Owners
<1>4. cache \in Seq(Key) /\ Len(cache) = prefix + prompt + Len(out)
      /\ \A i \in 1..(prompt + Len(out)) : cache[prefix + i] = KeyAt(of, start, prompt, out, i)
  BY DEF CacheGood
<1>6. \A i \in 1..(prompt + Len(out)) : KeyAt(of, start, prompt, new, i) = KeyAt(of, start, prompt, out, i)
  <2> TAKE i \in 1..(prompt + Len(out))
  <2>1. ~(i <= prompt) => i - prompt \in 1..Len(out)
    BY <1>2
  <2> QED BY <1>0, <2>1 DEF KeyAt
<1>7. grown \in Seq(Key) /\ Len(grown) = Len(cache) + 1 /\ grown[Len(cache) + 1] = k
      /\ \A i \in 1..Len(cache) : grown[i] = cache[i]
  <2>1. cache \in Seq(Key)
    BY <1>4, Zenon
  <2>2. grown \in Seq(Key) /\ Longer(cache, grown) /\ grown[Len(cache) + 1] = k
    BY <1>3, <2>1, OneMore, Zenon
  <2> QED BY <2>2, Zenon DEF Longer
<1>8. CacheGood(grown, prefix, of, start, prompt, new)
  <2>1. \A i \in 1..(prompt + Len(new)) : grown[prefix + i] = KeyAt(of, start, prompt, new, i)
    <3> TAKE i \in 1..(prompt + Len(new))
    <3>1. CASE i = prompt + Len(new)
      <4>1. prefix + i = Len(cache) + 1 /\ i = prompt + Len(out) + 1
        BY <1>0, <1>4, <3>1
      <4> QED BY <1>7, <4>1
    <3>2. CASE i # prompt + Len(new)
      <4>1. i \in 1..(prompt + Len(out)) /\ prefix + i \in 1..Len(cache)
        BY <1>0, <1>2, <1>4, <3>2
      <4> QED BY <1>4, <1>6, <1>7, <4>1
    <3> QED BY <3>1, <3>2
  <2>2. Len(grown) = prefix + prompt + Len(new)
    BY <1>0, <1>2, <1>4, <1>7
  <2> QED BY <1>7, <2>1, <2>2 DEF CacheGood
<1> QED BY <1>7, <1>8 DEF Longer

\* The program's mask is the model's own.
LEMMA MaskIs ==
  ASSUME NEW queries \in Nat, NEW prefix \in Nat, NEW current \in Nat, NEW start \in Nat, start + queries <= current
  PROVE  PrefixCausalMask(queries, prefix, current, start) = CausalMask(queries, prefix + start)
<1>1. \A q \in 1..queries :
        (1..prefix) \cup {prefix + k : k \in {k \in 1..current : k <= start + q}} = 1..(prefix + start + q)
  <2> TAKE q \in 1..queries
  <2> DEFINE S == {prefix + k : k \in {k \in 1..current : k <= start + q}}
  <2>1. \A x \in 1..(prefix + start + q) : x \in 1..prefix \/ x \in S
    <3> TAKE x \in 1..(prefix + start + q)
    <3>1. CASE x <= prefix
      BY <3>1
    <3>2. CASE x > prefix
      <4>1. x - prefix \in 1..current /\ x - prefix <= start + q /\ x = prefix + (x - prefix)
        BY <3>2
      <4> QED BY <4>1
    <3> QED BY <3>1, <3>2
  <2>2. \A x \in S : x \in 1..(prefix + start + q)
    OBVIOUS
  <2>3. \A x \in 1..prefix : x \in 1..(prefix + start + q)
    OBVIOUS
  <2> HIDE DEF S
  <2>4. (1..prefix) \cup S = 1..(prefix + start + q)
    BY <2>1, <2>2, <2>3
  <2> QED BY <2>4 DEF S
<1> QED BY <1>1, Zenon DEF PrefixCausalMask, CausalMask

LEMMA CausalMaskIs ==
  ASSUME NEW queries \in Nat, NEW before \in Nat
  PROVE  /\ CausalMask(queries, before) \in Seq(Sights) /\ Len(CausalMask(queries, before)) = queries
         /\ \A q \in 1..queries : CausalMask(queries, before)[q] = 1..(before + q)
<1>1. \A q \in 1..queries : 1..(before + q) \in Sights
  BY DEF Sights
<1> QED BY <1>1 DEF CausalMask

\* The prompt's queries, and one token's.
LEMMA SeesStarts ==
  ASSUME NEW custom \in BOOLEAN, NEW prefix \in Nat, NEW prompt \in Nat
  PROVE  SeesGood(IF custom THEN PrefixCausalMask(prompt, prefix, prompt, 0) ELSE CausalMask(prompt, prefix),
                  prefix, prompt)
<1>1. PrefixCausalMask(prompt, prefix, prompt, 0) = CausalMask(prompt, prefix)
  <2>1. 0 \in Nat /\ 0 + prompt <= prompt /\ prefix + 0 = prefix
    OBVIOUS
  <2> QED BY <2>1, MaskIs
<1>2. SeesGood(CausalMask(prompt, prefix), prefix, prompt)
  BY CausalMaskIs, Zenon DEF SeesGood
<1> QED BY <1>1, <1>2

LEMMA SeesGrows ==
  ASSUME NEW custom \in BOOLEAN, NEW prefix \in Nat, NEW n \in Nat, NEW sees, SeesGood(sees, prefix, n)
  PROVE  SeesGood(sees \o (IF custom THEN PrefixCausalMask(1, prefix, n + 1, (n + 1) - 1)
                           ELSE CausalMask(1, prefix + (n + 1) - 1)), prefix, n + 1)
<1> DEFINE mask == CausalMask(1, prefix + n)
<1>1. PrefixCausalMask(1, prefix, n + 1, n) = mask
  <2>1. n + 1 \in Nat /\ n + 1 <= n + 1 /\ 1 \in Nat
    OBVIOUS
  <2> QED BY <2>1, MaskIs
<1>2. (n + 1) - 1 = n /\ prefix + (n + 1) - 1 = prefix + n
  OBVIOUS
<1> DEFINE seen == 1..(prefix + n + 1)
<1>3. mask = <<seen>>
  <2>1. \A q \in 1..1 : 1..((prefix + n) + q) = seen
    OBVIOUS
  <2>2. mask = [q \in 1..1 |-> seen]
    BY <2>1, Zenon DEF CausalMask
  <2> HIDE DEF mask, seen
  <2> QED BY <2>2
<1>4. seen \in Sights
  BY DEF Sights
<1>5. prefix + (n + 1) = prefix + n + 1
  OBVIOUS
<1> HIDE DEF mask
<1>6. (IF custom THEN PrefixCausalMask(1, prefix, n + 1, (n + 1) - 1) ELSE CausalMask(1, prefix + (n + 1) - 1)) = mask
  BY <1>1, <1>2, Zenon DEF mask
<1>7. SeesGood(sees \o <<seen>>, prefix, n + 1)
  <2>1. sees \in Seq(Sights) /\ Len(sees) = n /\ \A q \in 1..n : sees[q] = 1..(prefix + q)
    BY DEF SeesGood
  <2>2. seen = 1..(prefix + (n + 1))
    BY <1>5
  <2> DEFINE new == sees \o <<seen>>
  <2> HIDE DEF seen
  <2>3. new \in Seq(Sights) /\ Len(new) = n + 1 /\ new[n + 1] = seen /\ \A q \in 1..n : new[q] = sees[q]
    <3>1. sees \in Seq(Sights) /\ Len(sees) = n
      BY <2>1, Zenon
    <3> QED BY <1>4, <3>1
  <2> HIDE DEF new
  <2>4. \A q \in 1..(n + 1) : new[q] = 1..(prefix + q)
    <3> TAKE q \in 1..(n + 1)
    <3>1. CASE q = n + 1
      BY <2>2, <2>3, <3>1
    <3>2. CASE q # n + 1
      <4>1. q \in 1..n
        BY <3>2
      <4> QED BY <2>1, <2>3, <4>1
    <3> QED BY <3>1, <3>2
  <2>5. SeesGood(new, prefix, n + 1)
    BY <2>3, <2>4 DEF SeesGood
  <2> QED BY <2>5 DEF new
<1> QED BY <1>3, <1>6, <1>7, Zenon

SameSlice(b, a, m, n) == SubSeq(b, m, n) = SubSeq(a, m, n)

LEMMA SubSeqKept ==
  ASSUME NEW S, NEW a \in Seq(S), NEW b \in Seq(S), Len(a) <= Len(b),
         \A i \in 1..Len(a) : b[i] = a[i], NEW m \in Nat, NEW n \in Nat, m >= 1, n <= Len(a)
  PROVE  SameSlice(b, a, m, n)
<1>1. \A i \in 1..(n - m + 1) : b[i + m - 1] = a[i + m - 1]
  OBVIOUS
<1>2. SubSeq(b, m, n) = SubSeq(a, m, n)
  BY <1>1
<1> QED BY <1>2, Zenon DEF SameSlice

\* The block is cut in the step that completes it, and stays as it was cut.
LEMMA CaptureGrows ==
  ASSUME NEW captured, NEW capture \in Nat, NEW cache \in Seq(Key), NEW grown \in Seq(Key), NEW before \in Nat,
         NEW out \in Seq(Tokens), NEW new \in Seq(Tokens), Len(new) = Len(out) + 1,
         Len(cache) = before + Len(out), Len(grown) = Len(cache) + 1,
         \A i \in 1..Len(cache) : grown[i] = cache[i], \A i \in 1..Len(out) : new[i] = out[i],
         \A i \in 1..Len(out) : out[i] \notin Stops, capture <= Window,
         CaptureGood(captured, capture, cache, before, out)
  PROVE  CaptureGood(
           IF capture > 0 /\ captured = NoValue /\ (Len(new) >= capture \/ Last(new) \in Stops)
           THEN [keys |-> SliceCache(grown, before, before + Len(new)), count |-> Len(new)] ELSE captured,
           capture, grown, before, new)
<1>1. Window \in Nat /\ Len(out) \in Nat /\ Len(new) \in Nat
  BY AnswerAssumption
<1>2. CASE captured = NoValue /\ capture > 0 /\ (Len(new) >= capture \/ Last(new) \in Stops)
  <2> DEFINE cut == [keys |-> SliceCache(grown, before, before + Len(new)), count |-> Len(new)]
             n == Len(new)
  <2>1. Len(out) < capture
    BY <1>2 DEF CaptureGood
  <2>2. Sliceable(grown, before)
    BY <1>1, <2>1 DEF Sliceable
  <2>3. cut = [keys |-> SubSeq(grown, before + 1, before + n), count |-> n]
    BY <2>2, Zenon DEF SliceCache
  <2>4. CutAt(n, new, capture)
    <3>1. Last(new) = new[Len(new)]
      BY DEF Last
    <3> QED BY <1>1, <1>2, <2>1, <3>1 DEF CutAt
  <2>5. n \in 1..Len(new)
    BY <1>1
  <2>6. cut # NoValue
    <3>1. SubSeq(grown, before + 1, before + n) \in Seq(Key)
      BY <1>1
    <3>2. n \in Nat
      BY <1>1
    <3> HIDE DEF n, cut
    <3>3. cut \in [keys : Seq(Key), count : Nat]
      BY <2>3, <3>1, <3>2
    <3> QED BY <3>3, AnswerAssumption
  <2> HIDE DEF cut, n
  <2>7. CaptureGood(cut, capture, grown, before, new)
    BY <2>3, <2>4, <2>5, <2>6, Zenon DEF CaptureGood
  <2> QED BY <1>2, <2>7 DEF cut
<1>3. CASE captured = NoValue /\ ~(capture > 0 /\ (Len(new) >= capture \/ Last(new) \in Stops))
  <2>1. capture = 0 \/ (Len(new) < capture /\ \A i \in 1..Len(new) : new[i] \notin Stops)
    <3> SUFFICES ASSUME capture # 0
                 PROVE  Len(new) < capture /\ \A i \in 1..Len(new) : new[i] \notin Stops
      OBVIOUS
    <3>1. Last(new) = new[Len(new)]
      BY DEF Last
    <3>2. ~(Len(new) >= capture) /\ new[Len(new)] \notin Stops
      BY <1>3, <3>1
    <3>3. Len(new) < capture
      BY <1>1, <3>2
    <3>4. ASSUME NEW i \in 1..Len(new) PROVE new[i] \notin Stops
      <4>1. CASE i = Len(new)
        BY <3>2, <4>1
      <4>2. CASE i # Len(new)
        <5>1. i \in 1..Len(out)
          BY <1>1, <4>2
        <5> QED BY <5>1
      <4> QED BY <4>1, <4>2
    <3> QED BY <3>3, <3>4
  <2>2. CaptureGood(captured, capture, grown, before, new)
    BY <1>3, <2>1 DEF CaptureGood
  <2> QED BY <1>3, <2>2
<1>4. CASE captured # NoValue
  <2>1. PICK n \in 1..Len(out) :
          CutAt(n, out, capture) /\ captured = [keys |-> SubSeq(cache, before + 1, before + n), count |-> n]
    BY <1>4 DEF CaptureGood
  <2>2. SubSeq(grown, before + 1, before + n) = SubSeq(cache, before + 1, before + n)
    <3>1. before + 1 \in Nat /\ before + n \in Nat /\ before + 1 >= 1 /\ before + n <= Len(cache)
      BY <1>1
    <3>2. Len(cache) <= Len(grown)
      BY <1>1
    <3> DEFINE lo == before + 1
               hi == before + n
    <3>3. lo \in Nat /\ hi \in Nat /\ lo >= 1 /\ hi <= Len(cache)
      BY <3>1, Zenon
    <3> HIDE DEF lo, hi
    <3>4. SubSeq(grown, lo, hi) = SubSeq(cache, lo, hi)
      <4>1. SameSlice(grown, cache, lo, hi)
        BY <3>2, <3>3, SubSeqKept, Zenon
      <4> QED BY <4>1, Zenon DEF SameSlice
    <3> QED BY <3>4 DEF lo, hi
  <2>3. CutAt(n, new, capture)
    BY <1>1, <2>1 DEF CutAt
  <2>4. n \in 1..Len(new)
    BY <1>1
  <2>5. CaptureGood(captured, capture, grown, before, new)
    BY <1>4, <2>1, <2>2, <2>3, <2>4 DEF CaptureGood
  <2> QED BY <1>4, <2>5
<1> QED BY <1>2, <1>3, <1>4

LEMMA IndexGrows ==
  ASSUME NEW fact \in BOOLEAN, NEW vector, NEW cache \in Seq(Key), NEW grown \in Seq(Key), NEW before \in Nat,
         NEW out \in Seq(Tokens), NEW new \in Seq(Tokens), Len(new) = Len(out) + 1,
         Len(cache) = before + Len(out), Len(grown) = Len(cache) + 1,
         \A i \in 1..Len(cache) : grown[i] = cache[i], \A i \in 1..Len(out) : new[i] = out[i],
         IndexGood(fact, vector, cache, before, out)
  PROVE  IndexGood(fact, IF fact /\ vector = NoValue /\ FactAt(new) # {} THEN grown ELSE vector, grown, before, new)
<1>1. Len(out) \in Nat
  OBVIOUS
<1>2. grown # NoValue
  BY AnswerAssumption
<1>3. CASE fact /\ vector = NoValue /\ FactAt(new) # {}
  <2>1. FactAt(out) = {}
    BY <1>3 DEF IndexGood
  <2>2. PICK i \in FactAt(new) : TRUE
    BY <1>3
  <2>3. i \in 1..Len(new) /\ new[i] = "fact" /\ \A j \in 1..(i - 1) : new[j] = "nl"
    BY <2>2 DEF FactAt
  <2>4. i = Len(new)
    <3> SUFFICES ASSUME i # Len(new) PROVE FALSE
      OBVIOUS
    <3>1. i \in 1..Len(out) /\ out[i] = "fact" /\ \A j \in 1..(i - 1) : out[j] = "nl"
      BY <1>1, <2>3
    <3>2. i \in FactAt(out)
      BY <3>1 DEF FactAt
    <3> QED BY <2>1, <3>2
  <2>5. grown = SubSeq(grown, 1, before + i)
    <3>1. before + i = Len(grown)
      BY <2>4
    <3> QED BY <3>1
  <2>6. IndexGood(fact, grown, grown, before, new)
    BY <1>2, <1>3, <2>3, <2>5 DEF IndexGood
  <2> QED BY <1>3, <2>6
<1>4. CASE vector = NoValue /\ ~(fact /\ FactAt(new) # {})
  <2>1. IndexGood(fact, vector, grown, before, new)
    BY <1>4 DEF IndexGood
  <2> QED BY <1>4, <2>1
<1>5. CASE vector # NoValue
  <2>1. fact
    BY <1>5 DEF IndexGood
  <2>2. PICK v \in 1..Len(out) : out[v] = "fact" /\ vector = SubSeq(cache, 1, before + v)
    BY <1>5 DEF IndexGood
  <2>3. SubSeq(grown, 1, before + v) = SubSeq(cache, 1, before + v)
    <3>1. 1 \in Nat /\ before + v \in Nat /\ 1 >= 1 /\ before + v <= Len(cache) /\ Len(cache) <= Len(grown)
      BY <1>1
    <3>2. SameSlice(grown, cache, 1, before + v)
      BY <3>1, SubSeqKept
    <3> QED BY <3>2, Zenon DEF SameSlice
  <2>4. v \in 1..Len(new) /\ new[v] = "fact"
    BY <1>1, <2>2
  <2>5. IndexGood(fact, vector, grown, before, new)
    BY <1>5, <2>1, <2>2, <2>3, <2>4 DEF IndexGood
  <2> QED BY <1>5, <2>5
<1> QED BY <1>3, <1>4, <1>5

CachesType == caches \in [DOMAIN caches -> Seq(Key)] /\ DOMAIN caches \subseteq CacheNames

\* What a token leaves as it was.
SameCall(call, next) ==
  /\ next.on = call.on /\ next.prefix = call.prefix /\ next.start = call.start /\ next.prompt = call.prompt
  /\ next.of = call.of /\ next.answer = call.answer /\ next.limit = call.limit /\ next.capture = call.capture
  /\ next.fact = call.fact

Vectors == Seq(Key) \cup {NoValue}
Cuts == [keys : Seq(Key), count : Nat] \cup {NoValue}

Stepped(call, next, aOut, aSees, aVector, aCut) ==
  next = [call EXCEPT !.out = aOut, !.sees = aSees, !.vector = aVector, !.captured = aCut]

PartsAre(next, aOut, aSees, aVector, aCut) ==
  next.out = aOut /\ next.sees = aSees /\ next.vector = aVector /\ next.captured = aCut

LEMMA RecordGrows ==
  ASSUME NEW call \in CallRecord, NEW aOut \in Seq(Tokens), NEW aSees \in Seq(Sights),
         NEW aVector \in Vectors, NEW aCut \in Cuts,
         NEW next, Stepped(call, next, aOut, aSees, aVector, aCut)
  PROVE  next \in CallRecord /\ SameCall(call, next) /\ PartsAre(next, aOut, aSees, aVector, aCut)
<1> DEFINE V == Seq(Key) \cup {NoValue}
           C == [keys : Seq(Key), count : Nat] \cup {NoValue}
           T == Seq(Tokens)
           O == Owners \cup {"none"}
           R == [on : CacheNames \cup {"none"}, custom : BOOLEAN, prefix : Nat, start : Nat, prompt : Nat,
                 of : O, answer : T, limit : Nat, out : T, capture : Nat, captured : C, fact : BOOLEAN,
                 vector : V, sees : Seq(Sights)]
<1>1. call \in R /\ aVector \in V /\ aCut \in C /\ aOut \in T
  BY DEF CallRecord, Vectors, Cuts
<1>2. R = CallRecord
  BY DEF CallRecord
<1> HIDE DEF V, C, T, O
<1>3. next \in R /\ SameCall(call, next) /\ PartsAre(next, aOut, aSees, aVector, aCut)
  BY <1>1 DEF SameCall, Stepped, PartsAre
<1> QED BY <1>2, <1>3

LEMMA RecordFields ==
  ASSUME NEW call \in CallRecord
  PROVE  /\ call.custom \in BOOLEAN /\ call.prefix \in Nat /\ call.start \in Nat /\ call.prompt \in Nat
         /\ call.answer \in Seq(Tokens) /\ call.limit \in Nat /\ call.out \in Seq(Tokens) /\ call.capture \in Nat
         /\ call.captured \in [keys : Seq(Key), count : Nat] \cup {NoValue} /\ call.fact \in BOOLEAN
         /\ call.vector \in Seq(Key) \cup {NoValue} /\ call.sees \in Seq(Sights)
BY DEF CallRecord

\* A step of a call.
LEMMA TokenStep ==
  ASSUME CachesType, gen.on \in DOMAIN caches, CallGood(caches[gen.on], gen), GenerateToken
  PROVE  /\ SameCall(gen, gen') /\ CallGood(caches'[gen.on], gen')
         /\ caches' \in [DOMAIN caches -> Seq(Key)] /\ DOMAIN caches' = DOMAIN caches
         /\ \A x \in DOMAIN caches : x # gen.on => caches'[x] = caches[x]
         /\ Len(caches'[gen.on]) = Len(caches[gen.on]) + 1
         /\ \A i \in 1..Len(caches[gen.on]) : caches'[gen.on][i] = caches[gen.on][i]
         /\ UNCHANGED <<setup, program, files, starts>>
<1> DEFINE step == Len(gen.out)
           out == Append(gen.out, gen.answer[step + 1])
           old == caches[gen.on]
           cache == old \o Keys(gen.of, <<Last(out)>>, gen.start + gen.prompt + step)
           current == gen.prompt + step + 1
           mask == IF gen.custom THEN PrefixCausalMask(1, gen.prefix, current, current - 1)
                   ELSE CausalMask(1, gen.prefix + current - 1)
           from == gen.prefix + gen.prompt
           vector == IF gen.fact /\ gen.vector = NoValue /\ FactAt(out) # {} THEN cache ELSE gen.vector
           captured == IF gen.capture > 0 /\ gen.captured = NoValue /\ BlockComplete(gen, out)
                       THEN [keys |-> SliceCache(cache, from, from + Len(out)), count |-> Len(out)] ELSE gen.captured
<1>1. /\ ~Ended(gen) /\ caches' = [caches EXCEPT ![gen.on] = cache]
      /\ gen' = [gen EXCEPT !.out = out, !.sees = gen.sees \o mask, !.vector = vector, !.captured = captured]
      /\ UNCHANGED <<setup, program, files, starts>>
  BY Zenon DEF GenerateToken
<1>2. /\ gen \in CallRecord
      /\ gen.limit > 0 /\ gen.prompt > 0 /\ gen.of \in Owners /\ gen.on \in CacheNames
      /\ gen.limit <= Len(gen.answer) /\ gen.capture <= Window /\ gen.capture <= gen.limit
      /\ OutGood(gen.out, gen.answer, gen.limit)
      /\ CacheGood(old, gen.prefix, gen.of, gen.start, gen.prompt, gen.out)
      /\ SeesGood(gen.sees, gen.prefix, gen.prompt + step)
      /\ CaptureGood(gen.captured, gen.capture, old, from, gen.out)
      /\ IndexGood(gen.fact, gen.vector, old, from, gen.out)
  BY Zenon DEF CallGood
<1>3. /\ gen.custom \in BOOLEAN /\ gen.prefix \in Nat /\ gen.start \in Nat /\ gen.prompt \in Nat
      /\ gen.answer \in Seq(Tokens) /\ gen.limit \in Nat /\ gen.out \in Seq(Tokens) /\ gen.capture \in Nat
      /\ gen.captured \in [keys : Seq(Key), count : Nat] \cup {NoValue} /\ gen.fact \in BOOLEAN
      /\ gen.vector \in Seq(Key) \cup {NoValue} /\ gen.sees \in Seq(Sights)
  BY <1>2, RecordFields
<1>4. /\ out \in Seq(Tokens) /\ Len(out) = step + 1 /\ (\A i \in 1..step : out[i] = gen.out[i])
      /\ (\A i \in 1..step : gen.out[i] \notin Stops) /\ OutGood(out, gen.answer, gen.limit)
  <2>1. gen.out = <<>> \/ (Last(gen.out) \notin Stops /\ Len(gen.out) # gen.limit)
    BY <1>1, Zenon DEF Ended
  <2>2. Len(gen.out) # gen.limit /\ (gen.out = <<>> \/ Last(gen.out) \notin Stops)
    BY <1>2, <1>3, <2>1
  <2> QED BY <1>2, <1>3, <2>2, OutGrows, Zenon
<1>5. /\ CacheGood(cache, gen.prefix, gen.of, gen.start, gen.prompt, out)
      /\ (\A i \in 1..Len(old) : cache[i] = old[i]) /\ Len(cache) = Len(old) + 1
  <2> HIDE DEF out, old
  <2>1. Longer(gen.out, out)
    BY <1>4, Zenon DEF Longer
  <2>2. /\ gen.prefix \in Nat /\ gen.of \in Owners /\ gen.start \in Nat /\ gen.prompt \in Nat
        /\ gen.out \in Seq(Tokens) /\ out \in Seq(Tokens)
        /\ CacheGood(old, gen.prefix, gen.of, gen.start, gen.prompt, gen.out)
    BY <1>2, <1>3, <1>4, Zenon
  <2> DEFINE key == KeyAt(gen.of, gen.start, gen.prompt, out, gen.prompt + Len(gen.out) + 1)
  <2>3. cache = old \o <<key>>
    <3>1. /\ ~(gen.prompt + step + 1 <= gen.prompt) /\ (gen.prompt + step + 1) - gen.prompt = step + 1
          /\ gen.start + (gen.prompt + step + 1) - 1 = gen.start + gen.prompt + step
          /\ gen.start + gen.prompt + step \in Int
      <4>1. step \in Nat
        BY <1>3
      <4> HIDE DEF step
      <4> QED BY <4>1, <2>2
    <3>2. Last(out) = out[step + 1]
      BY <1>4, Zenon DEF Last
    <3>3. key = [pos |-> gen.start + gen.prompt + step, of |-> gen.of, token |-> Last(out)]
      BY <3>1, <3>2, Zenon DEF KeyAt
    <3>4. Keys(gen.of, <<Last(out)>>, gen.start + gen.prompt + step) = <<key>>
      BY <3>1, <3>3, OneKey, Zenon
    <3> QED BY <3>4, Zenon
  <2> HIDE DEF key
  <2> HIDE DEF cache
  <2>4. CacheGood(cache, gen.prefix, gen.of, gen.start, gen.prompt, out) /\ Longer(old, cache)
    BY <2>1, <2>2, <2>3, CacheGrows, Zenon DEF key
  <2> QED BY <2>4, Zenon DEF Longer
<1>6. old \in Seq(Key) /\ Len(old) = from + step /\ cache \in Seq(Key) /\ step \in Nat /\ from \in Nat
  <2>1. old \in Seq(Key) /\ Len(old) = gen.prefix + gen.prompt + Len(gen.out)
    BY <1>2, Zenon DEF CacheGood
  <2>2. cache \in Seq(Key)
    BY <1>5, Zenon DEF CacheGood
  <2>3. step \in Nat /\ from \in Nat
    BY <1>3
  <2> QED BY <2>1, <2>2, <2>3
<1>7. SeesGood(gen.sees \o mask, gen.prefix, gen.prompt + Len(out))
  <2> DEFINE n == gen.prompt + step
  <2>1. n \in Nat /\ gen.prompt + Len(out) = n + 1
    <3>1. step \in Nat /\ gen.prompt \in Nat
      BY <1>3
    <3>2. Len(out) = step + 1
      BY <1>4, Zenon
    <3> DEFINE l == Len(out)
    <3> HIDE DEF step, l
    <3> QED BY <3>1, <3>2 DEF l
  <2> HIDE DEF n, out
  <2>2. SeesGood(gen.sees \o (IF gen.custom THEN PrefixCausalMask(1, gen.prefix, n + 1, (n + 1) - 1)
                           ELSE CausalMask(1, gen.prefix + (n + 1) - 1)), gen.prefix, n + 1)
    <3>1. SeesGood(gen.sees, gen.prefix, n)
      BY <1>2, Zenon DEF n
    <3> QED BY <1>3, <2>1, <3>1, SeesGrows, Zenon
  <2>3. current = n + 1
    BY Zenon DEF n
  <2> HIDE DEF current
  <2>4. mask = IF gen.custom THEN PrefixCausalMask(1, gen.prefix, n + 1, (n + 1) - 1)
               ELSE CausalMask(1, gen.prefix + (n + 1) - 1)
    BY <2>3, Zenon
  <2> HIDE DEF mask
  <2> QED BY <2>1, <2>2, <2>4, Zenon
<1>8. CaptureGood(captured, gen.capture, cache, from, out)
  <2> HIDE DEF cache, out, step, from, old
  <2>1. gen.capture > 0 /\ gen.captured = NoValue /\ BlockComplete(gen, out)
        <=> gen.capture > 0 /\ gen.captured = NoValue /\ (Len(out) >= gen.capture \/ Last(out) \in Stops)
    BY Zenon DEF BlockComplete
  <2>2. Len(gen.out) = step
    BY DEF step
  <2>3. CaptureGood(
           IF gen.capture > 0 /\ gen.captured = NoValue /\ (Len(out) >= gen.capture \/ Last(out) \in Stops)
           THEN [keys |-> SliceCache(cache, from, from + Len(out)), count |-> Len(out)] ELSE gen.captured,
           gen.capture, cache, from, out)
    BY <1>2, <1>3, <1>4, <1>5, <1>6, <2>2, CaptureGrows, Zenon
  <2> QED BY <2>1, <2>3, Zenon
<1>9. IndexGood(gen.fact, vector, cache, from, out)
  <2> HIDE DEF cache, out, step, from, old
  <2>1. Len(gen.out) = step
    BY DEF step
  <2> QED BY <1>2, <1>3, <1>4, <1>5, <1>6, <2>1, IndexGrows, Zenon
<1>10. captured \in [keys : Seq(Key), count : Nat] \cup {NoValue}
  <2> SUFFICES ASSUME captured # NoValue PROVE captured \in [keys : Seq(Key), count : Nat]
    OBVIOUS
  <2>1. PICK n \in 1..Len(out) : captured = [keys |-> SubSeq(cache, from + 1, from + n), count |-> n]
    BY <1>8, Zenon DEF CaptureGood
  <2> HIDE DEF captured, cache, from, out, step, old
  <2>2. SubSeq(cache, from + 1, from + n) \in Seq(Key) /\ n \in Nat
    <3>1. n \in Nat /\ n <= Len(out) /\ Len(cache) = from + step + 1 /\ Len(out) = step + 1
      BY <1>4, <1>5, <1>6
    <3> QED BY <1>6, <3>1
  <2> QED BY <2>1, <2>2
<1>11. vector \in Seq(Key) \cup {NoValue} /\ gen.sees \o mask \in Seq(Sights)
  <2>1. gen.sees \o mask \in Seq(Sights)
    BY <1>7, Zenon DEF SeesGood
  <2> QED BY <1>3, <1>6, <2>1
<1> HIDE DEF vector, captured, mask, from, current, cache, out
<1>12. /\ gen' \in CallRecord /\ SameCall(gen, gen') /\ gen'.out = out
       /\ gen'.sees = gen.sees \o mask /\ gen'.vector = vector /\ gen'.captured = captured
  <2> DEFINE sees == gen.sees \o mask
  <2>1. /\ Stepped(gen, gen', out, sees, vector, captured)
        /\ out \in Seq(Tokens) /\ sees \in Seq(Sights) /\ gen \in CallRecord
    BY <1>1, <1>2, <1>4, <1>11, Zenon DEF Stepped
  <2> HIDE DEF sees
  <2>2. /\ gen' \in CallRecord /\ SameCall(gen, gen') /\ gen'.out = out
        /\ gen'.sees = sees /\ gen'.vector = vector /\ gen'.captured = captured
    <3>1. vector \in Vectors /\ captured \in Cuts
      BY <1>10, <1>11, Zenon DEF Vectors, Cuts
    <3> HIDE DEF step, old
    <3> DEFINE next == gen'
    <3>2. Stepped(gen, next, out, sees, vector, captured)
      BY <2>1, Zenon
    <3> HIDE DEF next
    <3>3. next \in CallRecord /\ SameCall(gen, next) /\ PartsAre(next, out, sees, vector, captured)
      BY <2>1, <3>1, <3>2, RecordGrows, Zenon
    <3> QED BY <3>3, Zenon DEF next, PartsAre
  <2> QED BY <2>2, Zenon DEF sees
<1>13. caches' \in [DOMAIN caches -> Seq(Key)] /\ DOMAIN caches' = DOMAIN caches /\ caches'[gen.on] = cache
       /\ \A x \in DOMAIN caches : x # gen.on => caches'[x] = caches[x]
  BY <1>1, <1>6 DEF CachesType
<1>14. CallGood(cache, gen')
  BY <1>2, <1>4, <1>5, <1>7, <1>8, <1>9, <1>12, Zenon DEF CallGood, SameCall, from
<1> QED BY <1>1, <1>5, <1>12, <1>13, <1>14

\* A sequence that was extended.
Begins(s, t) == Len(s) <= Len(t) /\ \A i \in 1..Len(s) : t[i] = s[i]

\* What a call was started with.
StartedWith(call, on, prefix, start, prompt, of, answer, limit, capture, fact) ==
  /\ call.on = on /\ call.prefix = prefix /\ call.start = start /\ call.prompt = prompt /\ call.of = of
  /\ call.answer = answer /\ call.limit = limit /\ call.capture = capture /\ call.fact = fact

LEMMA StillStartedWith ==
  ASSUME NEW call, NEW next, SameCall(call, next), NEW on, NEW prefix, NEW start, NEW prompt, NEW of, NEW answer,
         NEW limit, NEW capture, NEW fact,
         StartedWith(call, on, prefix, start, prompt, of, answer, limit, capture, fact)
  PROVE  StartedWith(next, on, prefix, start, prompt, of, answer, limit, capture, fact)
BY DEF SameCall, StartedWith

EndsWith(s, t, u) == Len(u) = Len(s) + Len(t) /\ \A i \in 1..Len(t) : u[Len(s) + i] = t[i]

LEMMA Joined ==
  ASSUME NEW S, NEW s \in Seq(S), NEW t \in Seq(S)
  PROVE  (s \o t) \in Seq(S) /\ Begins(s, s \o t) /\ EndsWith(s, t, s \o t)
BY DEF Begins, EndsWith

LEMMA PromptKeys ==
  ASSUME NEW of \in Owners, NEW n \in Nat, NEW start \in Nat
  PROVE  /\ Keys(of, Prompt(n), start) \in Seq(Key) /\ Len(Keys(of, Prompt(n), start)) = n
         /\ \A k \in 1..n : Keys(of, Prompt(n), start)[k] = [pos |-> start + k - 1, of |-> of, token |-> "prompt"]
<1>1. Len(Prompt(n)) = n /\ \A i \in 1..n : Prompt(n)[i] = "prompt"
  BY DEF Prompt
<1> DEFINE ks == [i \in 1..n |-> [pos |-> start + i - 1, of |-> of, token |-> "prompt"]]
<1>2. Keys(of, Prompt(n), start) = ks
  <2>1. Keys(of, Prompt(n), start) = [i \in 1..n |-> [pos |-> start + i - 1, of |-> of, token |-> Prompt(n)[i]]]
    BY <1>1, Zenon DEF Keys
  <2> QED BY <1>1, <2>1
<1>3. \A k \in 1..n : ks[k] \in Key
  <2> TAKE k \in 1..n
  <2>1. start + k - 1 \in Nat
    OBVIOUS
  <2> QED BY <2>1 DEF Key, Owners
<1>4. ks \in Seq(Key) /\ Len(ks) = n
  BY <1>3
<1> QED BY <1>2, <1>4

PrefillOf(cache, of, prompt, start) == cache \o Keys(of, Prompt(prompt), start)

LEMMA PrefillGood ==
  ASSUME NEW cache \in Seq(Key), NEW of \in Owners, NEW prompt \in Nat, NEW start \in Nat
  PROVE  /\ CacheGood(PrefillOf(cache, of, prompt, start), Len(cache), of, start, prompt, <<>>)
         /\ Begins(cache, PrefillOf(cache, of, prompt, start))
         /\ PrefillOf(cache, of, prompt, start) \in Seq(Key)
         /\ Len(PrefillOf(cache, of, prompt, start)) = Len(cache) + prompt
<1> DEFINE ks == Keys(of, Prompt(prompt), start)
           full == cache \o ks
<1>1. ks \in Seq(Key) /\ Len(ks) = prompt
      /\ \A k \in 1..prompt : ks[k] = [pos |-> start + k - 1, of |-> of, token |-> "prompt"]
  BY PromptKeys
<1> HIDE DEF ks
<1>2. full \in Seq(Key) /\ Len(full) = Len(cache) + Len(ks) /\ Begins(cache, full)
      /\ \A i \in 1..Len(ks) : full[Len(cache) + i] = ks[i]
  <2>1. full \in Seq(Key) /\ Begins(cache, full) /\ EndsWith(cache, ks, full)
    BY <1>1, Joined, Zenon
  <2> QED BY <2>1, Zenon DEF EndsWith
<1>3. full = PrefillOf(cache, of, prompt, start)
  BY Zenon DEF PrefillOf, ks
<1> HIDE DEF full
<1>4. Len(<<>>) = 0 /\ prompt + 0 = prompt /\ Len(cache) \in Nat /\ Len(full) = Len(cache) + prompt
      /\ Len(cache) + prompt + Len(<<>>) = Len(cache) + prompt
  BY <1>1, <1>2
<1>5. \A k \in 1..(prompt + Len(<<>>)) : full[Len(cache) + k] = KeyAt(of, start, prompt, <<>>, k)
  <2> TAKE k \in 1..(prompt + Len(<<>>))
  <2>1. k \in 1..prompt /\ k <= prompt
    BY <1>4
  <2>2. KeyAt(of, start, prompt, <<>>, k) = [pos |-> start + k - 1, of |-> of, token |-> "prompt"]
    BY <2>1, Zenon DEF KeyAt
  <2>3. full[Len(cache) + k] = ks[k]
    BY <1>1, <1>2, <2>1
  <2> QED BY <1>1, <2>1, <2>2, <2>3, Zenon
<1>6. CacheGood(full, Len(cache), of, start, prompt, <<>>)
  BY <1>2, <1>4, <1>5 DEF CacheGood
<1> QED BY <1>2, <1>3, <1>4, <1>6, Zenon

\* What a started call is, and the caches it leaves.
Started(call, next, given, on, of, prompt, start, answer, limit, capture, fact) ==
  /\ CallGood(next[on], call)
  /\ StartedWith(call, on, Len(given[on]), start, prompt, of, answer, limit, capture, fact)
  /\ next \in [DOMAIN given -> Seq(Key)] /\ DOMAIN next = DOMAIN given
  /\ \A x \in DOMAIN given : x # on => next[x] = given[x]
  /\ Begins(given[on], next[on])

\* What it may be started with.
Startable(given, on, custom, of, prompt, start, answer, limit, capture, fact) ==
  /\ given \in [DOMAIN given -> Seq(Key)] /\ DOMAIN given \subseteq CacheNames
  /\ on \in DOMAIN given /\ custom \in BOOLEAN /\ of \in Owners /\ prompt \in Nat \ {0}
  /\ start \in Nat /\ answer \in Seq(Tokens) /\ limit \in Nat \ {0} /\ limit <= Len(answer)
  /\ capture \in Nat /\ capture <= Window /\ capture <= limit /\ fact \in BOOLEAN

\* A call starts with the prompt over the cache it was given.
LEMMA CallStarts ==
  ASSUME NEW given, NEW on, NEW custom, NEW of, NEW prompt, NEW start, NEW answer, NEW limit, NEW capture, NEW fact,
         Startable(given, on, custom, of, prompt, start, answer, limit, capture, fact)
  PROVE  Started(Call(given, on, custom, of, prompt, start, answer, limit, capture, fact),
                 Prefill(given, on, of, prompt, start), given, on, of, prompt, start, answer, limit, capture, fact)
<1> SUFFICES ASSUME
         given \in [DOMAIN given -> Seq(Key)], DOMAIN given \subseteq CacheNames, on \in DOMAIN given, custom \in BOOLEAN,
         of \in Owners, prompt \in Nat \ {0}, start \in Nat, answer \in Seq(Tokens), limit \in Nat \ {0},
         limit <= Len(answer), capture \in Nat, capture <= Window, capture <= limit, fact \in BOOLEAN
    PROVE Started(Call(given, on, custom, of, prompt, start, answer, limit, capture, fact),
                  Prefill(given, on, of, prompt, start), given, on, of, prompt, start, answer, limit, capture, fact)
  BY Zenon DEF Startable
<1> DEFINE call == Call(given, on, custom, of, prompt, start, answer, limit, capture, fact)
           next == Prefill(given, on, of, prompt, start)
           prefix == Len(given[on])
           mine == custom /\ prefix > 0
           sees == IF mine THEN PrefixCausalMask(prompt, prefix, prompt, 0) ELSE CausalMask(prompt, prefix)
           new == PrefillOf(given[on], of, prompt, start)
<1>1. given[on] \in Seq(Key) /\ prefix \in Nat /\ mine \in BOOLEAN
  OBVIOUS
<1>2. next = [given EXCEPT ![on] = new]
  BY Zenon DEF Prefill, PrefillOf
<1>3. /\ CacheGood(new, prefix, of, start, prompt, <<>>) /\ Begins(given[on], new) /\ new \in Seq(Key)
  BY <1>1, PrefillGood, Zenon
<1>4. SeesGood(sees, prefix, prompt)
  <2> HIDE DEF mine, prefix
  <2> QED BY <1>1, SeesStarts, Zenon
<1>5. call =
        [on |-> on, custom |-> mine, prefix |-> prefix, start |-> start, prompt |-> prompt,
         of |-> of, answer |-> answer, limit |-> limit, out |-> <<>>, capture |-> capture, captured |-> NoValue,
         fact |-> fact, vector |-> NoValue, sees |-> sees]
  BY Zenon DEF Call
<1>6. sees \in Seq(Sights)
  BY <1>4, Zenon DEF SeesGood
<1> HIDE DEF new, sees, mine
<1>7. next \in [DOMAIN given -> Seq(Key)] /\ DOMAIN next = DOMAIN given /\ next[on] = new
      /\ \A x \in DOMAIN given : x # on => next[x] = given[x]
  <2> HIDE DEF next
  <2> QED BY <1>2, <1>3
<1> HIDE DEF next, call, prefix
<1>8. /\ call.on = on /\ call.custom = mine /\ call.prefix = prefix /\ call.start = start /\ call.prompt = prompt
      /\ call.of = of /\ call.answer = answer /\ call.limit = limit /\ call.out = <<>>
      /\ call.capture = capture /\ call.captured = NoValue /\ call.fact = fact /\ call.vector = NoValue
      /\ call.sees = sees
  BY <1>5
<1>9. call \in CallRecord
  <2> DEFINE C == Cuts
             V == Vectors
             T == Seq(Tokens)
             O == Owners \cup {"none"}
             N == CacheNames \cup {"none"}
             R == [on : N, custom : BOOLEAN, prefix : Nat, start : Nat, prompt : Nat,
                 of : O, answer : T, limit : Nat, out : T, capture : Nat, captured : C, fact : BOOLEAN,
                 vector : V, sees : Seq(Sights)]
  <2>1. <<>> \in T /\ answer \in T /\ of \in O /\ on \in N /\ NoValue \in C /\ NoValue \in V /\ limit \in Nat /\ prompt \in Nat
    BY DEF Cuts, Vectors
  <2>2. R = CallRecord
    BY Zenon DEF CallRecord, Cuts, Vectors
  <2> HIDE DEF C, V, T, O, N
  <2>3. call \in R
    BY <1>1, <1>5, <1>6, <2>1
  <2> QED BY <2>2, <2>3
<1>10. OutGood(<<>>, answer, limit)
  BY DEF OutGood
<1>11. CaptureGood(NoValue, capture, new, prefix + prompt, <<>>)
  <2>1. Len(<<>>) = 0 /\ (capture = 0 \/ 0 < capture) /\ \A i \in 1..0 : FALSE
    OBVIOUS
  <2> QED BY <2>1 DEF CaptureGood
<1>12. IndexGood(fact, NoValue, new, prefix + prompt, <<>>)
  <2>1. FactAt(<<>>) = {}
    BY DEF FactAt
  <2> QED BY <2>1 DEF IndexGood
<1>13. CallGood(new, call)
  <2>1. prompt + Len(<<>>) = prompt /\ limit > 0 /\ prompt > 0
    OBVIOUS
  <2>2. SeesGood(sees, prefix, prompt + Len(<<>>))
    BY <1>4, <2>1, Zenon
  <2>3. on \in CacheNames
    OBVIOUS
  <2> QED BY <1>3, <1>8, <1>9, <1>10, <1>11, <1>12, <2>1, <2>2, <2>3, Zenon DEF CallGood
<1>14. StartedWith(call, on, prefix, start, prompt, of, answer, limit, capture, fact)
  BY <1>8, Zenon DEF StartedWith
<1>15. Started(call, next, given, on, of, prompt, start, answer, limit, capture, fact)
  BY <1>3, <1>7, <1>13, <1>14, Zenon DEF prefix, Started
<1> QED BY <1>15, Zenon DEF next, call

------------------------------------------------------------------------------
(* What a call leaves when it has ended.                                    *)

LEMMA CallParts ==
  ASSUME NEW cache, NEW call, CallGood(cache, call)
  PROVE  /\ call \in CallRecord /\ call.limit \in Nat \ {0} /\ call.prompt \in Nat \ {0} /\ call.of \in Owners
         /\ call.prefix \in Nat /\ call.start \in Nat /\ call.capture \in Nat /\ call.capture <= call.limit
         /\ call.answer \in Seq(Tokens) /\ call.out \in Seq(Tokens) /\ call.fact \in BOOLEAN
         /\ call.limit <= Len(call.answer) /\ Len(call.out) <= call.limit /\ Len(call.out) \in Nat
         /\ \A i \in 1..Len(call.out) : call.out[i] = call.answer[i]
         /\ \A i \in 1..(Len(call.out) - 1) : call.out[i] \notin Stops
         /\ cache \in Seq(Key) /\ Len(cache) = call.prefix + call.prompt + Len(call.out)
         /\ \A k \in 1..(call.prompt + Len(call.out)) :
              cache[call.prefix + k] = KeyAt(call.of, call.start, call.prompt, call.out, k)
<1>1. call \in CallRecord /\ call.limit > 0 /\ call.prompt > 0 /\ call.of \in Owners
      /\ call.limit <= Len(call.answer) /\ call.capture <= call.limit
      /\ OutGood(call.out, call.answer, call.limit)
      /\ CacheGood(cache, call.prefix, call.of, call.start, call.prompt, call.out)
  BY Zenon DEF CallGood
<1>2. /\ call.prefix \in Nat /\ call.start \in Nat /\ call.prompt \in Nat
      /\ call.answer \in Seq(Tokens) /\ call.limit \in Nat /\ call.out \in Seq(Tokens) /\ call.capture \in Nat
      /\ call.fact \in BOOLEAN
  BY <1>1, RecordFields
<1>3. call.limit \in Nat \ {0} /\ call.prompt \in Nat \ {0} /\ Len(call.out) \in Nat
  BY <1>1, <1>2
<1>4. /\ Len(call.out) <= call.limit /\ (\A i \in 1..Len(call.out) : call.out[i] = call.answer[i])
      /\ \A i \in 1..(Len(call.out) - 1) : call.out[i] \notin Stops
  BY <1>1, Zenon DEF OutGood
<1>5. /\ cache \in Seq(Key) /\ Len(cache) = call.prefix + call.prompt + Len(call.out)
      /\ \A k \in 1..(call.prompt + Len(call.out)) :
              cache[call.prefix + k] = KeyAt(call.of, call.start, call.prompt, call.out, k)
  BY <1>1, Zenon DEF CacheGood
<1> QED BY <1>1, <1>2, <1>3, <1>4, <1>5, Zenon

\* It generated the answer up to its end.
LEMMA EndedIsTaken ==
  ASSUME NEW cache, NEW call, CallGood(cache, call), Ended(call)
  PROVE  Len(call.out) = Taken(call.answer, call.limit) /\ Len(call.out) \in 1..call.limit
<1> DEFINE n == Len(call.out)
<1>1. /\ call.limit \in Nat \ {0} /\ n \in Nat /\ n <= call.limit /\ call.out \in Seq(Tokens)
      /\ (\A i \in 1..n : call.out[i] = call.answer[i])
      /\ \A i \in 1..(n - 1) : call.out[i] \notin Stops
  BY CallParts, Zenon
<1>2. call.out # <<>> /\ (call.out[n] \in Stops \/ n = call.limit)
  BY Zenon DEF Ended, Last
<1>3. n \in 1..call.limit
  BY <1>1, <1>2
<1> HIDE DEF n
<1>4. n = call.limit \/ call.answer[n] \in Stops
  BY <1>1, <1>2, <1>3
<1>5. \A i \in 1..(n - 1) : call.answer[i] \notin Stops
  BY <1>1, <1>3
<1>6. n = Taken(call.answer, call.limit)
  BY <1>1, <1>3, <1>4, <1>5, TakenIs, Zenon
<1> QED BY <1>3, <1>6 DEF n

\* Its block was cut, and is as long as it may be.
LEMMA EndedIsCut ==
  ASSUME NEW cache, NEW call, CallGood(cache, call), Ended(call), call.capture > 0
  PROVE  \E n \in 1..Len(call.out) :
           /\ n = (IF Len(call.out) < call.capture THEN Len(call.out) ELSE call.capture)
           /\ call.captured =
                [keys |-> SubSeq(cache, call.prefix + call.prompt + 1, call.prefix + call.prompt + n), count |-> n]
<1> DEFINE l == Len(call.out)
           before == call.prefix + call.prompt
<1>1. /\ call.limit \in Nat \ {0} /\ l \in 1..call.limit /\ call.out \in Seq(Tokens) /\ call.capture \in Nat
      /\ call.capture <= call.limit /\ \A i \in 1..(l - 1) : call.out[i] \notin Stops
  BY CallParts, EndedIsTaken, Zenon
<1>2. call.out[l] \in Stops \/ l = call.limit
  BY Zenon DEF Ended, Last
<1>3. CaptureGood(call.captured, call.capture, cache, before, call.out)
  BY Zenon DEF CallGood
<1>4. call.captured # NoValue
  <2> SUFFICES ASSUME call.captured = NoValue PROVE FALSE
    OBVIOUS
  <2>1. call.capture = 0 \/ (l < call.capture /\ \A i \in 1..l : call.out[i] \notin Stops)
    BY <1>3, Zenon DEF CaptureGood
  <2>2. l \in 1..l
    BY <1>1
  <2> HIDE DEF l
  <2> QED BY <1>1, <1>2, <2>1, <2>2
<1>5. PICK n \in 1..l : CutAt(n, call.out, call.capture)
        /\ call.captured = [keys |-> SubSeq(cache, before + 1, before + n), count |-> n]
  BY <1>3, <1>4, Zenon DEF CaptureGood
<1>6. n = (IF l < call.capture THEN l ELSE call.capture)
  <2>1. n <= call.capture /\ (n = call.capture \/ (n = l /\ call.out[n] \in Stops)) /\ n \in 1..l
    BY <1>5, Zenon DEF CutAt
  <2> HIDE DEF l
  <2> QED BY <1>1, <2>1
<1> QED BY <1>5, <1>6, Zenon

IsSlice(u, s, b, n) == u = [i \in 1..n |-> s[b + i]]

LEMMA SubSeqIs ==
  ASSUME NEW S, NEW s \in Seq(S), NEW b \in Nat, NEW n \in Nat, b + n <= Len(s)
  PROVE  IsSlice(SubSeq(s, b + 1, b + n), s, b, n)
<1>1. (b + n) - (b + 1) + 1 = n /\ \A i \in 1..n : i + (b + 1) - 1 = b + i
  OBVIOUS
<1> QED BY <1>1 DEF IsSlice

MainCapture == IF BlockSize < MaxNew THEN BlockSize ELSE MaxNew

\* What is known of a row's answer when it has ended.
MainDone(c, r, main) ==
  /\ main.prompt = c[r].prompt /\ main.out \in Seq(Tokens) /\ Len(main.out) = Taken(c[r].main, MaxNew)
  /\ \A i \in 1..Len(main.out) : main.out[i] = c[r].main[i]
  /\ \A i \in 1..(Len(main.out) - 1) : main.out[i] \notin Stops
  /\ main.captured = [keys |-> BlockKeys(c, r), count |-> BlockLength(c, r)]

LEMMA MainIsDone ==
  ASSUME NEW c \in Corpora, NEW r \in 1..Len(c), NEW cache, NEW call, CallGood(cache, call), Ended(call),
         StartedWith(call, "history", PlacesOf(c)[r], PlacesOf(c)[r], c[r].prompt, OwnerOf(r, "main"),
                     c[r].main, MaxNew, MainCapture, FALSE)
  PROVE  MainDone(c, r, call)
<1> DEFINE p == PlacesOf(c)[r]
           l == Len(call.out)
           t == Taken(c[r].main, MaxNew)
<1>1. /\ call.prefix = p /\ call.start = p /\ call.prompt = c[r].prompt /\ call.of = OwnerOf(r, "main")
      /\ call.answer = c[r].main /\ call.limit = MaxNew /\ call.capture = MainCapture
  BY Zenon DEF StartedWith
<1>2. /\ call.out \in Seq(Tokens) /\ l \in Nat /\ (\A i \in 1..l : call.out[i] = c[r].main[i])
      /\ (\A i \in 1..(l - 1) : call.out[i] \notin Stops)
      /\ cache \in Seq(Key) /\ Len(cache) = p + c[r].prompt + l
      /\ \A k \in 1..(c[r].prompt + l) : cache[p + k] = KeyAt(OwnerOf(r, "main"), p, c[r].prompt, call.out, k)
  <2>1. /\ call.out \in Seq(Tokens) /\ OutGood(call.out, c[r].main, MaxNew)
        /\ CacheGood(cache, p, OwnerOf(r, "main"), p, c[r].prompt, call.out)
    <3>1. /\ OutGood(call.out, call.answer, call.limit)
          /\ CacheGood(cache, call.prefix, call.of, call.start, call.prompt, call.out)
      BY Zenon DEF CallGood
    <3> HIDE DEF p
    <3>2. OutGood(call.out, c[r].main, MaxNew) /\ CacheGood(cache, p, OwnerOf(r, "main"), p, c[r].prompt, call.out)
      BY <1>1, <3>1
    <3> QED BY <3>2, Zenon DEF OutGood
  <2>2. l \in Nat
    BY <2>1
  <2> QED BY <2>1, <2>2, Zenon DEF OutGood, CacheGood
<1>3. l = t /\ l \in 1..MaxNew
  BY <1>1, EndedIsTaken, Zenon
<1>4. MaxNew \in Nat \ {0} /\ BlockSize \in Nat \ {0}
  BY AnswerAssumption
<1>5. MainCapture \in Nat /\ MainCapture > 0
  BY <1>4 DEF MainCapture
<1>6. PICK n \in 1..l :
        /\ n = (IF l < MainCapture THEN l ELSE MainCapture)
        /\ call.captured = [keys |-> SubSeq(cache, p + c[r].prompt + 1, p + c[r].prompt + n), count |-> n]
  BY <1>1, <1>5, EndedIsCut, Zenon
<1>7. n = BlockLength(c, r)
  <2>1. BlockLength(c, r) = (IF t < BlockSize THEN t ELSE BlockSize)
    BY Zenon DEF BlockLength
  <2> HIDE DEF t, l
  <2> QED BY <1>3, <1>4, <1>6, <2>1 DEF MainCapture
<1>8. p \in Nat /\ c[r].prompt \in Nat
  <2>1. r \in 1..(Len(c) + 1)
    BY CorpusLength
  <2> QED BY <2>1, PlaceFacts, CorpusRows
<1>9. SubSeq(cache, p + c[r].prompt + 1, p + c[r].prompt + n) = BlockKeys(c, r)
  <2> DEFINE b == p + c[r].prompt
             f(i) == [pos |-> b + i - 1, of |-> OwnerOf(r, "main"), token |-> c[r].main[i]]
  <2>1. b \in Nat /\ Len(cache) = b + l /\ n \in 1..l
    BY <1>2, <1>6, <1>8
  <2>2. ASSUME NEW i \in 1..n PROVE cache[b + i] = f(i)
    <3> DEFINE k == c[r].prompt + i
    <3>1. k \in 1..(c[r].prompt + l) /\ ~(k <= c[r].prompt) /\ k - c[r].prompt = i /\ p + k = b + i
          /\ p + k - 1 = b + i - 1 /\ i \in 1..l
      <4>1. l \in Nat /\ p \in Nat /\ c[r].prompt \in Nat
        BY <1>2, <1>8, Zenon
      <4> DEFINE m == c[r].prompt
      <4>2. m \in Nat /\ b = p + m /\ k = m + i
        BY <4>1
      <4> HIDE DEF l, p, m, b, k
      <4>3. k \in 1..(m + l) /\ ~(k <= m) /\ k - m = i /\ p + k = b + i
          /\ p + k - 1 = b + i - 1 /\ i \in 1..l
        BY <2>1, <4>1, <4>2
      <4> QED BY <4>3 DEF m
    <3>2. cache[p + k] = KeyAt(OwnerOf(r, "main"), p, c[r].prompt, call.out, k)
      BY <1>2, <3>1, Zenon
    <3> HIDE DEF k, b, p
    <3>3. cache[b + i] = [pos |-> b + i - 1, of |-> OwnerOf(r, "main"), token |-> call.out[i]]
      BY <3>1, <3>2 DEF KeyAt
    <3>4. call.out[i] = c[r].main[i]
      BY <1>2, <3>1, Zenon
    <3> QED BY <3>3, <3>4, Zenon
  <2>3. BlockKeys(c, r) = [i \in 1..n |-> f(i)]
    BY <1>7, Zenon DEF BlockKeys
  <2> HIDE DEF b, f
  <2>4. SubSeq(cache, b + 1, b + n) = [i \in 1..n |-> cache[b + i]]
    <3>1. cache \in Seq(Key)
      BY <1>2, Zenon
    <3>2. l \in Nat
      BY <1>2, Zenon
    <3> HIDE DEF l
    <3>3. b \in Nat /\ n \in Nat /\ b + n <= Len(cache)
      BY <2>1, <3>2
    <3>4. IsSlice(SubSeq(cache, b + 1, b + n), cache, b, n)
      BY <3>1, <3>3, SubSeqIs, Zenon
    <3> QED BY <3>4, Zenon DEF IsSlice
  <2> QED BY <2>2, <2>3, <2>4, Zenon DEF b
<1> QED BY <1>1, <1>2, <1>3, <1>6, <1>7, <1>9, Zenon DEF MainDone

\* _answer_block_end finds the length the block was cut at.
LEMMA BlockEndIs ==
  ASSUME NEW c \in Corpora, NEW r \in 1..Len(c), NEW main, MainDone(c, r, main)
  PROVE  AnswerBlockEnd(main.out) = BlockLength(c, r)
<1> DEFINE out == main.out
           l == Len(out)
           limit == IF Len(out) < BlockSize THEN Len(out) ELSE BlockSize
           ends == {i \in 1..limit : out[i] = "eos"}
<1>1. l = Taken(c[r].main, MaxNew) /\ l \in Nat /\ out \in Seq(Tokens) /\ (\A i \in 1..(l - 1) : out[i] \notin Stops)
  BY DEF MainDone
<1>2. limit = BlockLength(c, r)
  BY <1>1, Zenon DEF BlockLength
<1>3. BlockSize \in Nat
  BY AnswerAssumption
<1>4. limit \in Nat /\ limit <= l
  BY <1>1, <1>3
<1>5. \A i \in ends : i = limit
  <2> TAKE i \in ends
  <2>1. i \in 1..limit /\ out[i] \in Stops
    BY DEF Stops
  <2> HIDE DEF limit, ends
  <2>2. i = l
    BY <1>1, <1>4, <2>1
  <2> QED BY <1>4, <2>1, <2>2
<1>6. AnswerBlockEnd(out) = (IF ends = {} THEN limit ELSE CHOOSE i \in ends : \A j \in ends : i <= j)
  BY Zenon DEF AnswerBlockEnd
<1> HIDE DEF ends, limit, l
<1>7. CASE ends = {}
  BY <1>2, <1>6, <1>7, Zenon
<1>8. CASE ends # {}
  <2>1. \E i \in ends : \A j \in ends : i <= j
    BY <1>4, <1>5, <1>8
  <2>2. (CHOOSE i \in ends : \A j \in ends : i <= j) \in ends
    BY <2>1, Zenon
  <2> QED BY <1>2, <1>5, <1>6, <1>8, <2>2, Zenon
<1> QED BY <1>7, <1>8

------------------------------------------------------------------------------
(* The history and what an index was taken from.                            *)

\* The first keys are those of the rows before r, at consecutive positions.
RememberedPart(c, cache, r) ==
  \A i \in 1..PlacesOf(c)[r] : cache[i].pos = i - 1 /\ cache[i].of.branch = "main" /\ cache[i].of.row < r

Remembered(c, cache, r) ==
  cache \in Seq(Key) /\ Len(cache) = PlacesOf(c)[r] /\ RememberedPart(c, cache, r)

\* The index of row r: the history before it, then the branch's own prompt up to FACT:.
IndexVector(keys, r) ==
  /\ keys \in Seq(Key) /\ Len(keys) > 0 /\ Last(keys).token = "fact" /\ Last(keys).of = OwnerOf(r, "index")
  /\ \A k \in 1..Len(keys) :
       /\ keys[k].pos = k - 1
       /\ keys[k].of = OwnerOf(r, "index") \/ (keys[k].of.branch = "main" /\ keys[k].of.row < r)

LEMMA RememberedKept ==
  ASSUME NEW c \in Corpora, NEW r \in 1..(Len(c) + 1), NEW cache, NEW grown, Begins(cache, grown),
         PlacesOf(c)[r] <= Len(cache), Len(cache) \in Nat, RememberedPart(c, cache, r)
  PROVE  RememberedPart(c, grown, r)
<1>1. PlacesOf(c)[r] \in Nat
  BY PlaceFacts
<1>2. \A i \in 1..PlacesOf(c)[r] : grown[i] = cache[i]
  BY <1>1 DEF Begins
<1> QED BY <1>2 DEF RememberedPart

\* When the answer of a row has ended, the history has the row.
LEMMA HistoryGrows ==
  ASSUME NEW c \in Corpora, NEW r \in 1..Len(c), NEW cache, NEW call, CallGood(cache, call), Ended(call),
         StartedWith(call, "history", PlacesOf(c)[r], PlacesOf(c)[r], c[r].prompt, OwnerOf(r, "main"),
                     c[r].main, MaxNew, MainCapture, FALSE),
         RememberedPart(c, cache, r)
  PROVE  Remembered(c, cache, r + 1)
<1> DEFINE p == PlacesOf(c)[r]
           n == c[r].prompt
           l == Len(call.out)
           next == PlacesOf(c)[r + 1]
<1>1. /\ call.prefix = p /\ call.start = p /\ call.prompt = n /\ call.of = OwnerOf(r, "main")
      /\ call.answer = c[r].main /\ call.limit = MaxNew
  BY Zenon DEF StartedWith
<1>2. l = Taken(c[r].main, MaxNew)
  BY <1>1, EndedIsTaken, Zenon
<1>3. CacheGood(cache, p, OwnerOf(r, "main"), p, n, call.out)
  <2>1. CacheGood(cache, call.prefix, call.of, call.start, call.prompt, call.out)
    BY Zenon DEF CallGood
  <2> HIDE DEF p, n
  <2> QED BY <1>1, <2>1
<1>4. p \in Nat /\ n \in Nat /\ l \in Nat /\ next = p + n + l
  <2>1. r \in 1..(Len(c) + 1) /\ r \in Nat
    BY CorpusLength
  <2>2. next = p + n + Taken(c[r].main, MaxNew) /\ PlacesOf(c) \in [1..(Len(c) + 1) -> Nat]
    BY PlaceFacts, Zenon
  <2>3. Taken(c[r].main, MaxNew) \in Nat /\ n \in Nat
    BY TakenInRow, CorpusRows
  <2>4. p \in Nat
    BY <2>1, <2>2
  <2> QED BY <1>2, <2>2, <2>3, <2>4, Zenon
<1>5. /\ cache \in Seq(Key) /\ Len(cache) = p + n + l
      /\ \A k \in 1..(n + l) : cache[p + k] = KeyAt(OwnerOf(r, "main"), p, n, call.out, k)
  BY <1>3, Zenon DEF CacheGood
<1>6. ASSUME NEW i \in 1..next
      PROVE  cache[i].pos = i - 1 /\ cache[i].of.branch = "main" /\ cache[i].of.row < r + 1
  <2>0. i \in Nat /\ r \in Nat
    BY <1>4
  <2>1. CASE i <= p
    <3>1. i \in 1..p
      BY <1>4, <2>0, <2>1
    <3>2. cache[i].pos = i - 1 /\ cache[i].of.branch = "main" /\ cache[i].of.row < r
      BY <3>1, Zenon DEF RememberedPart
    <3>3. cache[i] \in Key
      <4> HIDE DEF p, n, l, next
      <4> QED BY <1>4, <1>5, <2>0, <2>1, <3>1
    <3>4. cache[i].of.row \in Nat
      BY <3>3 DEF Key
    <3> QED BY <2>0, <3>2, <3>4
  <2>2. CASE i > p
    <3> DEFINE k == i - p
    <3>1. k \in 1..(n + l) /\ p + k = i /\ p + k - 1 = i - 1
      <4> HIDE DEF p, n, l
      <4>1. next = p + n + l /\ i <= next
        BY <1>4, <2>0
      <4> HIDE DEF next
      <4> QED BY <1>4, <2>0, <2>2, <4>1
    <3> HIDE DEF k, p, n, l
    <3>2. cache[i] = KeyAt(OwnerOf(r, "main"), p, n, call.out, k)
      BY <1>5, <3>1, Zenon
    <3>3. cache[i].pos = i - 1 /\ cache[i].of = OwnerOf(r, "main")
      BY <3>1, <3>2 DEF KeyAt
    <3> QED BY <2>0, <3>3 DEF OwnerOf
  <2> QED BY <1>4, <2>0, <2>1, <2>2
<1>7. RememberedPart(c, cache, r + 1)
  BY <1>6, Zenon DEF RememberedPart
<1> QED BY <1>4, <1>5, <1>7, Zenon DEF Remembered

\* What the branch gave the index.
LEMMA VectorIs ==
  ASSUME NEW c \in Corpora, NEW r \in 1..Len(c), NEW cache, NEW call, CallGood(cache, call),
         call.prefix = PlacesOf(c)[r], call.start = PlacesOf(c)[r], call.of = OwnerOf(r, "index"),
         RememberedPart(c, cache, r), call.vector # NoValue
  PROVE  IndexVector(call.vector, r)
<1> DEFINE p == PlacesOf(c)[r]
           n == call.prompt
           before == call.prefix + call.prompt
<1>1. IndexGood(call.fact, call.vector, cache, before, call.out)
  BY Zenon DEF CallGood
<1>2. PICK v \in 1..Len(call.out) : call.out[v] = "fact" /\ call.vector = SubSeq(cache, 1, before + v)
  BY <1>1, Zenon DEF IndexGood
<1>3. CacheGood(cache, p, OwnerOf(r, "index"), p, n, call.out)
  <2>1. CacheGood(cache, call.prefix, call.of, call.start, call.prompt, call.out)
    BY Zenon DEF CallGood
  <2> HIDE DEF p
  <2> QED BY <2>1 DEF p
<1>4. /\ cache \in Seq(Key) /\ Len(cache) = p + n + Len(call.out)
      /\ \A k \in 1..(n + Len(call.out)) : cache[p + k] = KeyAt(OwnerOf(r, "index"), p, n, call.out, k)
  BY <1>3, Zenon DEF CacheGood
<1>5. p \in Nat /\ n \in Nat /\ n > 0 /\ Len(call.out) \in Nat
  <2>1. n \in Nat \ {0} /\ call.prefix \in Nat /\ Len(call.out) \in Nat
    BY CallParts, Zenon
  <2> QED BY <2>1
<1> DEFINE m == p + n + v
<1>6. m \in Nat /\ m > 0 /\ m <= Len(cache) /\ v \in Nat /\ v >= 1
  <2>1. v \in Nat /\ v >= 1 /\ v <= Len(call.out)
    BY <1>2, <1>5
  <2> HIDE DEF p, n
  <2> QED BY <1>4, <1>5, <2>1
<1>7. /\ call.vector \in Seq(Key) /\ Len(call.vector) = m /\ \A i \in 1..m : call.vector[i] = cache[i]
  <2>1. call.vector = SubSeq(cache, 1, m)
    BY <1>2
  <2>2. cache \in Seq(Key)
    BY <1>4, Zenon
  <2> HIDE DEF m
  <2>3. SubSeq(cache, 1, m) \in Seq(Key) /\ Len(SubSeq(cache, 1, m)) = m
        /\ \A i \in 1..m : SubSeq(cache, 1, m)[i] = cache[i]
    BY <1>6, <2>2
  <2> QED BY <2>1, <2>3
<1>8. ASSUME NEW i \in 1..m, i > p
      PROVE  cache[i] = KeyAt(OwnerOf(r, "index"), p, n, call.out, i - p)
  <2>1. i - p \in 1..(n + Len(call.out)) /\ p + (i - p) = i
    <3> HIDE DEF p, n
    <3> QED BY <1>2, <1>5, <1>6, <1>8
  <2> QED BY <1>4, <2>1, Zenon
<1>9. ASSUME NEW i \in 1..m
      PROVE  /\ call.vector[i].pos = i - 1
             /\ call.vector[i].of = OwnerOf(r, "index")
                \/ (call.vector[i].of.branch = "main" /\ call.vector[i].of.row < r)
  <2>1. CASE i <= p
    <3>1. i \in 1..p
      BY <1>5, <2>1
    <3>2. cache[i].pos = i - 1 /\ cache[i].of.branch = "main" /\ cache[i].of.row < r
      BY <3>1, Zenon DEF RememberedPart
    <3> QED BY <1>7, <3>2
  <2>2. CASE ~(i <= p)
    <3>1. i > p /\ p + (i - p) - 1 = i - 1
      BY <1>5, <2>2
    <3>2. cache[i] = KeyAt(OwnerOf(r, "index"), p, n, call.out, i - p)
      BY <1>8, <3>1
    <3>3. cache[i].pos = i - 1 /\ cache[i].of = OwnerOf(r, "index")
      <4> HIDE DEF p, n
      <4> QED BY <3>1, <3>2 DEF KeyAt
    <3> QED BY <1>7, <3>3
  <2> QED BY <2>1, <2>2
<1>10. Last(call.vector).token = "fact" /\ Last(call.vector).of = OwnerOf(r, "index")
  <2>1. m \in 1..m /\ m > p /\ m - p = n + v /\ ~(n + v <= n) /\ (n + v) - n = v
    <3> HIDE DEF p, n
    <3> QED BY <1>5, <1>6
  <2>2. Last(call.vector) = cache[m]
    BY <1>7, <2>1, Zenon DEF Last
  <2>3. cache[m] = KeyAt(OwnerOf(r, "index"), p, n, call.out, n + v)
    BY <1>8, <2>1
  <2>4. cache[m].token = call.out[v] /\ cache[m].of = OwnerOf(r, "index")
    <3> HIDE DEF p, n, m
    <3> QED BY <2>1, <2>3 DEF KeyAt
  <2> QED BY <1>2, <2>2, <2>4
<1> QED BY <1>6, <1>7, <1>9, <1>10, Zenon DEF IndexVector

------------------------------------------------------------------------------
(* What holds at each place of the program.                                 *)

IsProgram(p) ==
  p = [at |-> p.at, row |-> p.row, position |-> p.position, branch |-> p.branch, main |-> p.main, meta |-> p.meta,
       vectors |-> p.vectors, condition |-> p.condition, result |-> p.result, failure |-> p.failure]

IsFiles(f) == f = [blocks |-> f.blocks, vectors |-> f.vectors, meta |-> f.meta, summary |-> f.summary]

\* The first n rows are described, and found by their index.
MetaRecord == {[row |-> x[1], positions |-> x[2], tokens |-> x[3]] : x \in Nat \X Seq(Nat) \X Seq(Tokens)}
MetaGood(c, meta, n) == meta \in Seq(MetaRecord) /\ Len(meta) = n /\ \A i \in 1..n : meta[i] = MetaOf(c, i)
VectorsGood(vectors, n) == vectors \in Seq(Vectors) /\ Len(vectors) = n /\ \A i \in 1..n : IndexVector(vectors[i], i)

\* What every run may read.
Published == MetaGood(Rows, files.meta, Len(Rows)) /\ VectorsGood(files.vectors, Len(Rows))
             /\ 1..Len(Rows) \subseteq DOMAIN files.blocks

BlocksGood(c, blocks) == DOMAIN blocks \subseteq 1..Len(c) /\ \A r \in DOMAIN blocks : blocks[r] = BlockOf(c, r)

\* Keys of answers, each before the next.
PrefixGood(cache, n) ==
  /\ \A i \in 1..n : cache[i].of.branch = "main"
  /\ \A i \in 1..(n - 1) : cache[i].pos < cache[i + 1].pos

\* The history the recall continues, the plan it was given and what is reported of it.
PlannedFrom(c, cache, call, closest, prompt, out, of) ==
  /\ out # <<>> /\ (c.fact => FirstLine(out) # 0)
  /\ call.prefix = prompt + Len(out) /\ call.start = QueryStart(c, prompt, out)
  /\ closest = ClosestBodyPosition(c, prompt, out)
  /\ \A k \in 1..(prompt + Len(out)) : cache[k] = KeyAt(of, c.start, prompt, out, k)

Planned(c, cache, call, closest) ==
  \E prompt \in Nat \ {0}, out \in Seq(Tokens), of \in Owners : PlannedFrom(c, cache, call, closest, prompt, out, of)

Quiet == gen = NoCall /\ caches = <<>>

\* The rows the run has recorded.
RunGood ==
  /\ program.position = PlacesOf(Rows)[program.row]
  /\ MetaGood(Rows, program.meta, program.row - 1) /\ VectorsGood(program.vectors, program.row - 1)
  /\ 1..(program.row - 1) \subseteq DOMAIN files.blocks

AtRows ==
  /\ gen = NoCall /\ DOMAIN caches = {"history"} /\ program.row \in 1..(Len(Rows) + 1) /\ RunGood
  /\ Remembered(Rows, caches["history"], program.row)

AtMain ==
  /\ DOMAIN caches = {"history", "clone"} /\ program.row \in 1..Len(Rows) /\ RunGood /\ program.branch = "clone"
  /\ StartedWith(gen, "history", program.position, program.position, Rows[program.row].prompt,
                 OwnerOf(program.row, "main"), Rows[program.row].main, MaxNew, MainCapture, FALSE)
  /\ RememberedPart(Rows, caches["history"], program.row) /\ Remembered(Rows, caches["clone"], program.row)

AtIndex ==
  /\ DOMAIN caches = {"history", "clone"} /\ program.row \in 1..Len(Rows) /\ RunGood
  /\ MainDone(Rows, program.row, program.main)
  /\ StartedWith(gen, "clone", program.position, program.position, Rows[program.row].index,
                 OwnerOf(program.row, "index"), Rows[program.row].fact, IndexMaxNew, 0, TRUE)
  /\ Remembered(Rows, caches["history"], program.row + 1) /\ RememberedPart(Rows, caches["clone"], program.row)

AtSaved ==
  /\ Quiet /\ program.position \in Nat /\ MetaGood(Rows, program.meta, Len(Rows))
  /\ VectorsGood(files.vectors, Len(Rows)) /\ 1..Len(Rows) \subseteq DOMAIN files.blocks

Testing ==
  Published /\ MetaGood(Rows, program.meta, Len(Rows)) /\ program.row \in Nat \ {0} /\ program.position \in Nat

AtReplay ==
  /\ Testing /\ DOMAIN caches = {"replay"} /\ gen.on = "replay" /\ gen.start = program.position
  /\ PrefixGood(caches["replay"], gen.prefix)

AtHistory ==
  /\ DOMAIN caches = {"split"} /\ program.row \in 1..Len(Rows) /\ program.condition \in Conditions
  /\ StartedWith(gen, "split", 0, program.condition.start, Rows[program.row].prompt,
                 OwnerOf(program.row, "main"), Rows[program.row].main, MaxNew, 0, program.condition.fact)

AtRecall ==
  /\ DOMAIN caches = {"split", "continuous"} /\ program.condition \in Conditions /\ gen.on = "split"
  /\ program.result = [passed |-> program.result.passed, closest |-> program.result.closest, first |-> program.result.first]
  /\ Planned(program.condition, caches["split"], gen, program.result.closest)

AtMeasured ==
  LET line == IF program.condition.fact THEN FirstLine(gen.out) ELSE 0 IN
  /\ AtRecall /\ Ended(gen) /\ (program.condition.fact => line # 0)
  /\ program.result.first = FirstBodyQuery(gen, line)

PlaceGood ==
  \/ At("idle") /\ Quiet
  \/ At("rows") /\ AtRows
  \/ At("main") /\ AtMain
  \/ At("index") /\ AtIndex
  \/ At("saved") /\ AtSaved
  \/ At("tests") /\ Quiet /\ Testing
  \/ At("replay") /\ AtReplay
  \/ At("history") /\ AtHistory
  \/ At("recall") /\ AtRecall
  \/ At("measured") /\ AtMeasured

SetupGood == setup \in [corpus : Corpora, test : TestPositions \cup {NoValue}, positioned : BOOLEAN]

GenGood == CachesType /\ (Calling => gen.on \in DOMAIN caches /\ CallGood(caches[gen.on], gen))

FilesGood ==
  /\ IsFiles(files) /\ BlocksGood(Rows, files.blocks)
  /\ files.summary # NoValue => Published /\ files.summary.start \in Nat

\* A program that is under way has not failed; what the last one ended with is no check of
\* its own, but for the masks of a history longer than a sliding layer's window.
FailureGood(p) ==
  \/ p.failure \in {"none", "noIndexPrefix", "notTemplatePrefix", "noFirstLine", "pastPositionLimit"}
  \/ p.at = "idle" /\ p.failure = "structuralMismatch" /\ p.result.history > Window

ProgramGood == IsProgram(program) /\ FailureGood(program)

AnswerInv == SetupGood /\ GenGood /\ FilesGood /\ ProgramGood /\ PlaceGood

------------------------------------------------------------------------------
(* Steps between the places.                                                *)

ProgramFields(p, aAt, aRow, aPosition, aBranch, aMain, aMeta, aVectors, aCondition, aResult, aFailure) ==
  p = [at |-> aAt, row |-> aRow, position |-> aPosition, branch |-> aBranch, main |-> aMain, meta |-> aMeta,
       vectors |-> aVectors, condition |-> aCondition, result |-> aResult, failure |-> aFailure]

LEMMA ProgramFieldsAre ==
  ASSUME NEW p, NEW aAt, NEW aRow, NEW aPosition, NEW aBranch, NEW aMain, NEW aMeta, NEW aVectors, NEW aCondition,
         NEW aResult, NEW aFailure,
         ProgramFields(p, aAt, aRow, aPosition, aBranch, aMain, aMeta, aVectors, aCondition, aResult, aFailure)
  PROVE  /\ IsProgram(p)
         /\ p.at = aAt /\ p.row = aRow /\ p.position = aPosition /\ p.branch = aBranch /\ p.main = aMain
         /\ p.meta = aMeta /\ p.vectors = aVectors /\ p.condition = aCondition /\ p.result = aResult
         /\ p.failure = aFailure
BY DEF ProgramFields, IsProgram

LEMMA ProgramAt ==
  ASSUME NEW p, IsProgram(p), NEW x, NEW next, next = [p EXCEPT !.at = x]
  PROVE  ProgramFields(next, x, p.row, p.position, p.branch, p.main, p.meta, p.vectors, p.condition, p.result, p.failure)
BY DEF IsProgram, ProgramFields

LEMMA ProgramAtBranch ==
  ASSUME NEW p, IsProgram(p), NEW x, NEW b, NEW next, next = [p EXCEPT !.at = x, !.branch = b]
  PROVE  ProgramFields(next, x, p.row, p.position, b, p.main, p.meta, p.vectors, p.condition, p.result, p.failure)
BY DEF IsProgram, ProgramFields

LEMMA ProgramAtMainOf ==
  ASSUME NEW p, IsProgram(p), NEW x, NEW m, NEW next, next = [p EXCEPT !.at = x, !.main = m]
  PROVE  ProgramFields(next, x, p.row, p.position, p.branch, m, p.meta, p.vectors, p.condition, p.result, p.failure)
BY DEF IsProgram, ProgramFields

LEMMA ProgramRecorded ==
  ASSUME NEW p, IsProgram(p), NEW x, NEW r, NEW q, NEW m, NEW v, NEW n, NEW b, NEW next,
         next = [p EXCEPT !.at = x, !.row = r, !.position = q, !.meta = m, !.vectors = v, !.main = n, !.branch = b]
  PROVE  ProgramFields(next, x, r, q, b, n, m, v, p.condition, p.result, p.failure)
BY DEF IsProgram, ProgramFields

LEMMA ProgramPlaced ==
  ASSUME NEW p, IsProgram(p), NEW x, NEW r, NEW q, NEW next, next = [p EXCEPT !.at = x, !.row = r, !.position = q]
  PROVE  ProgramFields(next, x, r, q, p.branch, p.main, p.meta, p.vectors, p.condition, p.result, p.failure)
BY DEF IsProgram, ProgramFields

LEMMA ProgramRowed ==
  ASSUME NEW p, IsProgram(p), NEW x, NEW r, NEW next, next = [p EXCEPT !.at = x, !.row = r]
  PROVE  ProgramFields(next, x, r, p.position, p.branch, p.main, p.meta, p.vectors, p.condition, p.result, p.failure)
BY DEF IsProgram, ProgramFields

LEMMA ProgramResulted ==
  ASSUME NEW p, IsProgram(p), NEW x, NEW r, NEW next, next = [p EXCEPT !.at = x, !.result = r]
  PROVE  ProgramFields(next, x, p.row, p.position, p.branch, p.main, p.meta, p.vectors, p.condition, r, p.failure)
BY DEF IsProgram, ProgramFields

LEMMA ProgramFailed ==
  ASSUME NEW p, IsProgram(p), NEW w, NEW next, next = [p EXCEPT !.failure = w]
  PROVE  ProgramFields(next, p.at, p.row, p.position, p.branch, p.main, p.meta, p.vectors, p.condition, p.result, w)
BY DEF IsProgram, ProgramFields

LEMMA ProgramResumed ==
  ASSUME NEW p, IsProgram(p), NEW x, NEW r, NEW m, NEW v, NEW q, NEW next,
         next = [p EXCEPT !.at = x, !.row = r, !.meta = m, !.vectors = v, !.position = q]
  PROVE  ProgramFields(next, x, r, q, p.branch, p.main, m, v, p.condition, p.result, p.failure)
BY DEF IsProgram, ProgramFields

LEMMA ProgramConditioned ==
  ASSUME NEW p, IsProgram(p), NEW x, NEW r, NEW c, NEW next, next = [p EXCEPT !.at = x, !.row = r, !.condition = c]
  PROVE  ProgramFields(next, x, r, p.position, p.branch, p.main, p.meta, p.vectors, c, p.result, p.failure)
BY DEF IsProgram, ProgramFields

LEMMA ProgramNone == ProgramFields(NoProgram, "idle", 0, 0, "none", NoValue, <<>>, <<>>, NoValue, NoValue, "none")
BY Zenon DEF ProgramFields, NoProgram

LEMMA FilesKept ==
  ASSUME FilesGood, setup' = setup, files' = files
  PROVE  FilesGood'
BY Zenon DEF FilesGood, IsFiles, Published, Rows

GoodFailures == {"none", "noIndexPrefix", "notTemplatePrefix", "noFirstLine", "pastPositionLimit"}

LEMMA NoCaches ==
  ASSUME gen' = NoCall, caches' = <<>>
  PROVE  GenGood' /\ Quiet'
<1>1. ~Calling'
  BY DEF Calling, NoCall
<1>2. CachesType'
  BY DEF CachesType
<1> QED BY <1>1, <1>2, Zenon DEF GenGood, Quiet

\* The program ends, with an error or without.
LEMMA BackToIdle ==
  ASSUME SetupGood, FilesGood, NEW why \in GoodFailures,
         (program' = [NoProgram EXCEPT !.failure = why]) \/ (program' = NoProgram),
         caches' = <<>>, gen' = NoCall, setup' = setup, files' = files
  PROVE  AnswerInv'
<1>1. FilesGood' /\ GenGood' /\ Quiet'
  BY FilesKept, NoCaches, Zenon
<1>2. SetupGood'
  BY Zenon DEF SetupGood
<1>3. IsProgram(program') /\ program'.at = "idle" /\ program'.failure \in {why, "none"}
  <2>1. IsProgram(NoProgram) /\ NoProgram.at = "idle" /\ NoProgram.failure = "none"
    BY ProgramNone, ProgramFieldsAre, Zenon
  <2>2. CASE program' = [NoProgram EXCEPT !.failure = why]
    <3> DEFINE next == program'
    <3>1. next = [NoProgram EXCEPT !.failure = why]
      BY <2>2
    <3> HIDE DEF next
    <3>2. ProgramFields(next, NoProgram.at, NoProgram.row, NoProgram.position, NoProgram.branch, NoProgram.main,
                        NoProgram.meta, NoProgram.vectors, NoProgram.condition, NoProgram.result, why)
      BY <2>1, <3>1, ProgramFailed, Zenon
    <3>3. IsProgram(next) /\ next.at = NoProgram.at /\ next.failure = why
      BY <3>2 DEF ProgramFields, IsProgram
    <3> QED BY <2>1, <3>3 DEF next
  <2>3. CASE program' = NoProgram
    BY <2>1, <2>3
  <2> QED BY <2>2, <2>3
<1>4. ProgramGood' /\ PlaceGood'
  <2>1. program'.failure \in GoodFailures
    BY <1>3 DEF GoodFailures
  <2> QED BY <1>1, <1>3, <2>1 DEF ProgramGood, FailureGood, PlaceGood, At, GoodFailures
<1> QED BY <1>1, <1>2, <1>4, Zenon DEF AnswerInv

\* A history is only refused when it is longer than a sliding layer's window.
LEMMA RefusesLongHistories ==
  ASSUME SetupGood, FilesGood, NEW n, n > Window, Refuse(n)
  PROVE  AnswerInv'
<1>1. /\ program' = [NoProgram EXCEPT !.failure = "structuralMismatch", !.result = [history |-> n]]
      /\ caches' = <<>> /\ gen' = NoCall /\ UNCHANGED <<setup, files, starts>>
  BY Zenon DEF Refuse
<1>2. FilesGood' /\ GenGood' /\ Quiet' /\ SetupGood'
  BY <1>1, FilesKept, NoCaches, Zenon DEF SetupGood
<1>3. IsProgram(program') /\ program'.at = "idle" /\ program'.failure = "structuralMismatch" /\ program'.result.history = n
  <2> DEFINE next == program'
             told == [history |-> n]
  <2>1. IsProgram(NoProgram) /\ NoProgram.at = "idle"
    BY ProgramNone, ProgramFieldsAre, Zenon
  <2>2. next = [NoProgram EXCEPT !.failure = "structuralMismatch", !.result = told]
    BY <1>1
  <2>3. told.history = n
    OBVIOUS
  <2> HIDE DEF next, told
  <2>4. IsProgram(next) /\ next.at = "idle" /\ next.failure = "structuralMismatch" /\ next.result = told
    BY <2>1, <2>2 DEF IsProgram
  <2> QED BY <2>3, <2>4 DEF next
<1>4. ProgramGood' /\ PlaceGood'
  BY <1>2, <1>3 DEF ProgramGood, FailureGood, PlaceGood, At
<1> QED BY <1>2, <1>4, Zenon DEF AnswerInv

LEMMA FailureStays ==
  ASSUME ProgramGood, program.at # "idle", IsProgram(program'), program'.failure = program.failure
  PROVE  ProgramGood'
BY DEF ProgramGood, FailureGood

LEMMA UnderWay ==
  ASSUME NEW place \in {"rows", "main", "index", "saved", "tests", "replay", "history", "recall", "measured"}, At(place)
  PROVE  program.at # "idle"
BY DEF At

LEMMA Raises ==
  ASSUME SetupGood, FilesGood, NEW why \in GoodFailures, Raise(why)
  PROVE  AnswerInv'
BY BackToIdle, Zenon DEF Raise

LEMMA Arrives ==
  ASSUME SetupGood, setup' = setup, GenGood', FilesGood', ProgramGood', PlaceGood'
  PROVE  AnswerInv'
BY Zenon DEF AnswerInv, SetupGood

LEMMA PlaceIs ==
  ASSUME PlaceGood
  PROVE  /\ At("idle") => Quiet
         /\ At("rows") => AtRows
         /\ At("main") => AtMain
         /\ At("index") => AtIndex
         /\ At("saved") => AtSaved
         /\ At("tests") => Quiet /\ Testing
         /\ At("replay") => AtReplay
         /\ At("history") => AtHistory
         /\ At("recall") => AtRecall
         /\ At("measured") => AtMeasured
BY DEF PlaceGood, At

\* Only in some places a call is under way.
LEMMA CallPlaces ==
  ASSUME PlaceGood, Calling
  PROVE  At("main") \/ At("index") \/ At("replay") \/ At("history") \/ At("recall") \/ At("measured")
<1>1. gen # NoCall
  BY DEF Calling, NoCall
<1> QED BY <1>1 DEF PlaceGood, At, Quiet, AtRows, AtSaved

LEMMA PrefixKept ==
  ASSUME NEW cache, NEW grown, Begins(cache, grown), NEW n \in Nat, Len(cache) \in Nat, n <= Len(cache), PrefixGood(cache, n)
  PROVE  PrefixGood(grown, n)
<1>1. \A i \in 1..n : grown[i] = cache[i]
  BY DEF Begins
<1>2. \A i \in 1..(n - 1) : i \in 1..n /\ i + 1 \in 1..n
  OBVIOUS
<1>3. \A i \in 1..n : grown[i].of.branch = "main"
  BY <1>1, Zenon DEF PrefixGood
<1>4. \A i \in 1..(n - 1) : grown[i].pos < grown[i + 1].pos
  <2> TAKE i \in 1..(n - 1)
  <2>1. grown[i] = cache[i] /\ grown[i + 1] = cache[i + 1]
    BY <1>1, <1>2, Zenon
  <2>2. cache[i].pos < cache[i + 1].pos
    BY Zenon DEF PrefixGood
  <2> QED BY <2>1, <2>2, Zenon
<1> QED BY <1>3, <1>4, Zenon DEF PrefixGood

LEMMA PlannedKept ==
  ASSUME NEW c, NEW cache, NEW grown, Begins(cache, grown), NEW call, NEW next, SameCall(call, next), NEW closest,
         Len(cache) \in Nat, call.prefix <= Len(cache), Planned(c, cache, call, closest)
  PROVE  Planned(c, grown, next, closest)
<1>1. PICK prompt \in Nat \ {0}, out \in Seq(Tokens), of \in Owners : PlannedFrom(c, cache, call, closest, prompt, out, of)
  BY Zenon DEF Planned
<1>2. call.prefix = prompt + Len(out)
  BY <1>1, Zenon DEF PlannedFrom
<1>3. \A k \in 1..(prompt + Len(out)) : grown[k] = cache[k]
  <2>1. prompt + Len(out) \in Nat /\ prompt + Len(out) <= Len(cache)
    BY <1>2
  <2> DEFINE n == prompt + Len(out)
  <2> HIDE DEF n
  <2>2. \A k \in 1..n : grown[k] = cache[k]
    BY <2>1 DEF Begins, n
  <2> QED BY <2>2 DEF n
<1>4. \A k \in 1..(prompt + Len(out)) : grown[k] = KeyAt(of, c.start, prompt, out, k)
  <2>1. \A k \in 1..(prompt + Len(out)) : cache[k] = KeyAt(of, c.start, prompt, out, k)
    BY <1>1, Zenon DEF PlannedFrom
  <2> QED BY <1>3, <2>1, Zenon
<1>5. PlannedFrom(c, grown, next, closest, prompt, out, of)
  BY <1>1, <1>4, Zenon DEF PlannedFrom, SameCall
<1> QED BY <1>5, Zenon DEF Planned

\* A token moves no call to another place.
LEMMA TokenKeepsInv ==
  ASSUME AnswerInv, GenerateToken
  PROVE  AnswerInv'
<1>1. SetupGood /\ GenGood /\ FilesGood /\ ProgramGood /\ PlaceGood
  BY Zenon DEF AnswerInv
<1>2. Calling /\ ~Ended(gen)
  BY Zenon DEF GenerateToken
<1>3. CachesType /\ gen.on \in DOMAIN caches /\ CallGood(caches[gen.on], gen)
  BY <1>1, <1>2, Zenon DEF GenGood
<1>4. /\ SameCall(gen, gen') /\ CallGood(caches'[gen.on], gen')
      /\ caches' \in [DOMAIN caches -> Seq(Key)] /\ DOMAIN caches' = DOMAIN caches
      /\ \A x \in DOMAIN caches : x # gen.on => caches'[x] = caches[x]
      /\ Len(caches'[gen.on]) = Len(caches[gen.on]) + 1
      /\ \A i \in 1..Len(caches[gen.on]) : caches'[gen.on][i] = caches[gen.on][i]
      /\ UNCHANGED <<setup, program, files, starts>>
  BY <1>3, TokenStep, Zenon
<1>5. gen'.on = gen.on /\ gen'.start = gen.start /\ gen'.prefix = gen.prefix
  BY <1>4, Zenon DEF SameCall
<1>6. GenGood'
  <2>1. CachesType'
    BY <1>3, <1>4 DEF CachesType
  <2> QED BY <1>3, <1>4, <1>5, <2>1, Zenon DEF GenGood
<1>7. FilesGood' /\ ProgramGood' /\ setup' = setup
  BY <1>1, <1>4, FilesKept, Zenon DEF ProgramGood
<1> DEFINE cache == caches[gen.on]
           grown == caches'[gen.on]
           next == gen'
<1>8. cache \in Seq(Key) /\ Len(cache) \in Nat /\ gen.prefix \in Nat /\ gen.prefix <= Len(cache)
  <2>1. /\ cache \in Seq(Key) /\ Len(cache) = gen.prefix + gen.prompt + Len(gen.out)
        /\ gen.prefix \in Nat /\ gen.prompt \in Nat \ {0} /\ Len(gen.out) \in Nat
    BY <1>3, CallParts, Zenon
  <2> HIDE DEF cache
  <2> QED BY <2>1
<1>9. Begins(cache, grown)
  <2>1. Len(cache) <= Len(grown)
    BY <1>4, <1>8
  <2> QED BY <1>4, <2>1, Zenon DEF Begins
<1>10. \A on, prefix, start, prompt, of, answer, limit, capture, fact :
         StartedWith(gen, on, prefix, start, prompt, of, answer, limit, capture, fact)
         => StartedWith(gen', on, prefix, start, prompt, of, answer, limit, capture, fact)
  BY <1>4, StillStartedWith, Zenon
<1>11. /\ UNCHANGED <<setup, program, files>> /\ Rows' = Rows /\ (RunGood <=> RunGood')
  BY <1>4, Zenon DEF Rows, RunGood
<1>12. \A x : At(x)' <=> At(x)
  BY <1>4 DEF At
<1>13. CASE At("main")
  <2>1. AtMain
    BY <1>1, <1>13, PlaceIs, Zenon
  <2>2. gen.on = "history" /\ program.row \in 1..Len(Rows) /\ program.position = PlacesOf(Rows)[program.row] /\ gen.prefix = program.position
    BY <2>1, Zenon DEF AtMain, StartedWith, RunGood
  <2>3. caches'["clone"] = caches["clone"]
    <3>1. "clone" \in DOMAIN caches /\ "clone" # gen.on
      BY <2>1, <2>2 DEF AtMain
    <3> QED BY <1>4, <3>1
  <2>4. RememberedPart(Rows, caches'["history"], program.row)
    <3> DEFINE c == Rows
               row == program.row
    <3>1. c \in Corpora /\ row \in 1..(Len(c) + 1)
      <4>1. c \in Corpora
        BY <1>1 DEF SetupGood, Rows
      <4>2. Len(c) \in Nat /\ row \in 1..Len(c)
        BY <2>2, <4>1, CorpusLength
      <4> HIDE DEF c, row
      <4> QED BY <4>1, <4>2
    <3>2. RememberedPart(c, cache, row)
      BY <2>1, <2>2, Zenon DEF AtMain
    <3>3. PlacesOf(c)[row] <= Len(cache)
      BY <1>8, <2>2
    <3> HIDE DEF c, row, cache, grown
    <3>4. RememberedPart(c, grown, row)
      BY <1>8, <1>9, <3>1, <3>2, <3>3, RememberedKept, Zenon
    <3> QED BY <2>2, <3>4, Zenon DEF c, row, grown
  <2>5. AtMain'
    <3>1. program' = program /\ setup' = setup /\ Rows' = Rows /\ DOMAIN caches' = DOMAIN caches
      BY <1>4, <1>11, Zenon
    <3> QED BY <1>10, <1>11, <2>1, <2>3, <2>4, <3>1 DEF AtMain
  <2> QED BY <1>1, <1>6, <1>7, <1>12, <1>13, <2>5, Arrives, Zenon DEF PlaceGood
<1>14. CASE At("index")
  <2>1. AtIndex
    BY <1>1, <1>14, PlaceIs, Zenon
  <2>2. gen.on = "clone" /\ program.row \in 1..Len(Rows) /\ program.position = PlacesOf(Rows)[program.row] /\ gen.prefix = program.position
    BY <2>1, Zenon DEF AtIndex, StartedWith, RunGood
  <2>3. caches'["history"] = caches["history"]
    <3>1. "history" \in DOMAIN caches /\ "history" # gen.on
      BY <2>1, <2>2 DEF AtIndex
    <3> QED BY <1>4, <3>1
  <2>4. RememberedPart(Rows, caches'["clone"], program.row)
    <3> DEFINE c == Rows
               row == program.row
    <3>1. c \in Corpora /\ row \in 1..(Len(c) + 1)
      <4>1. c \in Corpora
        BY <1>1 DEF SetupGood, Rows
      <4>2. Len(c) \in Nat /\ row \in 1..Len(c)
        BY <2>2, <4>1, CorpusLength
      <4> HIDE DEF c, row
      <4> QED BY <4>1, <4>2
    <3>2. RememberedPart(c, cache, row)
      BY <2>1, <2>2, Zenon DEF AtIndex
    <3>3. PlacesOf(c)[row] <= Len(cache)
      BY <1>8, <2>2
    <3> HIDE DEF c, row, cache, grown
    <3>4. RememberedPart(c, grown, row)
      BY <1>8, <1>9, <3>1, <3>2, <3>3, RememberedKept, Zenon
    <3> QED BY <2>2, <3>4, Zenon DEF c, row, grown
  <2>5. AtIndex'
    <3>1. program' = program /\ setup' = setup /\ Rows' = Rows /\ DOMAIN caches' = DOMAIN caches
      BY <1>4, <1>11, Zenon
    <3> QED BY <1>10, <1>11, <2>1, <2>3, <2>4, <3>1 DEF AtIndex
  <2> QED BY <1>1, <1>6, <1>7, <1>12, <1>14, <2>5, Arrives, Zenon DEF PlaceGood
<1>15. CASE At("replay")
  <2>1. AtReplay
    BY <1>1, <1>15, PlaceIs, Zenon
  <2>2. PrefixGood(grown, gen.prefix)
    <3>1. PrefixGood(cache, gen.prefix)
      BY <2>1, Zenon DEF AtReplay
    <3> HIDE DEF cache, grown
    <3> QED BY <1>8, <1>9, <3>1, PrefixKept, Zenon
  <2>3. Testing'
    BY <1>4, <2>1, Zenon DEF AtReplay, Testing, Published, Rows
  <2>4. AtReplay'
    BY <1>4, <1>5, <2>1, <2>2, <2>3, Zenon DEF AtReplay
  <2> QED BY <1>1, <1>6, <1>7, <1>12, <1>15, <2>4, Arrives, Zenon DEF PlaceGood
<1>16. CASE At("history")
  <2>1. AtHistory
    BY <1>1, <1>16, PlaceIs, Zenon
  <2>2. AtHistory'
    <3>1. program' = program /\ setup' = setup /\ Rows' = Rows /\ DOMAIN caches' = DOMAIN caches
      BY <1>4, <1>11, Zenon
    <3> QED BY <1>10, <1>11, <2>1, <3>1 DEF AtHistory
  <2> QED BY <1>1, <1>6, <1>7, <1>12, <1>16, <2>2, Arrives, Zenon DEF PlaceGood
<1>17. CASE At("recall")
  <2>1. AtRecall
    BY <1>1, <1>17, PlaceIs, Zenon
  <2>2. Planned(program.condition, grown, next, program.result.closest)
    <3>1. Planned(program.condition, cache, gen, program.result.closest) /\ SameCall(gen, next)
      BY <1>4, <2>1, Zenon DEF AtRecall
    <3> HIDE DEF cache, grown, next
    <3> QED BY <1>8, <1>9, <3>1, PlannedKept, Zenon
  <2>3. AtRecall'
    BY <1>4, <1>5, <2>1, <2>2, Zenon DEF AtRecall
  <2> QED BY <1>1, <1>6, <1>7, <1>12, <1>17, <2>3, Arrives, Zenon DEF PlaceGood
<1>18. CASE At("measured")
  BY <1>1, <1>2, <1>18, PlaceIs, Zenon DEF AtMeasured
<1> QED BY <1>1, <1>2, <1>13, <1>14, <1>15, <1>16, <1>17, <1>18, CallPlaces, Zenon

LEMMA InvParts ==
  ASSUME AnswerInv
  PROVE  /\ SetupGood /\ GenGood /\ FilesGood /\ ProgramGood /\ PlaceGood
         /\ Rows \in Corpora /\ Len(Rows) \in Nat /\ CachesType /\ IsProgram(program)
<1>1. SetupGood /\ GenGood /\ FilesGood /\ ProgramGood /\ PlaceGood
  BY Zenon DEF AnswerInv
<1>2. Rows \in Corpora
  BY <1>1 DEF SetupGood, Rows
<1>3. Len(Rows) \in Nat
  BY <1>2, CorpusLength, Zenon
<1>4. CachesType /\ IsProgram(program)
  BY <1>1, Zenon DEF GenGood, ProgramGood
<1> QED BY <1>1, <1>2, <1>3, <1>4

\* A history begins empty.
LEMMA LaunchKeepsInv ==
  ASSUME AnswerInv, Launch
  PROVE  AnswerInv'
<1>1. SetupGood /\ FilesGood /\ PlaceGood /\ Rows \in Corpora /\ Len(Rows) \in Nat
  BY InvParts, Zenon
<1>2. /\ At("idle") /\ program' = [NoProgram EXCEPT !.at = "rows", !.row = 1]
      /\ caches' = [history |-> <<>>] /\ UNCHANGED <<setup, gen, files>>
  BY Zenon DEF Launch
<1>3. gen' = NoCall
  BY <1>1, <1>2, PlaceIs, Zenon DEF Quiet
<1>4. program'.at = "rows" /\ program'.row = 1 /\ program'.position = 0 /\ program'.meta = <<>>
      /\ program'.vectors = <<>> /\ program'.failure = "none" /\ IsProgram(program')
  <2> DEFINE next == program'
  <2>1. next = [NoProgram EXCEPT !.at = "rows", !.row = 1]
    BY <1>2
  <2>2. IsProgram(NoProgram) /\ NoProgram.position = 0 /\ NoProgram.meta = <<>> /\ NoProgram.vectors = <<>>
        /\ NoProgram.failure = "none"
    BY ProgramNone DEF ProgramFields, IsProgram
  <2> HIDE DEF next
  <2>3. ProgramFields(next, "rows", 1, NoProgram.position, NoProgram.branch, NoProgram.main,
                      NoProgram.meta, NoProgram.vectors, NoProgram.condition, NoProgram.result, NoProgram.failure)
    BY <2>1, <2>2, ProgramRowed, Zenon
  <2>4. /\ IsProgram(next) /\ next.at = "rows" /\ next.row = 1 /\ next.position = NoProgram.position
        /\ next.meta = NoProgram.meta /\ next.vectors = NoProgram.vectors /\ next.failure = NoProgram.failure
    BY <2>3 DEF ProgramFields, IsProgram
  <2> QED BY <2>2, <2>4, Zenon DEF next
<1>5. FilesGood' /\ ProgramGood'
  BY <1>1, <1>2, <1>4, FilesKept, Zenon DEF ProgramGood, FailureGood
<1>6. DOMAIN caches' = {"history"} /\ caches'["history"] = <<>> /\ CachesType'
  <2>1. DOMAIN caches' = {"history"} /\ caches'["history"] = <<>> /\ <<>> \in Seq(Key)
    BY <1>2
  <2>2. caches' \in [DOMAIN caches' -> Seq(Key)]
    BY <1>2, <2>1
  <2> QED BY <2>1, <2>2 DEF CachesType, CacheNames
<1>7. GenGood'
  BY <1>3, <1>6 DEF GenGood, Calling, NoCall
<1>8. Rows' = Rows /\ setup' = setup
  BY <1>2, Zenon DEF Rows
<1>9. PlacesOf(Rows)[1] = 0
  BY <1>1, PlaceFacts, Zenon
<1>10. MetaGood(Rows, <<>>, 1 - 1) /\ VectorsGood(<<>>, 1 - 1) /\ 1..(1 - 1) = {}
  BY DEF MetaGood, VectorsGood
<1>11. Remembered(Rows, <<>>, 1)
  BY <1>9 DEF Remembered, RememberedPart
<1>12. 1 \in 1..(Len(Rows) + 1)
  BY <1>1
<1>13. AtRows'
  BY <1>3, <1>4, <1>6, <1>8, <1>9, <1>10, <1>11, <1>12 DEF AtRows, RunGood
<1>14. PlaceGood'
  BY <1>4, <1>13, Zenon DEF PlaceGood, At
<1> QED BY <1>1, <1>5, <1>7, <1>8, <1>14, Arrives, Zenon

CloneGood(clone, history) ==
  /\ clone.name = "clone" /\ clone.caches \in [DOMAIN clone.caches -> Seq(Key)]
  /\ DOMAIN clone.caches = {"history", "clone"}
  /\ clone.caches["history"] = history /\ clone.caches["clone"] = history

LEMMA CloneIs ==
  ASSUME CachesType, DOMAIN caches = {"history"}
  PROVE  CloneGood(CloneCache(caches, "history"), caches["history"])
<1> DEFINE new == [c \in DOMAIN caches \cup {"clone"} |-> IF c = "clone" THEN caches["history"] ELSE caches[c]]
<1>1. CloneCache(caches, "history") = [name |-> "clone", caches |-> new]
  BY Zenon DEF CloneCache
<1>2. caches["history"] \in Seq(Key)
  BY DEF CachesType
<1>3. new \in [DOMAIN new -> Seq(Key)] /\ DOMAIN new = {"history", "clone"}
      /\ new["history"] = caches["history"] /\ new["clone"] = caches["history"]
  BY <1>2
<1> HIDE DEF new
<1> QED BY <1>1, <1>3 DEF CloneGood

LEMMA StartRowKeepsInv ==
  ASSUME AnswerInv, StartRow
  PROVE  AnswerInv'
<1> DEFINE c == Rows
           r == program.row
           row == Rows[program.row]
           clone == CloneCache(caches, "history")
           of == [row |-> program.row, branch |-> "main"]
           history == caches["history"]
           capture == IF BlockSize < MaxNew THEN BlockSize ELSE MaxNew
           call == Call(clone.caches, "history", FALSE, of, row.prompt, program.position, row.main, MaxNew, capture, FALSE)
           next == Prefill(clone.caches, "history", of, row.prompt, program.position)
<1>1. SetupGood /\ FilesGood /\ ProgramGood /\ PlaceGood /\ CachesType /\ Rows \in Corpora /\ Len(Rows) \in Nat /\ IsProgram(program)
  BY InvParts, Zenon
<1>2. At("rows") /\ program.row <= Len(Rows)
  BY Zenon DEF StartRow
<1>3. AtRows
  BY <1>1, <1>2, PlaceIs, Zenon
<1>4. /\ gen = NoCall /\ DOMAIN caches = {"history"} /\ r \in 1..Len(c)
      /\ RunGood /\ program.position = PlacesOf(c)[r] /\ Remembered(c, history, r) /\ Len(history) = program.position
  <2>1. gen = NoCall /\ DOMAIN caches = {"history"} /\ r \in 1..(Len(c) + 1) /\ RunGood /\ Remembered(c, history, r)
    BY <1>3, Zenon DEF AtRows
  <2>2. program.position = PlacesOf(c)[r] /\ Len(history) = PlacesOf(c)[r]
    BY <2>1, Zenon DEF RunGood, Remembered
  <2>3. r \in 1..Len(c)
    BY <1>1, <1>2, <2>1
  <2> QED BY <2>1, <2>2, <2>3, Zenon
<1>5. /\ gen' = call /\ caches' = next /\ program' = [program EXCEPT !.at = "main", !.branch = clone.name]
      /\ UNCHANGED <<setup, files, starts>>
  BY <1>4, Zenon DEF StartRow
<1>6. CloneGood(clone, history)
  BY <1>1, <1>4, CloneIs, Zenon
<1>7. /\ row.prompt \in Nat \ {0} /\ row.main \in Seq(Tokens) /\ MaxNew <= Len(row.main) /\ program.position \in Nat
      /\ of \in Owners /\ r \in 1..(Len(c) + 1) /\ r \in Nat
  <2>1. row.prompt \in Nat \ {0} /\ row.main \in Seq(Tokens) /\ Len(row.main) >= MaxNew
    BY <1>1, <1>4, CorpusRows, Zenon
  <2>2. r \in 1..(Len(c) + 1) /\ r \in Nat
    BY <1>1, <1>4
  <2>3. PlacesOf(c)[r] \in Nat
    BY <1>1, <2>2, PlaceFacts
  <2>4. MaxNew <= Len(row.main)
    <3>1. MaxNew \in Nat
      BY AnswerAssumption
    <3> QED BY <2>1, <3>1
  <2>5. of \in Owners
    BY <2>2 DEF Owners
  <2> QED BY <1>4, <2>1, <2>2, <2>3, <2>4, <2>5, Zenon
<1>8. MaxNew \in Nat \ {0} /\ capture \in Nat /\ capture <= Window /\ capture <= MaxNew /\ capture = MainCapture
  BY AnswerAssumption DEF MainCapture
<1>9. /\ CallGood(next["history"], call)
      /\ StartedWith(call, "history", Len(history), program.position, row.prompt, of, row.main, MaxNew, capture, FALSE)
      /\ next \in [{"history", "clone"} -> Seq(Key)] /\ DOMAIN next = {"history", "clone"}
      /\ next["clone"] = history /\ Begins(history, next["history"])
  <2> DEFINE given == clone.caches
  <2>1. /\ given \in [DOMAIN given -> Seq(Key)] /\ DOMAIN given = {"history", "clone"} /\ given["history"] = history
        /\ given["clone"] = history
    BY <1>6, Zenon DEF CloneGood
  <2>2. DOMAIN given \subseteq CacheNames /\ "history" \in DOMAIN given /\ "clone" \in DOMAIN given /\ "clone" # "history"
    BY <2>1 DEF CacheNames
  <2>3. Startable(given, "history", FALSE, of, row.prompt, program.position, row.main, MaxNew, capture, FALSE)
    <3> HIDE DEF given, of, capture, row
    <3> QED BY <1>7, <1>8, <2>1, <2>2, Zenon DEF Startable
  <2> HIDE DEF of, capture, row, history, c, r
  <2>4. Started(call, next, given, "history", of, row.prompt, program.position, row.main, MaxNew, capture, FALSE)
    BY <2>3, CallStarts, Zenon
  <2>5. /\ CallGood(next["history"], call)
        /\ StartedWith(call, "history", Len(given["history"]), program.position, row.prompt, of, row.main, MaxNew, capture, FALSE)
        /\ next \in [DOMAIN given -> Seq(Key)] /\ DOMAIN next = DOMAIN given
        /\ \A x \in DOMAIN given : x # "history" => next[x] = given[x]
        /\ Begins(given["history"], next["history"])
    <3> HIDE DEF given, call, next
    <3> QED BY <2>4, Zenon DEF Started
  <2> HIDE DEF given, call, next
  <2> QED BY <2>1, <2>2, <2>5
<1>10. clone.name = "clone"
  BY <1>6, Zenon DEF CloneGood
<1> HIDE DEF call, next, clone, of, capture, c, r, row, history
<1>11. /\ IsProgram(program') /\ program'.at = "main" /\ program'.row = program.row /\ program'.position = program.position
       /\ program'.branch = "clone" /\ program'.meta = program.meta /\ program'.vectors = program.vectors
       /\ program'.failure = program.failure
  <2> DEFINE after == program'
  <2>1. after = [program EXCEPT !.at = "main", !.branch = "clone"]
    BY <1>5, <1>10
  <2> HIDE DEF after
  <2>2. ProgramFields(after, "main", program.row, program.position, "clone", program.main,
                      program.meta, program.vectors, program.condition, program.result, program.failure)
    BY <1>1, <2>1, ProgramAtBranch, Zenon
  <2>3. /\ IsProgram(after) /\ after.at = "main" /\ after.row = program.row /\ after.position = program.position
        /\ after.branch = "clone" /\ after.meta = program.meta /\ after.vectors = program.vectors
        /\ after.failure = program.failure
    BY <2>2 DEF ProgramFields, IsProgram
  <2> QED BY <2>3, Zenon DEF after
<1>12. FilesGood' /\ ProgramGood'
  <2>1. program.at # "idle"
    BY <1>2, UnderWay
  <2> QED BY <1>1, <1>5, <1>11, <2>1, FilesKept, FailureStays, Zenon
<1>13. Rows' = Rows /\ setup' = setup /\ files' = files
  BY <1>5, Zenon DEF Rows
<1>14. CachesType' /\ gen'.on = "history"
  <2>1. gen'.on = "history"
    BY <1>5, <1>9, Zenon DEF StartedWith
  <2> QED BY <1>5, <1>9, <2>1 DEF CachesType, CacheNames
<1>15. GenGood'
  BY <1>5, <1>9, <1>14 DEF GenGood
<1>16. RunGood'
  BY <1>4, <1>11, <1>13 DEF RunGood
<1>17. RememberedPart(c, next["history"], r)
  <2>1. RememberedPart(c, history, r) /\ PlacesOf(c)[r] <= Len(history) /\ Len(history) \in Nat
    BY <1>4, <1>7 DEF Remembered
  <2> QED BY <1>1, <1>7, <1>9, <2>1, RememberedKept, Zenon DEF c
<1>18. AtMain'
  <2>1. /\ StartedWith(gen', "history", program.position, program.position, Rows[program.row].prompt,
                 OwnerOf(program.row, "main"), Rows[program.row].main, MaxNew, MainCapture, FALSE)
    BY <1>4, <1>5, <1>8, <1>9 DEF row, of, OwnerOf
  <2>2. RememberedPart(Rows, caches'["history"], program.row) /\ Remembered(Rows, caches'["clone"], program.row)
        /\ program.row \in 1..Len(Rows) /\ DOMAIN caches' = {"history", "clone"}
    BY <1>4, <1>5, <1>9, <1>17 DEF c, r
  <2> QED BY <1>11, <1>13, <1>16, <2>1, <2>2 DEF AtMain
<1>19. PlaceGood'
  BY <1>11, <1>18, Zenon DEF PlaceGood, At
<1> QED BY <1>1, <1>12, <1>13, <1>15, <1>19, Arrives, Zenon

FilesFields(f, aBlocks, aVectors, aMeta, aSummary) ==
  /\ IsFiles(f) /\ f.blocks = aBlocks /\ f.vectors = aVectors /\ f.meta = aMeta /\ f.summary = aSummary

LEMMA FilesChange ==
  ASSUME NEW f, IsFiles(f), NEW next, NEW v
  PROVE  /\ next = [f EXCEPT !.blocks = v] => FilesFields(next, v, f.vectors, f.meta, f.summary)
         /\ next = [f EXCEPT !.vectors = v] => FilesFields(next, f.blocks, v, f.meta, f.summary)
         /\ next = [f EXCEPT !.meta = v] => FilesFields(next, f.blocks, f.vectors, v, f.summary)
         /\ next = [f EXCEPT !.summary = v] => FilesFields(next, f.blocks, f.vectors, f.meta, v)
BY DEF IsFiles, FilesFields

LEMMA PositionIs ==
  ASSUME NEW c \in Corpora, NEW r \in 1..Len(c)
  PROVE  /\ PlacesOf(c)[r] \in Nat /\ PlacesOf(c)[r + 1] \in Nat /\ r \in Nat /\ r \in 1..(Len(c) + 1) /\ r + 1 \in 1..(Len(c) + 1)
         /\ PlacesOf(c)[r + 1] = PlacesOf(c)[r] + c[r].prompt + Taken(c[r].main, MaxNew)
         /\ c[r].prompt \in Nat \ {0} /\ BlockLength(c, r) \in Nat \ {0} /\ Taken(c[r].main, MaxNew) \in Nat
<1>1. Len(c) \in Nat
  BY CorpusLength
<1>2. r \in Nat /\ r \in 1..(Len(c) + 1) /\ r + 1 \in 1..(Len(c) + 1)
  BY <1>1
<1>3. PlacesOf(c) \in [1..(Len(c) + 1) -> Nat]
  BY PlaceFacts, Zenon
<1>4. PlacesOf(c)[r] \in Nat /\ PlacesOf(c)[r + 1] \in Nat
  BY <1>2, <1>3
<1>5. PlacesOf(c)[r + 1] = PlacesOf(c)[r] + c[r].prompt + Taken(c[r].main, MaxNew)
  BY PlaceFacts, Zenon
<1>6. c[r].prompt \in Nat \ {0}
  BY CorpusRows, Zenon
<1>7. Taken(c[r].main, MaxNew) \in 1..MaxNew /\ MaxNew \in Nat /\ BlockLength(c, r) \in 1..Taken(c[r].main, MaxNew)
  BY TakenInRow, Zenon
<1>8. BlockLength(c, r) \in Nat \ {0} /\ Taken(c[r].main, MaxNew) \in Nat
  BY <1>7
<1> QED BY <1>2, <1>4, <1>5, <1>6, <1>8, Zenon

\* The parts of a block are sequences of its length.
LEMMA BlockParts ==
  ASSUME NEW c \in Corpora, NEW r \in 1..Len(c)
  PROVE  /\ BlockKeys(c, r) \in Seq(Key) /\ Len(BlockKeys(c, r)) = BlockLength(c, r)
         /\ BlockPositions(c, r) \in Seq(Nat) /\ Len(BlockPositions(c, r)) = BlockLength(c, r)
         /\ BlockTokens(c, r) \in Seq(Tokens) /\ Len(BlockTokens(c, r)) = BlockLength(c, r)
         /\ MetaOf(c, r) \in MetaRecord
<1> DEFINE n == BlockLength(c, r)
           p == PlacesOf(c)[r] + c[r].prompt
           key(i) == [pos |-> p + i - 1, of |-> OwnerOf(r, "main"), token |-> c[r].main[i]]
<1>1. n \in Nat /\ p \in Nat /\ r \in Nat
  <2>1. PlacesOf(c)[r] \in Nat /\ c[r].prompt \in Nat \ {0} /\ n \in Nat \ {0} /\ r \in Nat
    BY PositionIs, Zenon
  <2> HIDE DEF n
  <2> QED BY <2>1
<1>2. \A i \in 1..n : c[r].main[i] \in Tokens
  <2>1. c[r].main \in Seq(Tokens) /\ n \in 1..Taken(c[r].main, MaxNew) /\ Taken(c[r].main, MaxNew) <= Len(c[r].main)
        /\ Taken(c[r].main, MaxNew) \in Nat
    BY CorpusRows, TakenInRow, PositionIs, Zenon
  <2> DEFINE a == c[r].main
             t == Taken(a, MaxNew)
  <2>2. a \in Seq(Tokens) /\ n \in 1..t /\ t <= Len(a) /\ t \in Nat
    BY <2>1
  <2> HIDE DEF a, n, t
  <2>3. \A i \in 1..n : a[i] \in Tokens
    BY <2>2
  <2> QED BY <2>3, Zenon DEF a
<1>3. BlockKeys(c, r) = [i \in 1..n |-> key(i)]
  BY Zenon DEF BlockKeys
<1>4. BlockPositions(c, r) = [i \in 1..n |-> p + i - 1]
  BY Zenon DEF BlockPositions, Spaced
<1>5. BlockTokens(c, r) = [i \in 1..n |-> c[r].main[i]]
  BY Zenon DEF BlockTokens
<1> HIDE DEF n, p
<1>6. \A i \in 1..n : key(i) \in Key /\ p + i - 1 \in Nat
  <2> TAKE i \in 1..n
  <2>1. p + i - 1 \in Nat
    BY <1>1
  <2>2. c[r].main[i] \in Tokens
    BY <1>2
  <2>3. OwnerOf(r, "main") \in Owners
    BY <1>1 DEF OwnerOf, Owners
  <2> QED BY <2>1, <2>2, <2>3 DEF Key, Owners
<1>7. BlockKeys(c, r) \in Seq(Key) /\ Len(BlockKeys(c, r)) = n
  <2> HIDE DEF key
  <2> QED BY <1>1, <1>3, <1>6
<1>8. BlockPositions(c, r) \in Seq(Nat) /\ Len(BlockPositions(c, r)) = n
  BY <1>1, <1>4, <1>6
<1>9. BlockTokens(c, r) \in Seq(Tokens) /\ Len(BlockTokens(c, r)) = n
  BY <1>1, <1>2, <1>5
<1>10. MetaOf(c, r) \in MetaRecord
  <2> DEFINE x == <<r, BlockPositions(c, r), BlockTokens(c, r)>>
  <2>1. x \in Nat \X Seq(Nat) \X Seq(Tokens) /\ x[1] = r /\ x[2] = BlockPositions(c, r) /\ x[3] = BlockTokens(c, r)
    BY <1>1, <1>8, <1>9
  <2>2. MetaOf(c, r) = [row |-> x[1], positions |-> x[2], tokens |-> x[3]]
    BY <2>1, Zenon DEF MetaOf
  <2> HIDE DEF x
  <2> QED BY <2>1, <2>2, Zenon DEF MetaRecord
<1> QED BY <1>7, <1>8, <1>9, <1>10 DEF n

LEMMA StartIndexKeepsInv ==
  ASSUME AnswerInv, StartIndex
  PROVE  AnswerInv'
<1> DEFINE c == Rows
           r == program.row
           row == Rows[program.row]
           of == [row |-> program.row, branch |-> "index"]
           call == Call(caches, "clone", FALSE, of, row.index, program.position, row.fact, IndexMaxNew, 0, TRUE)
           next == Prefill(caches, "clone", of, row.index, program.position)
<1>1. SetupGood /\ GenGood /\ FilesGood /\ ProgramGood /\ PlaceGood /\ CachesType /\ Rows \in Corpora /\ Len(Rows) \in Nat
      /\ IsProgram(program)
  BY InvParts, Zenon
<1>2. At("main") /\ Calling /\ Ended(gen)
  BY Zenon DEF StartIndex, Returned
<1>3. AtMain
  BY <1>1, <1>2, PlaceIs, Zenon
<1>4. /\ DOMAIN caches = {"history", "clone"} /\ r \in 1..Len(c) /\ RunGood /\ program.branch = "clone"
      /\ StartedWith(gen, "history", program.position, program.position, row.prompt,
                 OwnerOf(r, "main"), row.main, MaxNew, MainCapture, FALSE)
      /\ RememberedPart(c, caches["history"], r) /\ Remembered(c, caches["clone"], r)
  BY <1>3, Zenon DEF AtMain
<1>5. program.position = PlacesOf(c)[r] /\ gen.on = "history" /\ CallGood(caches["history"], gen)
  BY <1>1, <1>2, <1>4, Zenon DEF RunGood, StartedWith, GenGood
<1>6. MainDone(c, r, gen) /\ Remembered(c, caches["history"], r + 1)
  <2>1. StartedWith(gen, "history", PlacesOf(c)[r], PlacesOf(c)[r], c[r].prompt,
                 OwnerOf(r, "main"), c[r].main, MaxNew, MainCapture, FALSE)
    BY <1>4, <1>5
  <2> DEFINE history == caches["history"]
  <2>2. CallGood(history, gen) /\ RememberedPart(c, history, r)
    BY <1>4, <1>5, Zenon
  <2> HIDE DEF history, c, r
  <2>3. c \in Corpora /\ r \in 1..Len(c)
    BY <1>1, <1>4, Zenon DEF c, r
  <2>4. MainDone(c, r, gen)
    BY <1>2, <2>1, <2>2, <2>3, MainIsDone, Zenon
  <2>5. Remembered(c, history, r + 1)
    BY <1>2, <2>1, <2>2, <2>3, HistoryGrows, Zenon
  <2> QED BY <2>4, <2>5, Zenon DEF history
<1>7. gen.captured.keys # NoValue
  <2>1. gen.captured = [keys |-> BlockKeys(c, r), count |-> BlockLength(c, r)]
    BY <1>6, Zenon DEF MainDone
  <2>2. gen.captured.keys = BlockKeys(c, r)
    BY <2>1
  <2>3. BlockKeys(c, r) \in Seq(Key)
    BY <1>1, <1>4, BlockParts, Zenon
  <2>4. NoValue \notin Seq(Key)
    BY AnswerAssumption, Zenon
  <2> QED BY <2>2, <2>3, <2>4
<1>8. /\ gen' = call /\ caches' = next /\ program' = [program EXCEPT !.at = "index", !.main = gen]
      /\ UNCHANGED <<setup, files, starts>>
  BY <1>4, <1>7, Zenon DEF StartIndex
<1>9. /\ row.index \in Nat \ {0} /\ row.fact \in Seq(Tokens) /\ IndexMaxNew <= Len(row.fact) /\ program.position \in Nat
      /\ of \in Owners /\ r \in 1..(Len(c) + 1) /\ r \in Nat /\ IndexMaxNew \in Nat \ {0}
  <2>1. row.index \in Nat \ {0} /\ row.fact \in Seq(Tokens) /\ Len(row.fact) >= IndexMaxNew
    BY <1>1, <1>4, CorpusRows, Zenon
  <2>2. PlacesOf(c)[r] \in Nat /\ r \in Nat /\ r \in 1..(Len(c) + 1)
    BY <1>1, <1>4, PositionIs, Zenon
  <2>3. IndexMaxNew \in Nat \ {0}
    BY AnswerAssumption
  <2>4. IndexMaxNew <= Len(row.fact)
    BY <2>1, <2>3
  <2>5. of \in Owners
    BY <2>2 DEF Owners
  <2> QED BY <1>5, <2>1, <2>2, <2>3, <2>4, <2>5, Zenon
<1>10. Len(caches["clone"]) = program.position
  BY <1>4, <1>5, Zenon DEF Remembered
<1> HIDE DEF c, r, row, of
<1>11. Started(call, next, caches, "clone", of, row.index, program.position, row.fact, IndexMaxNew, 0, TRUE)
  <2>1. /\ caches \in [DOMAIN caches -> Seq(Key)] /\ DOMAIN caches \subseteq CacheNames /\ "clone" \in DOMAIN caches
        /\ 0 \in Nat /\ 0 <= Window /\ 0 <= IndexMaxNew /\ FALSE \in BOOLEAN /\ TRUE \in BOOLEAN
    BY <1>1, <1>4, <1>9, AnswerAssumption DEF CachesType
  <2>2. Startable(caches, "clone", FALSE, of, row.index, program.position, row.fact, IndexMaxNew, 0, TRUE)
    BY <1>9, <2>1, Zenon DEF Startable
  <2> QED BY <2>2, CallStarts, Zenon
<1> HIDE DEF call, next
<1>12. /\ CallGood(next["clone"], call)
       /\ StartedWith(call, "clone", program.position, program.position, row.index, of, row.fact, IndexMaxNew, 0, TRUE)
       /\ next \in [DOMAIN caches -> Seq(Key)] /\ DOMAIN next = {"history", "clone"}
       /\ next["history"] = caches["history"] /\ Begins(caches["clone"], next["clone"])
  <2>1. /\ CallGood(next["clone"], call)
        /\ StartedWith(call, "clone", Len(caches["clone"]), program.position, row.index, of, row.fact, IndexMaxNew, 0, TRUE)
        /\ next \in [DOMAIN caches -> Seq(Key)] /\ DOMAIN next = DOMAIN caches
        /\ \A x \in DOMAIN caches : x # "clone" => next[x] = caches[x]
        /\ Begins(caches["clone"], next["clone"])
    BY <1>11, Zenon DEF Started
  <2> QED BY <1>4, <1>10, <2>1
<1>13. /\ IsProgram(program') /\ program'.at = "index" /\ program'.row = program.row /\ program'.position = program.position
       /\ program'.main = gen /\ program'.meta = program.meta /\ program'.vectors = program.vectors
       /\ program'.failure = program.failure
  <2> DEFINE after == program'
  <2>1. after = [program EXCEPT !.at = "index", !.main = gen]
    BY <1>8
  <2> HIDE DEF after
  <2>2. ProgramFields(after, "index", program.row, program.position, program.branch, gen,
                      program.meta, program.vectors, program.condition, program.result, program.failure)
    BY <1>1, <2>1, ProgramAtMainOf, Zenon
  <2>3. /\ IsProgram(after) /\ after.at = "index" /\ after.row = program.row /\ after.position = program.position
        /\ after.main = gen /\ after.meta = program.meta /\ after.vectors = program.vectors
        /\ after.failure = program.failure
    BY <2>2 DEF ProgramFields, IsProgram
  <2> QED BY <2>3, Zenon DEF after
<1>14. FilesGood' /\ ProgramGood'
  <2>1. program.at # "idle"
    BY <1>2, UnderWay
  <2> QED BY <1>1, <1>8, <1>13, <2>1, FilesKept, FailureStays, Zenon
<1>15. Rows' = Rows /\ setup' = setup /\ files' = files
  BY <1>8, Zenon DEF Rows
<1>16. GenGood'
  <2>1. gen'.on = "clone"
    BY <1>8, <1>12, Zenon DEF StartedWith
  <2>2. CachesType'
    BY <1>1, <1>8, <1>12 DEF CachesType, CacheNames
  <2> QED BY <1>8, <1>12, <2>1, <2>2 DEF GenGood
<1>17. RunGood'
  BY <1>4, <1>13, <1>15 DEF RunGood
<1>18. RememberedPart(c, next["clone"], r)
  <2>1. RememberedPart(c, caches["clone"], r) /\ PlacesOf(c)[r] <= Len(caches["clone"]) /\ Len(caches["clone"]) \in Nat
    BY <1>4, <1>5, <1>9, <1>10 DEF Remembered
  <2> QED BY <1>1, <1>9, <1>12, <2>1, RememberedKept, Zenon DEF c
<1>19. AtIndex'
  <2>1. StartedWith(gen', "clone", program.position, program.position, Rows[program.row].index,
                    OwnerOf(program.row, "index"), Rows[program.row].fact, IndexMaxNew, 0, TRUE)
    BY <1>8, <1>12 DEF row, of, OwnerOf
  <2>2. RememberedPart(Rows, caches'["clone"], program.row) /\ Remembered(Rows, caches'["history"], program.row + 1)
        /\ program.row \in 1..Len(Rows) /\ DOMAIN caches' = {"history", "clone"} /\ MainDone(Rows, program.row, gen)
    BY <1>4, <1>6, <1>8, <1>12, <1>18 DEF c, r
  <2> QED BY <1>13, <1>15, <1>17, <2>1, <2>2 DEF AtIndex
<1>20. PlaceGood'
  BY <1>13, <1>19, Zenon DEF PlaceGood, At
<1> QED BY <1>1, <1>14, <1>15, <1>16, <1>20, Arrives, Zenon

\* One more row is described.
LEMMA MetaGrows ==
  ASSUME NEW c \in Corpora, NEW r \in 1..Len(c), NEW meta, MetaGood(c, meta, r - 1), NEW next, next = Append(meta, MetaOf(c, r))
  PROVE  MetaGood(c, next, r)
<1>1. meta \in Seq(MetaRecord) /\ Len(meta) = r - 1 /\ \A i \in 1..(r - 1) : meta[i] = MetaOf(c, i)
  BY Zenon DEF MetaGood
<1>2. MetaOf(c, r) \in MetaRecord /\ r \in Nat /\ r >= 1
  BY BlockParts, PositionIs
<1>3. next \in Seq(MetaRecord) /\ Len(next) = r /\ next[r] = MetaOf(c, r) /\ \A i \in 1..(r - 1) : next[i] = meta[i]
  BY <1>1, <1>2
<1>4. \A i \in 1..r : next[i] = MetaOf(c, i)
  <2> TAKE i \in 1..r
  <2>1. i = r \/ i \in 1..(r - 1)
    BY <1>2
  <2> QED BY <1>1, <1>3, <2>1
<1> QED BY <1>3, <1>4, Zenon DEF MetaGood

LEMMA VectorsGrow ==
  ASSUME NEW r \in Nat \ {0}, NEW vectors, VectorsGood(vectors, r - 1), NEW v, IndexVector(v, r), NEW next, next = Append(vectors, v)
  PROVE  VectorsGood(next, r)
<1>1. vectors \in Seq(Vectors) /\ Len(vectors) = r - 1 /\ \A i \in 1..(r - 1) : IndexVector(vectors[i], i)
  BY Zenon DEF VectorsGood
<1>2. v \in Vectors
  BY Zenon DEF IndexVector, Vectors
<1>3. next \in Seq(Vectors) /\ Len(next) = r /\ next[r] = v /\ \A i \in 1..(r - 1) : next[i] = vectors[i]
  BY <1>1, <1>2
<1>4. \A i \in 1..r : IndexVector(next[i], i)
  <2> TAKE i \in 1..r
  <2>1. i = r \/ i \in 1..(r - 1)
    OBVIOUS
  <2> QED BY <1>1, <1>3, <2>1
<1> QED BY <1>3, <1>4, Zenon DEF VectorsGood

\* What a row writes is its block.
LEMMA BlockWritten ==
  ASSUME NEW c \in Corpora, NEW r \in 1..Len(c), NEW main, MainDone(c, r, main), NEW position, position = PlacesOf(c)[r],
         NEW end, end = BlockLength(c, r)
  PROVE  [keys |-> main.captured.keys, positions |-> Spaced(FirstGenerated(position, main), end),
          tokens |-> SubSeq(main.out, 1, end)] = BlockOf(c, r)
<1>1. /\ main.prompt = c[r].prompt /\ main.out \in Seq(Tokens) /\ Len(main.out) = Taken(c[r].main, MaxNew)
      /\ \A i \in 1..Len(main.out) : main.out[i] = c[r].main[i]
      /\ main.captured = [keys |-> BlockKeys(c, r), count |-> BlockLength(c, r)]
  BY Zenon DEF MainDone
<1>2. main.captured.keys = BlockKeys(c, r)
  BY <1>1
<1>3. Spaced(FirstGenerated(position, main), end) = BlockPositions(c, r)
  BY <1>1, Zenon DEF FirstGenerated, BlockPositions
<1>4. end \in Nat /\ end <= Len(main.out) /\ Len(main.out) \in Nat
  <2>1. end \in 1..Taken(c[r].main, MaxNew) /\ Taken(c[r].main, MaxNew) \in Nat
    BY TakenInRow, PositionIs, Zenon
  <2> DEFINE t == Taken(c[r].main, MaxNew)
  <2>2. Len(main.out) = t
    BY <1>1, Zenon
  <2> HIDE DEF t
  <2> QED BY <2>1, <2>2 DEF t
<1>5. SubSeq(main.out, 1, end) = BlockTokens(c, r)
  <2> DEFINE out == main.out
             a == c[r].main
  <2>1. out \in Seq(Tokens) /\ (\A i \in 1..Len(out) : out[i] = a[i]) /\ end <= Len(out)
    BY <1>1, <1>4, Zenon
  <2> HIDE DEF out
  <2>2. IsSlice(SubSeq(out, 0 + 1, 0 + end), out, 0, end)
    <3>1. 0 + end <= Len(out) /\ 0 \in Nat
      BY <1>4, <2>1
    <3> QED BY <1>4, <2>1, <3>1, SubSeqIs, Zenon
  <2>3. 0 + 1 = 1 /\ 0 + end = end /\ \A i \in 1..end : 0 + i = i /\ i \in 1..Len(out)
    BY <1>4, <2>1
  <2>4. SubSeq(out, 1, end) = [i \in 1..end |-> out[0 + i]]
    BY <2>2, <2>3 DEF IsSlice
  <2> HIDE DEF a
  <2>5. \A i \in 1..end : out[0 + i] = a[i]
    BY <2>1, <2>3
  <2>6. SubSeq(out, 1, end) = [i \in 1..end |-> a[i]]
    BY <2>4, <2>5
  <2> QED BY <2>6, Zenon DEF a, out, BlockTokens
<1> QED BY <1>2, <1>3, <1>5, Zenon DEF BlockOf

LEMMA RecordRowKeepsInv ==
  ASSUME AnswerInv, RecordRow
  PROVE  AnswerInv'
<1> DEFINE c == Rows
           r == program.row
           main == program.main
           end == AnswerBlockEnd(main.out)
           block == [keys |-> main.captured.keys, positions |-> Spaced(FirstGenerated(program.position, main), end),
                     tokens |-> SubSeq(main.out, 1, end)]
           blocks == [q \in DOMAIN files.blocks \cup {program.row} |-> IF q = program.row THEN block ELSE files.blocks[q]]
           item == [row |-> program.row, positions |-> block.positions, tokens |-> block.tokens]
           place == program.position + main.prompt + Len(main.out)
<1>1. SetupGood /\ GenGood /\ FilesGood /\ ProgramGood /\ PlaceGood /\ CachesType /\ Rows \in Corpora /\ Len(Rows) \in Nat
      /\ IsProgram(program)
  BY InvParts, Zenon
<1>2. At("index") /\ Calling /\ Ended(gen)
  BY Zenon DEF RecordRow, Returned
<1>3. AtIndex
  BY <1>1, <1>2, PlaceIs, Zenon
<1>4. /\ DOMAIN caches = {"history", "clone"} /\ r \in 1..Len(c) /\ RunGood /\ MainDone(c, r, main)
      /\ StartedWith(gen, "clone", program.position, program.position, c[r].index,
                 OwnerOf(r, "index"), c[r].fact, IndexMaxNew, 0, TRUE)
      /\ Remembered(c, caches["history"], r + 1) /\ RememberedPart(c, caches["clone"], r)
  BY <1>3, Zenon DEF AtIndex
<1>5. program.position = PlacesOf(c)[r] /\ gen.on = "clone" /\ CallGood(caches["clone"], gen)
      /\ MetaGood(c, program.meta, r - 1) /\ VectorsGood(program.vectors, r - 1) /\ 1..(r - 1) \subseteq DOMAIN files.blocks
  BY <1>1, <1>2, <1>4, Zenon DEF RunGood, StartedWith, GenGood
<1>6. end = BlockLength(c, r)
  BY <1>1, <1>4, BlockEndIs, Zenon
<1>7. block = BlockOf(c, r)
  <2> HIDE DEF c, r, main, end
  <2>1. c \in Corpora /\ r \in 1..Len(c) /\ MainDone(c, r, main) /\ program.position = PlacesOf(c)[r] /\ end = BlockLength(c, r)
    BY <1>1, <1>4, <1>5, <1>6, Zenon DEF c
  <2> DEFINE position == program.position
  <2>2. position = PlacesOf(c)[r]
    BY <2>1, Zenon
  <2> HIDE DEF position
  <2>3. [keys |-> main.captured.keys, positions |-> Spaced(FirstGenerated(position, main), end),
         tokens |-> SubSeq(main.out, 1, end)] = BlockOf(c, r)
    BY <2>1, <2>2, BlockWritten
  <2> QED BY <2>3, Zenon DEF position
<1>8. main.captured.count = end /\ Len(block.keys) = end
  <2>1. main.captured = [keys |-> BlockKeys(c, r), count |-> BlockLength(c, r)]
    BY <1>4, Zenon DEF MainDone
  <2>2. main.captured.count = BlockLength(c, r)
    BY <2>1
  <2>3. block.keys = BlockKeys(c, r)
    <3> HIDE DEF block
    <3>1. block = [keys |-> BlockKeys(c, r), positions |-> BlockPositions(c, r), tokens |-> BlockTokens(c, r)]
      BY <1>7, Zenon DEF BlockOf
    <3> QED BY <3>1
  <2>4. Len(BlockKeys(c, r)) = BlockLength(c, r)
    BY <1>1, <1>4, BlockParts, Zenon
  <2> QED BY <1>6, <2>2, <2>3, <2>4, Zenon
<1>9. CASE gen.vector = NoValue
  <2>1. Raise("noIndexPrefix")
    BY <1>9, Zenon DEF RecordRow
  <2> QED BY <1>1, <2>1, Raises, Zenon DEF GoodFailures
<1>10. CASE gen.vector # NoValue
  <2>1. /\ files' = [files EXCEPT !.blocks = blocks]
        /\ program' = [program EXCEPT
                !.at = "rows", !.row = program.row + 1, !.position = place,
                !.meta = Append(program.meta, item),
                !.vectors = Append(program.vectors, gen.vector), !.main = NoValue, !.branch = "none"]
        /\ caches' = [history |-> caches["history"]] /\ gen' = NoCall /\ setup' = setup
    <3>1. ~(main.captured.count # end \/ Len(block.keys) # end)
      BY <1>8, Zenon
    <3> QED BY <1>10, <3>1, Zenon DEF RecordRow
  <2>2. item = MetaOf(c, r)
    <3> HIDE DEF block
    <3>1. block = [keys |-> BlockKeys(c, r), positions |-> BlockPositions(c, r), tokens |-> BlockTokens(c, r)]
      BY <1>7, Zenon DEF BlockOf
    <3>2. block.positions = BlockPositions(c, r) /\ block.tokens = BlockTokens(c, r)
      BY <3>1
    <3> QED BY <3>2, Zenon DEF MetaOf
  <2>3. blocks = [q \in DOMAIN files.blocks \cup {r} |-> IF q = r THEN BlockOf(c, r) ELSE files.blocks[q]]
    BY <1>7, Zenon
  <2>4. place = PlacesOf(c)[r + 1]
    <3>1. main.prompt = c[r].prompt /\ Len(main.out) = Taken(c[r].main, MaxNew)
      BY <1>4, Zenon DEF MainDone
    <3>2. PlacesOf(c)[r + 1] = PlacesOf(c)[r] + c[r].prompt + Taken(c[r].main, MaxNew)
      BY <1>1, <1>4, PositionIs, Zenon
    <3> QED BY <1>5, <3>1, <3>2, Zenon
  <2> HIDE DEF blocks, item, place, block, end
  <2>5. /\ IsProgram(program') /\ program'.at = "rows" /\ program'.row = r + 1 /\ program'.position = place
        /\ program'.meta = Append(program.meta, item) /\ program'.vectors = Append(program.vectors, gen.vector)
        /\ program'.failure = program.failure
    <3> DEFINE after == program'
               m == Append(program.meta, item)
               v == Append(program.vectors, gen.vector)
               row == program.row + 1
    <3>1. after = [program EXCEPT !.at = "rows", !.row = row, !.position = place, !.meta = m, !.vectors = v,
                   !.main = NoValue, !.branch = "none"]
      BY <2>1
    <3> HIDE DEF after, m, v, row
    <3>2. ProgramFields(after, "rows", row, place, "none", NoValue, m, v, program.condition, program.result, program.failure)
      BY <1>1, <3>1, ProgramRecorded, Zenon
    <3>3. /\ IsProgram(after) /\ after.at = "rows" /\ after.row = row /\ after.position = place /\ after.meta = m
          /\ after.vectors = v /\ after.failure = program.failure
      BY <3>2 DEF ProgramFields, IsProgram
    <3> QED BY <3>3, Zenon DEF after, m, v, row
  <2>6. FilesFields(files', blocks, files.vectors, files.meta, files.summary)
    <3> DEFINE after == files'
    <3>1. after = [files EXCEPT !.blocks = blocks] /\ IsFiles(files)
      BY <1>1, <2>1, Zenon DEF FilesGood
    <3> HIDE DEF after
    <3> QED BY <3>1, FilesChange, Zenon DEF after
  <2>7. /\ IsFiles(files') /\ files'.blocks = blocks /\ files'.vectors = files.vectors /\ files'.meta = files.meta
        /\ files'.summary = files.summary
    BY <2>6, Zenon DEF FilesFields
  <2>8. Rows' = Rows
    BY <2>1, Zenon DEF Rows
  <2> HIDE DEF c, r, main
  <2>9. DOMAIN blocks = DOMAIN files.blocks \cup {r} /\ BlocksGood(c, blocks)
    <3>1. BlocksGood(c, files.blocks) /\ r \in 1..Len(c)
      BY <1>1, <1>4, Zenon DEF FilesGood, c
    <3>2. DOMAIN files.blocks \subseteq 1..Len(c) /\ \A q \in DOMAIN files.blocks : files.blocks[q] = BlockOf(c, q)
      BY <3>1, Zenon DEF BlocksGood
    <3>3. DOMAIN blocks = DOMAIN files.blocks \cup {r} /\ \A q \in DOMAIN blocks : blocks[q] = BlockOf(c, q)
      BY <2>3, <3>2
    <3> QED BY <3>1, <3>2, <3>3 DEF BlocksGood
  <2>10. FilesGood'
    <3>1. files.summary # NoValue => Published /\ files.summary.start \in Nat
      BY <1>1, Zenon DEF FilesGood
    <3>2. Published => Published'
      BY <2>7, <2>8, <2>9 DEF Published
    <3> QED BY <2>7, <2>8, <2>9, <3>1, <3>2, Zenon DEF FilesGood, c
  <2>11. ProgramGood'
    <3>1. program.at # "idle"
      BY <1>2, UnderWay
    <3> QED BY <1>1, <2>5, <3>1, FailureStays, Zenon
  <2>12. DOMAIN caches' = {"history"} /\ caches'["history"] = caches["history"] /\ CachesType'
    <3> DEFINE history == caches["history"]
    <3>1. history \in Seq(Key)
      BY <1>4, Zenon DEF Remembered
    <3> HIDE DEF history
    <3>2. caches' = [history |-> history]
      BY <2>1, Zenon DEF history
    <3>3. DOMAIN caches' = {"history"} /\ caches'["history"] = history
      BY <3>2
    <3>4. caches' \in [DOMAIN caches' -> Seq(Key)]
      BY <3>1, <3>2, <3>3
    <3> QED BY <3>3, <3>4 DEF CachesType, CacheNames, history
  <2>13. GenGood'
    BY <2>1, <2>12 DEF GenGood, Calling, NoCall
  <2>14. IndexVector(gen.vector, r)
    <3> DEFINE clone == caches["clone"]
    <3>1. gen.prefix = PlacesOf(c)[r] /\ gen.start = PlacesOf(c)[r] /\ gen.of = OwnerOf(r, "index")
      BY <1>4, <1>5, Zenon DEF StartedWith
    <3>2. CallGood(clone, gen) /\ RememberedPart(c, clone, r) /\ c \in Corpora /\ r \in 1..Len(c)
      BY <1>1, <1>4, <1>5, Zenon DEF c
    <3> HIDE DEF clone
    <3> QED BY <1>10, <3>1, <3>2, VectorIs, Zenon
  <2>15. c \in Corpora /\ r \in 1..Len(c) /\ r \in Nat /\ r \in Nat \ {0} /\ (r + 1) - 1 = r /\ r + 1 \in 1..(Len(c) + 1)
    <3>1. c \in Corpora /\ r \in 1..Len(c)
      BY <1>1, <1>4, Zenon DEF c
    <3>2. r \in Nat /\ r + 1 \in 1..(Len(c) + 1)
      BY <3>1, PositionIs, Zenon
    <3> QED BY <3>1, <3>2
  <2>16. MetaGood(c, Append(program.meta, item), r)
    BY <1>5, <2>2, <2>15, MetaGrows, Zenon
  <2>17. VectorsGood(Append(program.vectors, gen.vector), r)
    BY <1>5, <2>14, <2>15, VectorsGrow, Zenon
  <2>18. 1..r \subseteq DOMAIN blocks
    <3>1. \A q \in 1..r : q = r \/ q \in 1..(r - 1)
      BY <2>15
    <3> QED BY <1>5, <2>9, <3>1
  <2>19. RunGood'
    BY <2>4, <2>5, <2>7, <2>8, <2>15, <2>16, <2>17, <2>18 DEF RunGood, c
  <2>20. AtRows'
    BY <1>4, <2>1, <2>5, <2>8, <2>12, <2>15, <2>19 DEF AtRows, c
  <2>21. PlaceGood'
    BY <2>5, <2>20, Zenon DEF PlaceGood, At
  <2> QED BY <1>1, <2>1, <2>10, <2>11, <2>13, <2>21, Arrives, Zenon
<1> QED BY <1>9, <1>10

LEMMA SaveIndexKeepsInv ==
  ASSUME AnswerInv, SaveIndex
  PROVE  AnswerInv'
<1>1. SetupGood /\ FilesGood /\ ProgramGood /\ PlaceGood /\ Rows \in Corpora /\ Len(Rows) \in Nat /\ IsProgram(program)
  BY InvParts, Zenon
<1>2. At("rows") /\ program.row > Len(Rows)
  BY Zenon DEF SaveIndex
<1>3. /\ gen = NoCall /\ program.row \in 1..(Len(Rows) + 1) /\ RunGood
      /\ Remembered(Rows, caches["history"], program.row)
  BY <1>1, <1>2, PlaceIs, Zenon DEF AtRows
<1>4. program.row = Len(Rows) + 1 /\ program.row - 1 = Len(Rows)
  BY <1>1, <1>2, <1>3
<1>5. /\ program.position = PlacesOf(Rows)[program.row] /\ Len(caches["history"]) = program.position
      /\ MetaGood(Rows, program.meta, Len(Rows)) /\ VectorsGood(program.vectors, Len(Rows))
      /\ 1..Len(Rows) \subseteq DOMAIN files.blocks
  BY <1>3, <1>4 DEF RunGood, Remembered
<1>6. program.position \in Nat
  <2>1. PlacesOf(Rows) \in [1..(Len(Rows) + 1) -> Nat]
    BY <1>1, PlaceFacts, Zenon
  <2> QED BY <1>3, <1>5, <2>1
<1>7. /\ files' = [files EXCEPT !.vectors = program.vectors] /\ program' = [program EXCEPT !.at = "saved"]
      /\ caches' = <<>> /\ UNCHANGED <<setup, gen, starts>>
  BY <1>5, Zenon DEF SaveIndex
<1>8. /\ IsFiles(files') /\ files'.blocks = files.blocks /\ files'.vectors = program.vectors /\ files'.meta = files.meta
      /\ files'.summary = files.summary
  <2> DEFINE after == files'
             v == program.vectors
  <2>1. after = [files EXCEPT !.vectors = v] /\ IsFiles(files)
    BY <1>1, <1>7, Zenon DEF FilesGood
  <2> HIDE DEF after, v
  <2>2. FilesFields(after, files.blocks, v, files.meta, files.summary)
    BY <2>1, FilesChange, Zenon
  <2> QED BY <2>2, Zenon DEF FilesFields, after, v
<1>9. /\ IsProgram(program') /\ program'.at = "saved" /\ program'.position = program.position /\ program'.meta = program.meta
      /\ program'.failure = program.failure
  <2> DEFINE after == program'
  <2>1. after = [program EXCEPT !.at = "saved"]
    BY <1>7
  <2> HIDE DEF after
  <2>2. ProgramFields(after, "saved", program.row, program.position, program.branch, program.main,
                      program.meta, program.vectors, program.condition, program.result, program.failure)
    BY <1>1, <2>1, ProgramAt, Zenon
  <2>3. /\ IsProgram(after) /\ after.at = "saved" /\ after.position = program.position /\ after.meta = program.meta
        /\ after.failure = program.failure
    BY <2>2 DEF ProgramFields, IsProgram
  <2> QED BY <2>3, Zenon DEF after
<1>10. Rows' = Rows /\ setup' = setup
  BY <1>7, Zenon DEF Rows
<1>11. FilesGood'
  <2>1. BlocksGood(Rows, files.blocks) /\ (files.summary # NoValue => Published /\ files.summary.start \in Nat)
    BY <1>1, Zenon DEF FilesGood
  <2>2. Published => Published'
    BY <1>5, <1>8, <1>10 DEF Published
  <2> QED BY <1>8, <1>10, <2>1, <2>2 DEF FilesGood
<1>12. ProgramGood' /\ GenGood' /\ Quiet'
  <2>1. program.at # "idle"
    BY <1>2, UnderWay
  <2> QED BY <1>1, <1>3, <1>7, <1>9, <2>1, NoCaches, FailureStays, Zenon
<1>13. AtSaved'
  BY <1>5, <1>6, <1>8, <1>9, <1>10, <1>12 DEF AtSaved
<1>14. PlaceGood'
  BY <1>9, <1>13, Zenon DEF PlaceGood, At
<1> QED BY <1>1, <1>10, <1>11, <1>12, <1>14, Arrives, Zenon

LEMMA SaveMetadataKeepsInv ==
  ASSUME AnswerInv, SaveMetadata
  PROVE  AnswerInv'
<1> DEFINE place == IF setup.test # NoValue THEN setup.test ELSE program.position
<1>1. SetupGood /\ FilesGood /\ ProgramGood /\ PlaceGood /\ IsProgram(program)
  BY InvParts, Zenon
<1>2. /\ At("saved") /\ files' = [files EXCEPT !.meta = program.meta]
      /\ program' = [program EXCEPT !.at = "tests", !.row = 1, !.position = place]
      /\ UNCHANGED <<setup, caches, gen, starts>>
  BY Zenon DEF SaveMetadata
<1>3. /\ Quiet /\ program.position \in Nat /\ MetaGood(Rows, program.meta, Len(Rows))
      /\ VectorsGood(files.vectors, Len(Rows)) /\ 1..Len(Rows) \subseteq DOMAIN files.blocks
  BY <1>1, <1>2, PlaceIs, Zenon DEF AtSaved
<1>4. place \in Nat
  <2>1. setup.test \in TestPositions \cup {NoValue}
    BY <1>1 DEF SetupGood
  <2> QED BY <1>3, <2>1, AnswerAssumption
<1> HIDE DEF place
<1>5. /\ IsFiles(files') /\ files'.blocks = files.blocks /\ files'.vectors = files.vectors /\ files'.meta = program.meta
      /\ files'.summary = files.summary
  <2> DEFINE after == files'
             v == program.meta
  <2>1. after = [files EXCEPT !.meta = v] /\ IsFiles(files)
    BY <1>1, <1>2, Zenon DEF FilesGood
  <2> HIDE DEF after, v
  <2>2. FilesFields(after, files.blocks, files.vectors, v, files.summary)
    BY <2>1, FilesChange, Zenon
  <2> QED BY <2>2, Zenon DEF FilesFields, after, v
<1>6. /\ IsProgram(program') /\ program'.at = "tests" /\ program'.row = 1 /\ program'.position = place
      /\ program'.meta = program.meta /\ program'.failure = program.failure
  <2> DEFINE after == program'
  <2>1. after = [program EXCEPT !.at = "tests", !.row = 1, !.position = place]
    BY <1>2
  <2> HIDE DEF after
  <2>2. ProgramFields(after, "tests", 1, place, program.branch, program.main,
                      program.meta, program.vectors, program.condition, program.result, program.failure)
    BY <1>1, <2>1, ProgramPlaced, Zenon
  <2>3. /\ IsProgram(after) /\ after.at = "tests" /\ after.row = 1 /\ after.position = place /\ after.meta = program.meta
        /\ after.failure = program.failure
    BY <2>2 DEF ProgramFields, IsProgram
  <2> QED BY <2>3, Zenon DEF after
<1>7. Rows' = Rows /\ setup' = setup
  BY <1>2, Zenon DEF Rows
<1>8. Published'
  BY <1>3, <1>5, <1>7 DEF Published
<1>9. FilesGood'
  <2>1. BlocksGood(Rows, files.blocks) /\ (files.summary # NoValue => files.summary.start \in Nat)
    BY <1>1, Zenon DEF FilesGood
  <2> QED BY <1>5, <1>7, <1>8, <2>1 DEF FilesGood
<1>10. ProgramGood' /\ GenGood' /\ Quiet'
  <2>1. program.at # "idle"
    BY <1>2, UnderWay
  <2> QED BY <1>1, <1>2, <1>3, <1>6, <2>1, NoCaches, FailureStays, Zenon DEF Quiet
<1>11. Testing'
  BY <1>3, <1>4, <1>6, <1>7, <1>8 DEF Testing
<1>12. PlaceGood'
  BY <1>6, <1>10, <1>11, Zenon DEF PlaceGood, At
<1> QED BY <1>1, <1>7, <1>9, <1>10, <1>12, Arrives, Zenon

LEMMA EndReplayKeepsInv ==
  ASSUME AnswerInv, EndReplay
  PROVE  AnswerInv'
<1>1. SetupGood /\ FilesGood /\ ProgramGood /\ PlaceGood /\ IsProgram(program)
  BY InvParts, Zenon
<1>2. /\ At("replay") /\ program' = [program EXCEPT !.at = "tests", !.row = program.row + 1]
      /\ caches' = <<>> /\ gen' = NoCall /\ UNCHANGED <<setup, files, starts>>
  BY Zenon DEF EndReplay
<1>3. Published /\ MetaGood(Rows, program.meta, Len(Rows)) /\ program.row \in Nat \ {0} /\ program.position \in Nat
  BY <1>1, <1>2, PlaceIs, Zenon DEF AtReplay, Testing
<1>4. /\ IsProgram(program') /\ program'.at = "tests" /\ program'.row = program.row + 1
      /\ program'.position = program.position /\ program'.meta = program.meta /\ program'.failure = program.failure
  <2> DEFINE after == program'
             row == program.row + 1
  <2>1. after = [program EXCEPT !.at = "tests", !.row = row]
    BY <1>2
  <2> HIDE DEF after, row
  <2>2. ProgramFields(after, "tests", row, program.position, program.branch, program.main,
                      program.meta, program.vectors, program.condition, program.result, program.failure)
    BY <1>1, <2>1, ProgramRowed, Zenon
  <2>3. /\ IsProgram(after) /\ after.at = "tests" /\ after.row = row /\ after.position = program.position
        /\ after.meta = program.meta /\ after.failure = program.failure
    BY <2>2 DEF ProgramFields, IsProgram
  <2> QED BY <2>3, Zenon DEF after, row
<1>5. Rows' = Rows /\ setup' = setup /\ FilesGood' /\ Published' /\ GenGood' /\ Quiet' /\ ProgramGood'
  <2>1. program.at # "idle"
    BY <1>2, UnderWay
  <2> QED BY <1>1, <1>2, <1>3, <1>4, <2>1, FilesKept, NoCaches, FailureStays, Zenon DEF Rows, Published
<1>6. Testing'
  BY <1>3, <1>4, <1>5 DEF Testing
<1>7. PlaceGood'
  BY <1>4, <1>5, <1>6, Zenon DEF PlaceGood, At
<1> QED BY <1>1, <1>5, <1>7, Arrives, Zenon

LEMMA WriteSummaryKeepsInv ==
  ASSUME AnswerInv, WriteSummary
  PROVE  AnswerInv'
<1>1. SetupGood /\ FilesGood /\ PlaceGood
  BY InvParts, Zenon
<1>2. /\ At("tests") /\ files' = [files EXCEPT !.summary = [start |-> program.position]]
      /\ program' = NoProgram /\ UNCHANGED <<setup, caches, gen, starts>>
  BY Zenon DEF WriteSummary
<1>3. Quiet /\ Published /\ program.position \in Nat
  BY <1>1, <1>2, PlaceIs, Zenon DEF Testing
<1>4. /\ IsFiles(files') /\ files'.blocks = files.blocks /\ files'.vectors = files.vectors /\ files'.meta = files.meta
      /\ files'.summary = [start |-> program.position]
  <2> DEFINE after == files'
             v == [start |-> program.position]
  <2>1. after = [files EXCEPT !.summary = v] /\ IsFiles(files)
    BY <1>1, <1>2, Zenon DEF FilesGood
  <2> HIDE DEF after, v
  <2>2. FilesFields(after, files.blocks, files.vectors, files.meta, v)
    BY <2>1, FilesChange, Zenon
  <2> QED BY <2>2, Zenon DEF FilesFields, after, v
<1>5. IsProgram(NoProgram) /\ NoProgram.at = "idle" /\ NoProgram.failure = "none"
  BY ProgramNone DEF ProgramFields, IsProgram
<1>6. Rows' = Rows /\ setup' = setup
  BY <1>2, Zenon DEF Rows
<1>7. Published'
  BY <1>3, <1>4, <1>6 DEF Published
<1>8. FilesGood'
  <2>1. BlocksGood(Rows, files.blocks)
    BY <1>1, Zenon DEF FilesGood
  <2>2. files'.summary.start = program.position
    BY <1>4
  <2> QED BY <1>3, <1>4, <1>6, <1>7, <2>1, <2>2 DEF FilesGood
<1>9. GenGood' /\ Quiet' /\ ProgramGood'
  BY <1>2, <1>3, <1>5, NoCaches, Zenon DEF Quiet, ProgramGood, FailureGood
<1>10. PlaceGood'
  BY <1>2, <1>5, <1>9, Zenon DEF PlaceGood, At
<1> QED BY <1>1, <1>6, <1>8, <1>9, <1>10, Arrives, Zenon

LEMMA ReplayOnlyKeepsInv ==
  ASSUME AnswerInv, ReplayOnly
  PROVE  AnswerInv'
<1> DEFINE place == IF setup.test # NoValue THEN setup.test ELSE files.summary.start
<1>1. SetupGood /\ FilesGood /\ PlaceGood
  BY InvParts, Zenon
<1>2. /\ At("idle") /\ files.summary # NoValue
      /\ program' = [NoProgram EXCEPT !.at = "tests", !.row = 1, !.meta = files.meta, !.vectors = files.vectors, !.position = place]
      /\ UNCHANGED <<setup, caches, gen, files>>
  BY Zenon DEF ReplayOnly
<1>3. Quiet /\ Published /\ files.summary.start \in Nat
  BY <1>1, <1>2, PlaceIs, Zenon DEF FilesGood
<1>4. place \in Nat
  <2>1. setup.test \in TestPositions \cup {NoValue}
    BY <1>1 DEF SetupGood
  <2> QED BY <1>3, <2>1, AnswerAssumption
<1> HIDE DEF place
<1>5. /\ IsProgram(program') /\ program'.at = "tests" /\ program'.row = 1 /\ program'.position = place
      /\ program'.meta = files.meta /\ program'.failure = "none"
  <2> DEFINE after == program'
             m == files.meta
             v == files.vectors
  <2>1. after = [NoProgram EXCEPT !.at = "tests", !.row = 1, !.meta = m, !.vectors = v, !.position = place]
    BY <1>2
  <2>2. IsProgram(NoProgram) /\ NoProgram.failure = "none"
    BY ProgramNone DEF ProgramFields, IsProgram
  <2> HIDE DEF after, m, v
  <2>3. ProgramFields(after, "tests", 1, place, NoProgram.branch, NoProgram.main, m, v,
                      NoProgram.condition, NoProgram.result, NoProgram.failure)
    BY <2>1, <2>2, ProgramResumed, Zenon
  <2>4. /\ IsProgram(after) /\ after.at = "tests" /\ after.row = 1 /\ after.position = place
        /\ after.meta = m /\ after.failure = NoProgram.failure
    BY <2>3 DEF ProgramFields, IsProgram
  <2> QED BY <2>2, <2>4, Zenon DEF after, m
<1>6. Rows' = Rows /\ setup' = setup /\ FilesGood' /\ Published' /\ GenGood' /\ Quiet' /\ ProgramGood'
  BY <1>1, <1>2, <1>3, <1>5, FilesKept, NoCaches, Zenon DEF Rows, ProgramGood, FailureGood, Published, Quiet
<1>7. Testing'
  BY <1>2, <1>3, <1>4, <1>5, <1>6 DEF Testing, Published
<1>8. PlaceGood'
  BY <1>5, <1>6, <1>7, Zenon DEF PlaceGood, At
<1> QED BY <1>1, <1>6, <1>8, Arrives, Zenon

\* A search that finds no FACT:, a kill and the end of a condition leave what was written.
LEMMA StopsKeepInv ==
  ASSUME AnswerInv, SearchFails \/ Kill \/ NextCondition
  PROVE  AnswerInv'
<1>1. SetupGood /\ FilesGood
  BY InvParts, Zenon
<1>2. CASE SearchFails
  BY <1>1, <1>2, Raises, Zenon DEF SearchFails, GoodFailures
<1>3. CASE Kill \/ NextCondition
  <2>1. program' = NoProgram /\ caches' = <<>> /\ gen' = NoCall /\ setup' = setup /\ files' = files
    BY <1>3, Zenon DEF Kill, NextCondition
  <2>2. "none" \in GoodFailures
    BY DEF GoodFailures
  <2> QED BY <1>1, <2>1, <2>2, BackToIdle, Zenon
<1> QED BY <1>2, <1>3

------------------------------------------------------------------------------
(* The sweep.                                                               *)

LEMMA ConditionIs ==
  ASSUME NEW c \in Conditions
  PROVE  c.start \in Nat /\ c.gap \in Nat /\ c.fact \in BOOLEAN
BY AnswerAssumption

LEMMA StartConditionKeepsInv ==
  ASSUME AnswerInv, StartCondition
  PROVE  AnswerInv'
<1>1. SetupGood /\ FilesGood /\ PlaceGood /\ Rows \in Corpora /\ Len(Rows) \in Nat
  BY InvParts, Zenon
<1>2. PICK c \in Conditions, r \in 1..Len(Rows) :
        /\ gen' = Call([split |-> <<>>], "split", FALSE, [row |-> r, branch |-> "main"], Rows[r].prompt, c.start,
                       Rows[r].main, MaxNew, 0, c.fact)
        /\ caches' = Prefill([split |-> <<>>], "split", [row |-> r, branch |-> "main"], Rows[r].prompt, c.start)
        /\ program' = [NoProgram EXCEPT !.at = "history", !.row = r, !.condition = c]
        /\ UNCHANGED <<setup, files>>
  BY Zenon DEF StartCondition
<1> DEFINE given == [split |-> <<>>]
           of == [row |-> r, branch |-> "main"]
           row == Rows[r]
<1>3. given \in [DOMAIN given -> Seq(Key)] /\ DOMAIN given = {"split"} /\ Len(given["split"]) = 0
  <2> DEFINE e == <<>>
  <2>1. e \in Seq(Key) /\ Len(e) = 0 /\ given = [split |-> e]
    OBVIOUS
  <2> HIDE DEF e, given
  <2>2. DOMAIN given = {"split"} /\ given["split"] = e
    BY <2>1
  <2>3. given \in [DOMAIN given -> Seq(Key)]
    BY <2>1, <2>2
  <2> QED BY <2>1, <2>2, <2>3
<1>4. /\ row.prompt \in Nat \ {0} /\ row.main \in Seq(Tokens) /\ MaxNew <= Len(row.main) /\ of \in Owners
      /\ c.start \in Nat /\ c.fact \in BOOLEAN /\ MaxNew \in Nat \ {0}
  <2>1. row.prompt \in Nat \ {0} /\ row.main \in Seq(Tokens) /\ Len(row.main) >= MaxNew
    BY <1>1, CorpusRows, Zenon
  <2>2. MaxNew \in Nat \ {0}
    BY AnswerAssumption
  <2>3. MaxNew <= Len(row.main)
    BY <2>1, <2>2
  <2>4. of \in Owners
    <3>1. r \in Nat
      BY <1>1
    <3> QED BY <3>1 DEF Owners
  <2> QED BY <2>1, <2>2, <2>3, <2>4, ConditionIs, Zenon
<1> HIDE DEF given, of, row
<1>5. Started(gen', caches', given, "split", of, row.prompt, c.start, row.main, MaxNew, 0, c.fact)
  <2>1. DOMAIN given \subseteq CacheNames /\ "split" \in DOMAIN given /\ FALSE \in BOOLEAN
    BY <1>3 DEF CacheNames
  <2>2. 0 \in Nat /\ 0 <= Window /\ 0 <= MaxNew
    BY <1>4, AnswerAssumption
  <2>3. Startable(given, "split", FALSE, of, row.prompt, c.start, row.main, MaxNew, 0, c.fact)
    BY <1>3, <1>4, <2>1, <2>2, Zenon DEF Startable
  <2>4. Started(Call(given, "split", FALSE, of, row.prompt, c.start, row.main, MaxNew, 0, c.fact),
                Prefill(given, "split", of, row.prompt, c.start),
                given, "split", of, row.prompt, c.start, row.main, MaxNew, 0, c.fact)
    BY <2>3, CallStarts, Zenon
  <2>5. gen' = Call(given, "split", FALSE, of, row.prompt, c.start, row.main, MaxNew, 0, c.fact)
        /\ caches' = Prefill(given, "split", of, row.prompt, c.start)
    BY <1>2, Zenon DEF given, of, row
  <2> QED BY <2>4, <2>5
<1>6. /\ CallGood(caches'["split"], gen')
      /\ StartedWith(gen', "split", 0, c.start, row.prompt, of, row.main, MaxNew, 0, c.fact)
      /\ caches' \in [{"split"} -> Seq(Key)] /\ DOMAIN caches' = {"split"}
  <2>1. /\ CallGood(caches'["split"], gen')
        /\ StartedWith(gen', "split", Len(given["split"]), c.start, row.prompt, of, row.main, MaxNew, 0, c.fact)
        /\ caches' \in [DOMAIN given -> Seq(Key)] /\ DOMAIN caches' = DOMAIN given
    BY <1>5, Zenon DEF Started
  <2> QED BY <1>3, <2>1
<1>7. IsProgram(program') /\ program'.at = "history" /\ program'.row = r /\ program'.condition = c /\ program'.failure = "none"
  <2> DEFINE after == program'
  <2>1. after = [NoProgram EXCEPT !.at = "history", !.row = r, !.condition = c]
    BY <1>2
  <2>2. IsProgram(NoProgram) /\ NoProgram.failure = "none"
    BY ProgramNone DEF ProgramFields, IsProgram
  <2> HIDE DEF after
  <2>3. ProgramFields(after, "history", r, NoProgram.position, NoProgram.branch, NoProgram.main, NoProgram.meta,
                      NoProgram.vectors, c, NoProgram.result, NoProgram.failure)
    BY <2>1, <2>2, ProgramConditioned, Zenon
  <2>4. IsProgram(after) /\ after.at = "history" /\ after.row = r /\ after.condition = c /\ after.failure = NoProgram.failure
    BY <2>3 DEF ProgramFields, IsProgram
  <2> QED BY <2>2, <2>4, Zenon DEF after
<1>8. Rows' = Rows /\ setup' = setup /\ FilesGood' /\ ProgramGood'
  BY <1>1, <1>2, <1>7, FilesKept, Zenon DEF Rows, ProgramGood, FailureGood
<1>9. GenGood'
  <2>1. gen'.on = "split"
    BY <1>6, Zenon DEF StartedWith
  <2>2. CachesType'
    BY <1>6 DEF CachesType, CacheNames
  <2> QED BY <1>6, <2>1, <2>2 DEF GenGood
<1>10. AtHistory'
  <2>1. StartedWith(gen', "split", 0, c.start, Rows[r].prompt, OwnerOf(r, "main"), Rows[r].main, MaxNew, 0, c.fact)
    BY <1>6, Zenon DEF row, of, OwnerOf
  <2> QED BY <1>6, <1>7, <1>8, <2>1 DEF AtHistory
<1>11. PlaceGood'
  BY <1>7, <1>10, Zenon DEF PlaceGood, At
<1> QED BY <1>1, <1>8, <1>9, <1>11, Arrives, Zenon

\* A history prefilled again has the keys it was generated with.
LEMMA HistoryIs ==
  ASSUME NEW of \in Owners, NEW n \in Nat, NEW start \in Nat, NEW out \in Seq(Tokens)
  PROVE  /\ Keys(of, Prompt(n) \o out, start) \in Seq(Key) /\ Len(Keys(of, Prompt(n) \o out, start)) = n + Len(out)
         /\ \A k \in 1..(n + Len(out)) : Keys(of, Prompt(n) \o out, start)[k] = KeyAt(of, start, n, out, k)
<1> DEFINE T == Tokens \cup {"prompt"}
           prompt == Prompt(n)
           tokens == prompt \o out
           l == n + Len(out)
<1>1. prompt \in Seq(T) /\ Len(prompt) = n /\ \A i \in 1..n : prompt[i] = "prompt"
  BY DEF Prompt
<1>2. out \in Seq(T) /\ Len(out) \in Nat /\ l \in Nat
  <2>1. \A i \in 1..Len(out) : out[i] \in T
    OBVIOUS
  <2> QED BY <2>1
<1> HIDE DEF prompt
<1>3. tokens \in Seq(T) /\ Len(tokens) = l /\ (\A i \in 1..n : tokens[i] = "prompt")
      /\ \A i \in 1..Len(out) : tokens[n + i] = out[i]
  <2>1. tokens \in Seq(T) /\ Begins(prompt, tokens) /\ EndsWith(prompt, out, tokens)
    <3> HIDE DEF T
    <3> QED BY <1>1, <1>2, Joined, Zenon
  <2> QED BY <1>1, <2>1, Zenon DEF Begins, EndsWith
<1> HIDE DEF tokens
<1>4. \A k \in 1..l : KeyAt(of, start, n, out, k) = [pos |-> start + k - 1, of |-> of, token |-> tokens[k]]
      /\ tokens[k] \in T
  <2> TAKE k \in 1..l
  <2>1. CASE k <= n
    <3>1. k \in 1..n
      BY <1>2, <2>1
    <3> QED BY <1>3, <2>1, <3>1 DEF KeyAt
  <2>2. CASE ~(k <= n)
    <3>1. k - n \in 1..Len(out) /\ n + (k - n) = k
      BY <1>2, <2>2
    <3>2. tokens[k] = out[k - n] /\ out[k - n] \in Tokens
      BY <1>3, <3>1
    <3> QED BY <2>2, <3>2 DEF KeyAt
  <2> QED BY <2>1, <2>2
<1> DEFINE keys == [k \in 1..l |-> [pos |-> start + k - 1, of |-> of, token |-> tokens[k]]]
<1>5. Keys(of, tokens, start) = keys
  BY <1>3, Zenon DEF Keys
<1>6. \A k \in 1..l : keys[k] \in Key
  <2> TAKE k \in 1..l
  <2>1. start + k - 1 \in Nat /\ tokens[k] \in T
    BY <1>2, <1>4
  <2> QED BY <2>1 DEF Key, Owners
<1>7. keys \in Seq(Key) /\ Len(keys) = l
  <2>1. keys \in [1..l -> Key]
    BY <1>6
  <2> HIDE DEF keys
  <2> QED BY <1>2, <2>1
<1>8. \A k \in 1..l : keys[k] = KeyAt(of, start, n, out, k)
  BY <1>4
<1> HIDE DEF keys
<1>9. Keys(of, tokens, start) \in Seq(Key) /\ Len(Keys(of, tokens, start)) = l
      /\ \A k \in 1..l : Keys(of, tokens, start)[k] = KeyAt(of, start, n, out, k)
  BY <1>5, <1>7, <1>8
<1> QED BY <1>9, Zenon DEF tokens, prompt

ContinuesAs(given, history, of, prompt, query, gap) ==
  /\ given["split"] = history /\ given["continuous"] \in Seq(Key) /\ DOMAIN given = {"split", "continuous"}
  /\ given \in [DOMAIN given -> Seq(Key)]
  /\ gap = 0 => given["continuous"] = history \o Keys(of, Prompt(prompt), query)

LEMMA ContinuousIs ==
  ASSUME NEW history \in Seq(Key), NEW of \in Owners, NEW prompt \in Nat, NEW start \in Nat, NEW gap \in Nat,
         NEW query, query = start + Len(history) + gap
  PROVE  ContinuesAs([split |-> history, continuous |-> Continuous(history, of, prompt, start)], history, of, prompt, query, gap)
<1> DEFINE from == start + Len(history)
           more == PrefillOf(history, of, prompt, from)
           given == [split |-> history, continuous |-> more]
<1>1. from \in Nat /\ (gap = 0 => query = from)
  BY DEF from
<1> HIDE DEF from
<1>2. more \in Seq(Key)
  BY <1>1, PrefillGood, Zenon
<1>3. Continuous(history, of, prompt, start) = more
  BY Zenon DEF Continuous, PrefillOf, from
<1>4. gap = 0 => more = history \o Keys(of, Prompt(prompt), query)
  BY <1>1, Zenon DEF PrefillOf
<1> HIDE DEF more
<1>5. given["split"] = history /\ given["continuous"] = more /\ DOMAIN given = {"split", "continuous"}
      /\ given \in [DOMAIN given -> Seq(Key)]
  BY <1>2
<1> HIDE DEF given
<1>6. ContinuesAs(given, history, of, prompt, query, gap)
  BY <1>2, <1>4, <1>5, Zenon DEF ContinuesAs
<1> QED BY <1>3, <1>6 DEF given

LEMMA PlanRecallKeepsInv ==
  ASSUME AnswerInv, PlanRecall
  PROVE  AnswerInv'
<1> DEFINE c == program.condition
           out == gen.out
           n == gen.prompt
           query == QueryStart(c, gen.prompt, out)
           prompt == Continuation(out)
           of == [row |-> program.row, branch |-> "query"]
           history == HistoryOf(gen, c.start)
           given == [split |-> history, continuous |-> Continuous(history, of, prompt, c.start)]
           recalling == Prefill(given, "split", of, prompt, query)
           closest == ClosestBodyPosition(c, gen.prompt, out)
<1>1. SetupGood /\ GenGood /\ FilesGood /\ ProgramGood /\ PlaceGood /\ Rows \in Corpora /\ Len(Rows) \in Nat /\ IsProgram(program)
  BY InvParts, Zenon
<1>2. At("history") /\ Calling /\ Ended(gen)
  BY Zenon DEF PlanRecall, Returned
<1>3. /\ DOMAIN caches = {"split"} /\ program.row \in 1..Len(Rows) /\ c \in Conditions
      /\ StartedWith(gen, "split", 0, c.start, Rows[program.row].prompt,
                 OwnerOf(program.row, "main"), Rows[program.row].main, MaxNew, 0, c.fact)
  BY <1>1, <1>2, PlaceIs, Zenon DEF AtHistory
<1>4. CallGood(caches["split"], gen)
  BY <1>1, <1>2, <1>3, Zenon DEF StartedWith, GenGood
<1>5. /\ n \in Nat \ {0} /\ gen.of \in Owners /\ out \in Seq(Tokens) /\ Len(out) \in Nat /\ out # <<>>
      /\ c.start \in Nat /\ c.gap \in Nat /\ c.fact \in BOOLEAN /\ program.row \in Nat
  <2>1. n \in Nat \ {0} /\ gen.of \in Owners /\ out \in Seq(Tokens) /\ Len(out) \in Nat
    BY <1>4, CallParts, Zenon
  <2>2. out # <<>>
    BY <1>2, Zenon DEF Ended
  <2>3. program.row \in Nat
    BY <1>1, <1>3
  <2> QED BY <1>3, <2>1, <2>2, <2>3, ConditionIs, Zenon
<1>6. prompt \in Nat \ {0} /\ of \in Owners
  <2>1. prompt \in Nat \ {0}
    BY AnswerAssumption DEF Continuation
  <2>2. of \in Owners
    BY <1>5 DEF Owners
  <2> QED BY <2>1, <2>2
<1>7. /\ history \in Seq(Key) /\ Len(history) = n + Len(out)
      /\ \A k \in 1..(n + Len(out)) : history[k] = KeyAt(gen.of, c.start, n, out, k)
  <2> DEFINE from == c.start
             who == gen.of
  <2>1. history = Keys(who, Prompt(n) \o out, from)
    BY Zenon DEF HistoryOf
  <2>2. from \in Nat /\ who \in Owners /\ n \in Nat /\ out \in Seq(Tokens)
    BY <1>5
  <2> HIDE DEF history, n, out, c, from, who
  <2>3. /\ Keys(who, Prompt(n) \o out, from) \in Seq(Key) /\ Len(Keys(who, Prompt(n) \o out, from)) = n + Len(out)
        /\ \A k \in 1..(n + Len(out)) : Keys(who, Prompt(n) \o out, from)[k] = KeyAt(who, from, n, out, k)
    BY <2>2, HistoryIs, Zenon
  <2> QED BY <2>1, <2>3, Zenon DEF from, who
<1>8. query = c.start + Len(history) + c.gap /\ query \in Nat
  <2>1. query = c.start + n + Len(out) + c.gap
    BY Zenon DEF QueryStart
  <2> HIDE DEF n, out, history, c, query
  <2> QED BY <1>5, <1>7, <2>1
<1>9. ContinuesAs(given, history, of, prompt, query, c.gap)
  <2> DEFINE from == c.start
             gap == c.gap
             it == Continuous(history, of, prompt, from)
  <2>1. from \in Nat /\ gap \in Nat /\ query = from + Len(history) + gap /\ prompt \in Nat /\ of \in Owners /\ history \in Seq(Key)
    BY <1>5, <1>6, <1>7, <1>8, Zenon
  <2> HIDE DEF history, of, prompt, query, from, gap
  <2>2. ContinuesAs([split |-> history, continuous |-> Continuous(history, of, prompt, from)], history, of, prompt, query, gap)
    BY <2>1, ContinuousIs, Zenon
  <2> QED BY <2>2, Zenon DEF from, gap
<1> HIDE DEF history, of, prompt, query, n, out, given
<1>10. /\ given["split"] = history /\ DOMAIN given = {"split", "continuous"} /\ given \in [DOMAIN given -> Seq(Key)]
       /\ c.gap = 0 => given["continuous"] = history \o Keys(of, Prompt(prompt), query)
  BY <1>9, Zenon DEF ContinuesAs
<1>11. recalling["split"] = history \o Keys(of, Prompt(prompt), query) /\ recalling["continuous"] = given["continuous"]
  BY <1>10 DEF Prefill
<1>12. ~(c.gap = 0 /\ ~StructurallyEqual(recalling, Len(history), prompt)) \/ Len(history) > Window
  <2>1. CASE Len(history) > Window
    BY <2>1
  <2>2. CASE ~(Len(history) > Window)
    <3>1. KeptOf(Len(history)) = Len(history)
      <4> DEFINE m == Len(history)
      <4>1. m \in Nat /\ ~(m > Window) /\ Window \in Nat
        BY <1>7, <2>2, AnswerAssumption
      <4> HIDE DEF m
      <4>2. KeptOf(m) = m
        BY <4>1 DEF KeptOf
      <4> QED BY <4>2 DEF m
    <3>2. MasksExact(prompt, Len(history))
      BY <3>1, Zenon DEF MasksExact
    <3> QED BY <1>10, <1>11, <3>2, Zenon DEF StructurallyEqual
  <2> QED BY <2>1, <2>2
<1>13. \/ \E why \in GoodFailures : Raise(why)
       \/ Len(history) > Window /\ Refuse(Len(history))
       \/ /\ ~(c.fact /\ FirstLine(out) = 0)
          /\ \E answer \in Answers, same \in NumericalResults(c) :
               /\ gen' = Call(given, "split", FALSE, of, prompt, query, answer, MaxNew, 0, FALSE)
               /\ caches' = recalling
               /\ program' = [program EXCEPT !.at = "recall", !.result = [passed |-> same, closest |-> closest, first |-> 0]]
               /\ UNCHANGED <<setup, files, starts>>
  <2>1. {"noIndexPrefix", "notTemplatePrefix", "noFirstLine", "pastPositionLimit"} \subseteq GoodFailures
    BY DEF GoodFailures
  <2>2. CASE gen.fact /\ gen.vector = NoValue
    <3>1. Raise("noIndexPrefix")
      BY <2>2, Zenon DEF PlanRecall
    <3> QED BY <2>1, <3>1
  <2>3. CASE ~(gen.fact /\ gen.vector = NoValue) /\ ~TemplateFollows(out)
    <3>1. Raise("notTemplatePrefix")
      BY <2>3, Zenon DEF PlanRecall, out
    <3> QED BY <2>1, <3>1
  <2>4. CASE ~(gen.fact /\ gen.vector = NoValue) /\ TemplateFollows(out) /\ c.fact /\ FirstLine(out) = 0
    <3>1. Raise("noFirstLine")
      BY <2>4, Zenon DEF PlanRecall, out
    <3> QED BY <2>1, <3>1
  <2>5. CASE ~(gen.fact /\ gen.vector = NoValue) /\ TemplateFollows(out) /\ ~(c.fact /\ FirstLine(out) = 0)
             /\ query + prompt + MaxNew > PositionLimit
    <3>1. Raise("pastPositionLimit")
      BY <2>5, Zenon DEF PlanRecall, out, query, prompt
    <3> QED BY <2>1, <3>1
  <2>6. CASE ~(gen.fact /\ gen.vector = NoValue) /\ TemplateFollows(out) /\ ~(c.fact /\ FirstLine(out) = 0)
             /\ ~(query + prompt + MaxNew > PositionLimit) /\ ~(c.gap = 0 /\ ~StructurallyEqual(recalling, Len(history), prompt))
    BY <2>6, Zenon DEF PlanRecall, out, query, prompt, of, history, given
  <2>7. CASE ~(gen.fact /\ gen.vector = NoValue) /\ TemplateFollows(out) /\ ~(c.fact /\ FirstLine(out) = 0)
             /\ ~(query + prompt + MaxNew > PositionLimit) /\ c.gap = 0 /\ ~StructurallyEqual(recalling, Len(history), prompt)
    <3>1. Refuse(Len(history))
      BY <2>7, Zenon DEF PlanRecall, out, query, prompt, of, history, given
    <3> QED BY <1>12, <2>7, <3>1, Zenon
  <2> QED BY <2>2, <2>3, <2>4, <2>5, <2>6, <2>7, Zenon
<1>14. CASE (\E why \in GoodFailures : Raise(why)) \/ (Len(history) > Window /\ Refuse(Len(history)))
  BY <1>1, <1>14, Raises, RefusesLongHistories, Zenon
<1>15. CASE ~((\E why \in GoodFailures : Raise(why)) \/ (Len(history) > Window /\ Refuse(Len(history))))
  <2>1. PICK answer \in Answers, same \in NumericalResults(c) :
          /\ gen' = Call(given, "split", FALSE, of, prompt, query, answer, MaxNew, 0, FALSE)
          /\ caches' = recalling
          /\ program' = [program EXCEPT !.at = "recall", !.result = [passed |-> same, closest |-> closest, first |-> 0]]
          /\ UNCHANGED <<setup, files, starts>>
    BY <1>13, <1>15, Zenon
  <2>2. c.fact => FirstLine(out) # 0
    BY <1>13, <1>15, Zenon
  <2>3. answer \in Seq(Tokens) /\ MaxNew <= Len(answer) /\ MaxNew \in Nat \ {0} /\ 0 \in Nat /\ 0 <= Window /\ 0 <= MaxNew
        /\ FALSE \in BOOLEAN
    BY AnswerAssumption
  <2>4. Started(gen', caches', given, "split", of, prompt, query, answer, MaxNew, 0, FALSE)
    <3>1. DOMAIN given \subseteq CacheNames /\ "split" \in DOMAIN given
      BY <1>10 DEF CacheNames
    <3>2. Startable(given, "split", FALSE, of, prompt, query, answer, MaxNew, 0, FALSE)
      BY <1>6, <1>8, <1>10, <2>3, <3>1, Zenon DEF Startable
    <3>3. Started(Call(given, "split", FALSE, of, prompt, query, answer, MaxNew, 0, FALSE), recalling,
                  given, "split", of, prompt, query, answer, MaxNew, 0, FALSE)
      BY <3>2, CallStarts, Zenon
    <3> QED BY <2>1, <3>3
  <2> HIDE DEF recalling, c, closest
  <2>5. /\ CallGood(caches'["split"], gen')
        /\ StartedWith(gen', "split", Len(history), query, prompt, of, answer, MaxNew, 0, FALSE)
        /\ caches' \in [DOMAIN given -> Seq(Key)] /\ DOMAIN caches' = {"split", "continuous"}
        /\ Begins(history, caches'["split"])
    <3>1. /\ CallGood(caches'["split"], gen')
          /\ StartedWith(gen', "split", Len(given["split"]), query, prompt, of, answer, MaxNew, 0, FALSE)
          /\ caches' \in [DOMAIN given -> Seq(Key)] /\ DOMAIN caches' = DOMAIN given
          /\ Begins(given["split"], caches'["split"])
      BY <2>4, Zenon DEF Started
    <3> QED BY <1>10, <3>1
  <2>6. /\ IsProgram(program') /\ program'.at = "recall" /\ program'.condition = program.condition
        /\ program'.result = [passed |-> same, closest |-> closest, first |-> 0] /\ program'.failure = program.failure
    <3> DEFINE after == program'
               result == [passed |-> same, closest |-> closest, first |-> 0]
    <3>1. after = [program EXCEPT !.at = "recall", !.result = result]
      BY <2>1
    <3> HIDE DEF after, result
    <3>2. ProgramFields(after, "recall", program.row, program.position, program.branch, program.main,
                      program.meta, program.vectors, program.condition, result, program.failure)
      BY <1>1, <3>1, ProgramResulted, Zenon
    <3>3. /\ IsProgram(after) /\ after.at = "recall" /\ after.condition = program.condition
          /\ after.result = result /\ after.failure = program.failure
      BY <3>2 DEF ProgramFields, IsProgram
    <3> QED BY <3>3, Zenon DEF after, result
  <2>7. Rows' = Rows /\ setup' = setup /\ FilesGood' /\ ProgramGood'
    <3>1. program.at # "idle"
      BY <1>2, UnderWay
    <3> QED BY <1>1, <2>1, <2>6, <3>1, FilesKept, FailureStays, Zenon DEF Rows
  <2>8. gen'.on = "split" /\ gen'.prefix = Len(history) /\ gen'.start = query
    BY <2>5, Zenon DEF StartedWith
  <2>9. GenGood'
    <3>1. CachesType'
      BY <1>10, <2>5 DEF CachesType, CacheNames
    <3> QED BY <2>5, <2>8, <3>1 DEF GenGood
  <2>10. Planned(c, caches'["split"], gen', closest)
    <3> DEFINE cache == caches'["split"]
               call == gen'
    <3>1. \A k \in 1..(n + Len(out)) : cache[k] = history[k]
      <4>1. n + Len(out) = Len(history) /\ Begins(history, cache)
        BY <1>7, <2>5, Zenon
      <4> HIDE DEF cache
      <4> QED BY <4>1, Zenon DEF Begins
    <3>2. call.prefix = n + Len(out) /\ call.start = QueryStart(c, n, out)
      BY <1>7, <2>8, Zenon DEF query, c, n, out
    <3>3. closest = ClosestBodyPosition(c, n, out)
      BY Zenon DEF closest, c, n, out
    <3> HIDE DEF cache, call
    <3>4. \A k \in 1..(n + Len(out)) : cache[k] = KeyAt(gen.of, c.start, n, out, k)
      BY <1>7, <3>1, Zenon
    <3>5. PlannedFrom(c, cache, call, closest, n, out, gen.of)
      BY <1>5, <2>2, <3>2, <3>3, <3>4, Zenon DEF PlannedFrom
    <3>6. Planned(c, cache, call, closest)
      BY <1>5, <3>5, Zenon DEF Planned
    <3> QED BY <3>6, Zenon DEF cache, call
  <2>11. AtRecall'
    <3>1. program'.result.passed = same /\ program'.result.closest = closest /\ program'.result.first = 0
      BY <2>6
    <3>2. program'.condition = c /\ c \in Conditions
      BY <1>3, <2>6, Zenon DEF c
    <3> QED BY <2>5, <2>6, <2>8, <2>10, <3>1, <3>2 DEF AtRecall
  <2>12. PlaceGood'
    BY <2>6, <2>11, Zenon DEF PlaceGood, At
  <2> QED BY <1>1, <2>7, <2>9, <2>12, Arrives, Zenon
<1> QED BY <1>14, <1>15

LEMMA ProgramMeasured ==
  ASSUME NEW p, IsProgram(p), NEW x, NEW v, NEW next, next = [p EXCEPT !.at = x, !.result.first = v]
  PROVE  ProgramFields(next, x, p.row, p.position, p.branch, p.main, p.meta, p.vectors, p.condition,
                       [p.result EXCEPT !.first = v], p.failure)
BY DEF IsProgram, ProgramFields

LEMMA EndConditionKeepsInv ==
  ASSUME AnswerInv, EndCondition
  PROVE  AnswerInv'
<1> DEFINE line == IF program.condition.fact THEN FirstLine(gen.out) ELSE 0
           first == FirstBodyQuery(gen, line)
<1>1. SetupGood /\ GenGood /\ FilesGood /\ ProgramGood /\ PlaceGood /\ IsProgram(program)
  BY InvParts, Zenon
<1>2. At("recall") /\ Ended(gen)
  BY Zenon DEF EndCondition, Returned
<1>3. AtRecall
  BY <1>1, <1>2, PlaceIs, Zenon
<1>4. CASE program.condition.fact /\ line = 0
  <2>1. Raise("noFirstLine")
    BY <1>4, Zenon DEF EndCondition
  <2> QED BY <1>1, <2>1, Raises, Zenon DEF GoodFailures
<1>5. CASE ~(program.condition.fact /\ line = 0)
  <2>1. /\ program' = [program EXCEPT !.at = "measured", !.result.first = first]
        /\ UNCHANGED <<setup, caches, gen, files, starts>>
    BY <1>5, Zenon DEF EndCondition
  <2> HIDE DEF line, first
  <2> DEFINE result == [program.result EXCEPT !.first = first]
  <2>2. /\ IsProgram(program') /\ program'.at = "measured" /\ program'.condition = program.condition
        /\ program'.result = result /\ program'.failure = program.failure
    <3> DEFINE after == program'
    <3>1. after = [program EXCEPT !.at = "measured", !.result.first = first]
      BY <2>1
    <3> HIDE DEF after
    <3>2. ProgramFields(after, "measured", program.row, program.position, program.branch, program.main,
                      program.meta, program.vectors, program.condition, [program.result EXCEPT !.first = first], program.failure)
      BY <1>1, <3>1, ProgramMeasured, Zenon
    <3> HIDE DEF result
    <3>3. ProgramFields(after, "measured", program.row, program.position, program.branch, program.main,
                      program.meta, program.vectors, program.condition, result, program.failure)
      BY <3>2, Zenon DEF result
    <3>4. /\ IsProgram(after) /\ after.at = "measured" /\ after.condition = program.condition
          /\ after.result = result /\ after.failure = program.failure
      BY <3>3 DEF ProgramFields, IsProgram
    <3> QED BY <3>4, Zenon DEF after
  <2>3. /\ result = [passed |-> program.result.passed, closest |-> program.result.closest, first |-> first]
        /\ result.closest = program.result.closest /\ result.first = first /\ result.passed = program.result.passed
    <3>1. program.result = [passed |-> program.result.passed, closest |-> program.result.closest, first |-> program.result.first]
      BY <1>3, Zenon DEF AtRecall
    <3> DEFINE old == program.result
    <3>2. old = [passed |-> old.passed, closest |-> old.closest, first |-> old.first]
      BY <3>1, Zenon
    <3> HIDE DEF old
    <3> DEFINE new == [old EXCEPT !.first = first]
    <3>3. new = [passed |-> old.passed, closest |-> old.closest, first |-> first]
      BY <3>2
    <3> HIDE DEF new
    <3>4. new.passed = old.passed /\ new.closest = old.closest /\ new.first = first
      BY <3>3
    <3> QED BY <3>3, <3>4, Zenon DEF new, old
  <2> HIDE DEF result
  <2>4. Rows' = Rows /\ setup' = setup /\ FilesGood' /\ ProgramGood' /\ GenGood'
    <3>1. program.at # "idle"
      BY <1>2, UnderWay
    <3> QED BY <1>1, <2>1, <2>2, <3>1, FilesKept, FailureStays, Zenon DEF Rows, GenGood, CachesType, Calling
  <2>5. AtRecall'
    <3>1. gen' = gen /\ caches' = caches
      BY <2>1, Zenon
    <3>2. /\ DOMAIN caches = {"split", "continuous"} /\ program.condition \in Conditions /\ gen.on = "split"
          /\ Planned(program.condition, caches["split"], gen, program.result.closest)
      BY <1>3, Zenon DEF AtRecall
    <3> QED BY <2>2, <2>3, <3>1, <3>2 DEF AtRecall
  <2>6. AtMeasured'
    <3>1. gen' = gen /\ program'.condition = program.condition
      BY <2>1, <2>2, Zenon
    <3>2. program.condition.fact => line # 0
      BY <1>5, Zenon
    <3>3. program'.result.first = FirstBodyQuery(gen, line)
      BY <2>2, <2>3, Zenon DEF first
    <3> QED BY <1>2, <2>5, <3>1, <3>2, <3>3 DEF AtMeasured, line
  <2>7. PlaceGood'
    BY <2>2, <2>6, Zenon DEF PlaceGood, At
  <2> QED BY <1>1, <2>4, <2>7, Arrives, Zenon
<1> QED BY <1>4, <1>5, Zenon

------------------------------------------------------------------------------
(* The blocks of a replay, by position.                                     *)

\* Different numbers can be counted in their order.
Increasing(g, n) == \A i, j \in 1..n : i < j => g[i] < g[j]

Ordered(g, f, n) ==
  /\ \A i \in 1..n : \E j \in 1..n : g[i] = f[j]
  /\ Increasing(g, n)

Orderable(m) ==
  \A n \in Nat : \A f \in [1..n -> 1..m] : IsInjective(f) => \E g \in [1..n -> 1..m] : Ordered(g, f, n)

LEMMA OrderedWithLast ==
  ASSUME NEW m \in Nat, NEW n \in Nat, NEW f \in [1..n -> 1..(m + 1)], IsInjective(f), Orderable(m),
         NEW k \in 1..n, f[k] = m + 1
  PROVE  \E g \in [1..n -> 1..(m + 1)] : Ordered(g, f, n)
<1> DEFINE h == [i \in 1..(n - 1) |-> IF i = k THEN f[n] ELSE f[i]]
<1>1. \A a, b \in 1..n : f[a] = f[b] => a = b
  BY DEF IsInjective
<1>2. n - 1 \in Nat /\ h \in [1..(n - 1) -> 1..m]
  <2>1. n - 1 \in Nat
    OBVIOUS
  <2>2. \A i \in 1..(n - 1) : (IF i = k THEN f[n] ELSE f[i]) \in 1..m
    <3> TAKE i \in 1..(n - 1)
    <3>1. i \in 1..n /\ n \in 1..n /\ i # n
      OBVIOUS
    <3>2. CASE i = k
      <4>1. f[n] # m + 1
        BY <1>1, <3>1, <3>2
      <4>2. f[n] \in 1..(m + 1)
        BY <3>1
      <4> QED BY <3>2, <4>1, <4>2
    <3>3. CASE i # k
      <4>1. f[i] # m + 1
        BY <1>1, <3>1, <3>3
      <4>2. f[i] \in 1..(m + 1)
        BY <3>1
      <4> QED BY <3>3, <4>1, <4>2
    <3> QED BY <3>2, <3>3
  <2> QED BY <2>1, <2>2
<1>3. IsInjective(h)
  <2> SUFFICES ASSUME NEW a \in 1..(n - 1), NEW b \in 1..(n - 1), h[a] = h[b] PROVE a = b
    BY DEF IsInjective
  <2>1. a \in 1..n /\ b \in 1..n /\ n \in 1..n /\ a # n /\ b # n
    OBVIOUS
  <2> QED BY <1>1, <2>1
<1>4. \A i \in 1..(n - 1) : \E j \in 1..n : h[i] = f[j]
  <2> TAKE i \in 1..(n - 1)
  <2>1. i \in 1..n /\ n \in 1..n
    OBVIOUS
  <2> QED BY <2>1
<1> HIDE DEF h
<1>5. PICK g \in [1..(n - 1) -> 1..m] : Ordered(g, h, n - 1)
  BY <1>2, <1>3, Zenon DEF Orderable
<1> DEFINE w == [i \in 1..n |-> IF i = n THEN m + 1 ELSE g[i]]
<1>6. w \in [1..n -> 1..(m + 1)]
  <2>1. \A i \in 1..n : (IF i = n THEN m + 1 ELSE g[i]) \in 1..(m + 1)
    <3> TAKE i \in 1..n
    <3>1. i # n => g[i] \in 1..m
      OBVIOUS
    <3> QED BY <3>1
  <2> QED BY <2>1
<1>7. \A i \in 1..n : \E j \in 1..n : w[i] = f[j]
  <2> TAKE i \in 1..n
  <2>1. CASE i = n
    BY <2>1
  <2>2. CASE i # n
    <3>1. i \in 1..(n - 1)
      BY <2>2
    <3>2. \E j \in 1..(n - 1) : g[i] = h[j]
      BY <1>5, <3>1, Zenon DEF Ordered
    <3>3. \E j \in 1..n : g[i] = f[j]
      BY <1>4, <3>2
    <3> QED BY <2>2, <3>3
  <2> QED BY <2>1, <2>2
<1>8. Increasing(w, n)
  <2> SUFFICES ASSUME NEW i \in 1..n, NEW j \in 1..n, i < j PROVE w[i] < w[j]
    BY DEF Increasing
  <2>1. i \in 1..(n - 1) /\ w[i] = g[i] /\ g[i] \in 1..m
    <3>1. i \in 1..(n - 1) /\ i # n
      OBVIOUS
    <3> QED BY <3>1
  <2>2. CASE j = n
    BY <2>1, <2>2
  <2>3. CASE j # n
    <3>1. j \in 1..(n - 1) /\ w[j] = g[j]
      BY <2>3
    <3>2. g[i] < g[j]
      BY <1>5, <2>1, <3>1, Zenon DEF Ordered, Increasing
    <3> QED BY <2>1, <3>1, <3>2
  <2> QED BY <2>2, <2>3
<1> HIDE DEF w
<1> QED BY <1>6, <1>7, <1>8, Zenon DEF Ordered

LEMMA AllOrderable ==
  ASSUME NEW m \in Nat
  PROVE  Orderable(m)
<1> DEFINE S == {x \in Nat : Orderable(x)}
<1>1. 0 \in S
  <2> SUFFICES ASSUME NEW n \in Nat, NEW f \in [1..n -> 1..0] PROVE \E g \in [1..n -> 1..0] : Ordered(g, f, n)
    BY DEF Orderable
  <2>1. n = 0
    <3> SUFFICES ASSUME n # 0 PROVE FALSE
      OBVIOUS
    <3>1. 1 \in 1..n
      OBVIOUS
    <3>2. f[1] \in 1..0
      BY <3>1
    <3> QED BY <3>2
  <2>2. Ordered(f, f, n)
    BY <2>1 DEF Ordered, Increasing
  <2> QED BY <2>2
<1>2. \A x \in S : x + 1 \in S
  <2> TAKE x \in S
  <2>0. x \in Nat /\ Orderable(x) /\ x + 1 \in Nat
    OBVIOUS
  <2> SUFFICES ASSUME NEW n \in Nat, NEW f \in [1..n -> 1..(x + 1)], IsInjective(f)
      PROVE \E g \in [1..n -> 1..(x + 1)] : Ordered(g, f, n)
    BY <2>0, Zenon DEF Orderable
  <2>1. CASE \E k \in 1..n : f[k] = x + 1
    BY <2>0, <2>1, OrderedWithLast, Zenon
  <2>2. CASE ~\E k \in 1..n : f[k] = x + 1
    <3>1. f \in [1..n -> 1..x]
      <4>1. \A i \in 1..n : f[i] \in 1..x
        BY <2>0, <2>2
      <4> QED BY <4>1
    <3>2. PICK g \in [1..n -> 1..x] : Ordered(g, f, n)
      BY <2>0, <3>1, Zenon DEF Orderable
    <3>3. g \in [1..n -> 1..(x + 1)]
      <4>1. \A i \in 1..n : g[i] \in 1..(x + 1)
        BY <2>0
      <4> QED BY <4>1
    <3> QED BY <3>2, <3>3
  <2> QED BY <2>1, <2>2
<1>3. S = Nat
  <2>1. S \in SUBSET Nat
    OBVIOUS
  <2> HIDE DEF S
  <2> QED BY <1>1, <1>2, <2>1, AllNumbers, Zenon
<1>4. m \in S
  <2> HIDE DEF S
  <2> QED BY <1>3
<1> QED BY <1>4

\* Descriptions are ordered as their rows.
LEMMA EarlierIs ==
  ASSUME NEW c \in Corpora, NEW r \in 1..Len(c), NEW q \in 1..Len(c)
  PROVE  Earlier(MetaOf(c, r), MetaOf(c, q)) <=> r < q
<1> DEFINE p == PlacesOf(c)
<1>1. \A x \in 1..Len(c) : MetaOf(c, x).positions[1] = p[x] + c[x].prompt /\ p[x] \in Nat /\ c[x].prompt \in Nat
        /\ Taken(c[x].main, MaxNew) \in Nat /\ c[x].prompt > 0
  <2> TAKE x \in 1..Len(c)
  <2>1. p[x] \in Nat /\ c[x].prompt \in Nat \ {0} /\ BlockLength(c, x) \in Nat \ {0} /\ Taken(c[x].main, MaxNew) \in Nat
    BY PositionIs, Zenon
  <2> DEFINE l == BlockLength(c, x)
             b == p[x] + c[x].prompt
             a == p[x]
             n == c[x].prompt
  <2>2. a \in Nat /\ n \in Nat /\ n > 0 /\ l \in Nat /\ 1 \in 1..l /\ b = a + n
    BY <2>1
  <2>3. BlockPositions(c, x) = [i \in 1..l |-> b + i - 1]
    BY Zenon DEF BlockPositions, Spaced
  <2>4. MetaOf(c, x).positions = BlockPositions(c, x)
    BY DEF MetaOf
  <2> HIDE DEF l, b, a, n
  <2>5. BlockPositions(c, x)[1] = b
    BY <2>2, <2>3
  <2> QED BY <2>1, <2>2, <2>4, <2>5, Zenon DEF b, n
<1>2. Earlier(MetaOf(c, r), MetaOf(c, q)) <=> p[r] + c[r].prompt < p[q] + c[q].prompt
  BY <1>1, Zenon DEF Earlier
<1>3. ASSUME NEW x \in 1..Len(c), NEW y \in 1..Len(c), x < y
      PROVE  p[x] + c[x].prompt < p[y] + c[y].prompt
  <2>1. p[x] + c[x].prompt + Taken(c[x].main, MaxNew) <= p[y]
    <3>1. y \in 1..(Len(c) + 1)
      BY CorpusLength
    <3> QED BY <1>3, <3>1, PlacesGrow, Zenon
  <2> DEFINE a == p[x]
             b == c[x].prompt
             t == Taken(c[x].main, MaxNew)
             d == p[y]
             e == c[y].prompt
  <2>2. a \in Nat /\ b \in Nat /\ t \in Nat /\ d \in Nat /\ e \in Nat /\ e > 0
    BY <1>1, Zenon
  <2>3. a + b + t <= d
    BY <2>1
  <2> HIDE DEF a, b, t, d, e
  <2>4. a + b < d + e
    BY <2>2, <2>3
  <2> QED BY <2>4 DEF a, b, d, e
<1>4. CASE r < q
  BY <1>2, <1>3, <1>4
<1>5. CASE q < r
  <2> DEFINE a == p[r] + c[r].prompt
             b == p[q] + c[q].prompt
  <2>1. b < a
    BY <1>3, <1>5
  <2>2. a \in Nat /\ b \in Nat
    <3>1. p[r] \in Nat /\ c[r].prompt \in Nat /\ p[q] \in Nat /\ c[q].prompt \in Nat
      BY <1>1, Zenon
    <3> DEFINE a1 == p[r]
               a2 == c[r].prompt
               b1 == p[q]
               b2 == c[q].prompt
    <3>2. a = a1 + a2 /\ b = b1 + b2
      BY Zenon
    <3>3. a1 \in Nat /\ a2 \in Nat /\ b1 \in Nat /\ b2 \in Nat
      BY <3>1, Zenon
    <3> HIDE DEF a, b, a1, a2, b1, b2
    <3> QED BY <3>2, <3>3
  <2> HIDE DEF a, b
  <2>3. ~(a < b)
    BY <2>1, <2>2
  <2>4. ~(r < q)
    BY <1>5, CorpusLength
  <2> QED BY <1>2, <2>3, <2>4, Zenon DEF a, b
<1>6. CASE r = q
  <2> DEFINE a == p[r] + c[r].prompt
  <2>1. a \in Nat
    BY <1>1
  <2> HIDE DEF a
  <2>2. ~(a < a) /\ ~(r < q)
    BY <1>6, <2>1, CorpusLength
  <2> QED BY <1>2, <1>6, <2>2 DEF a
<1>7. r < q \/ q < r \/ r = q
  BY CorpusLength
<1> QED BY <1>4, <1>5, <1>6, <1>7

\* The blocks chosen, by position: increasing rows.
ByRows(c, s, n, g) ==
  /\ g \in [1..n -> 1..Len(c)] /\ Increasing(g, n) /\ DOMAIN s = 1..n /\ Len(s) = n
  /\ \A i \in 1..n : s[i] = MetaOf(c, g[i])

LEMMA ByPositionIs ==
  ASSUME NEW c \in Corpora, NEW meta, MetaGood(c, meta, Len(c)), NEW chosen \in TopBlocks(meta)
  PROVE  \E n \in Nat : \E g : ByRows(c, ByPosition(meta, chosen), n, g)
<1> DEFINE L == Len(c)
           n == IF TopN < Len(meta) THEN TopN ELSE Len(meta)
           D == {meta[chosen[i]] : i \in DOMAIN chosen}
           sorted(s) == \A i, j \in DOMAIN s : i < j => Earlier(s[i], s[j])
<1>1. L \in Nat /\ Len(meta) = L /\ \A i \in 1..L : meta[i] = MetaOf(c, i)
  BY CorpusLength, Zenon DEF MetaGood
<1>2. n \in Nat
  BY <1>1, AnswerAssumption
<1>3. chosen \in [1..n -> 1..L] /\ IsInjective(chosen)
  BY <1>1, Zenon DEF TopBlocks
<1> HIDE DEF n, L
<1>4. PICK g \in [1..n -> 1..L] : Ordered(g, chosen, n)
  BY <1>1, <1>2, <1>3, AllOrderable, Zenon DEF Orderable
<1>5. DOMAIN chosen = 1..n
  BY <1>3
<1> DEFINE s0 == [i \in 1..n |-> meta[g[i]]]
<1>6. s0 \in [DOMAIN chosen -> D]
  <2>1. \A i \in 1..n : meta[g[i]] \in D
    <3> TAKE i \in 1..n
    <3>1. PICK j \in 1..n : g[i] = chosen[j]
      BY <1>4, Zenon DEF Ordered
    <3> QED BY <1>5, <3>1
  <2> HIDE DEF D
  <2> QED BY <1>5, <2>1
<1>7. sorted(s0)
  <2> SUFFICES ASSUME NEW i \in 1..n, NEW j \in 1..n, i < j PROVE Earlier(s0[i], s0[j])
    OBVIOUS
  <2>1. g[i] < g[j] /\ g[i] \in 1..L /\ g[j] \in 1..L
    BY <1>4 DEF Ordered, Increasing
  <2>2. s0[i] = MetaOf(c, g[i]) /\ s0[j] = MetaOf(c, g[j])
    BY <1>1, <2>1
  <2> QED BY <2>1, <2>2, EarlierIs DEF L
<1> DEFINE s == ByPosition(meta, chosen)
<1>8. s \in [DOMAIN chosen -> D] /\ sorted(s)
  <2>1. s = CHOOSE t \in [DOMAIN chosen -> D] : sorted(t)
    BY Zenon DEF ByPosition
  <2>2. \E t \in [DOMAIN chosen -> D] : sorted(t)
    BY <1>6, <1>7, Zenon
  <2> HIDE DEF D, s
  <2> QED BY <2>1, <2>2, Zenon
<1> HIDE DEF s
<1>9. \A i \in 1..n : \E x \in 1..L : s[i] = MetaOf(c, x)
  <2> TAKE i \in 1..n
  <2>1. s[i] \in D
    <3> HIDE DEF D
    <3> QED BY <1>5, <1>8
  <2>2. PICK j \in DOMAIN chosen : s[i] = meta[chosen[j]]
    BY <2>1
  <2>3. chosen[j] \in 1..L
    BY <1>3, <1>5, <2>2
  <2> QED BY <1>1, <2>2, <2>3
<1> DEFINE w == [i \in 1..n |-> CHOOSE x \in 1..L : s[i] = MetaOf(c, x)]
<1>10. \A i \in 1..n : w[i] \in 1..L /\ s[i] = MetaOf(c, w[i])
  BY <1>9
<1>11. w \in [1..n -> 1..L]
  BY <1>10
<1> HIDE DEF w
<1>12. Increasing(w, n)
  <2> SUFFICES ASSUME NEW i \in 1..n, NEW j \in 1..n, i < j PROVE w[i] < w[j]
    BY DEF Increasing
  <2>1. DOMAIN s = 1..n
    <3> HIDE DEF D
    <3> QED BY <1>5, <1>8
  <2>2. Earlier(s[i], s[j])
    BY <1>8, <2>1
  <2> QED BY <1>10, <2>2, EarlierIs DEF L
<1>13. DOMAIN s = 1..n /\ Len(s) = n
  <2> HIDE DEF D
  <2>1. s \in [1..n -> D]
    BY <1>5, <1>8
  <2> QED BY <1>2, <2>1
<1>14. ByRows(c, s, n, w)
  BY <1>10, <1>11, <1>12, <1>13, Zenon DEF ByRows, L
<1> QED BY <1>2, <1>14, Zenon DEF s

\* The sequences put one after the other.
IsFlat(f, seqs, n) == f = [i \in 1..n |-> IF i = 1 THEN seqs[i] ELSE f[i - 1] \o seqs[i]]

LEMMA FlatExists ==
  ASSUME NEW seqs, NEW n \in Nat
  PROVE  \E f : IsFlat(f, seqs, n)
<1> DEFINE S == {m \in Nat : \E f : IsFlat(f, seqs, m)}
<1>1. 0 \in S
  <2> DEFINE f == [i \in 1..0 |-> seqs[i]]
  <2>1. f = [i \in 1..0 |-> IF i = 1 THEN seqs[i] ELSE f[i - 1] \o seqs[i]]
    OBVIOUS
  <2> HIDE DEF f
  <2>2. IsFlat(f, seqs, 0)
    BY <2>1, Zenon DEF IsFlat
  <2> QED BY <2>2
<1>2. \A m \in S : m + 1 \in S
  <2> TAKE m \in S
  <2>1. m \in Nat /\ m + 1 \in Nat
    OBVIOUS
  <2>2. PICK f : IsFlat(f, seqs, m)
    OBVIOUS
  <2>3. f = [i \in 1..m |-> IF i = 1 THEN seqs[i] ELSE f[i - 1] \o seqs[i]]
    BY <2>2, Zenon DEF IsFlat
  <2> DEFINE w == [i \in 1..(m + 1) |-> IF i <= m THEN f[i] ELSE IF i = 1 THEN seqs[i] ELSE f[i - 1] \o seqs[i]]
             v == [i \in 1..(m + 1) |-> IF i = 1 THEN seqs[i] ELSE w[i - 1] \o seqs[i]]
  <2>4. \A i \in 1..(m + 1) : w[i] = v[i]
    <3> TAKE i \in 1..(m + 1)
    <3>1. i \in Nat /\ i >= 1 /\ (i # 1 => i - 1 \in 1..m /\ i - 1 \in 1..(m + 1) /\ i - 1 <= m)
      BY <2>1
    <3>2. i # 1 => w[i - 1] = f[i - 1]
      BY <3>1
    <3>3. CASE i <= m
      <4>1. i \in 1..m /\ w[i] = f[i]
        BY <3>1, <3>3
      <4>2. f[i] = (IF i = 1 THEN seqs[i] ELSE f[i - 1] \o seqs[i])
        <5> HIDE DEF w, v
        <5> QED BY <2>3, <4>1, Zenon
      <4>3. v[i] = (IF i = 1 THEN seqs[i] ELSE w[i - 1] \o seqs[i])
        <5> HIDE DEF w
        <5> QED BY Zenon
      <4> HIDE DEF w, v
      <4> QED BY <3>2, <4>1, <4>2, <4>3, Zenon
    <3>4. CASE ~(i <= m)
      <4>1. w[i] = (IF i = 1 THEN seqs[i] ELSE f[i - 1] \o seqs[i])
        BY <3>4, Zenon
      <4>2. v[i] = (IF i = 1 THEN seqs[i] ELSE w[i - 1] \o seqs[i])
        <5> HIDE DEF w
        <5> QED BY Zenon
      <4> HIDE DEF w, v
      <4> QED BY <3>2, <4>1, <4>2, Zenon
    <3> QED BY <3>3, <3>4
  <2>5. w = v
    <3> DEFINE D == 1..(m + 1)
               R == {w[i] : i \in D} \cup {v[i] : i \in D}
               wi(i) == IF i <= m THEN f[i] ELSE IF i = 1 THEN seqs[i] ELSE f[i - 1] \o seqs[i]
               vi(i) == IF i = 1 THEN seqs[i] ELSE w[i - 1] \o seqs[i]
    <3>1. w = [i \in D |-> wi(i)] /\ v = [i \in D |-> vi(i)]
      BY Zenon
    <3> HIDE DEF w, v, D, wi, vi
    <3>2. w \in [D -> R] /\ v \in [D -> R]
      BY <3>1
    <3> HIDE DEF R
    <3> QED BY <2>4, <3>2 DEF D
  <2>6. IsFlat(w, seqs, m + 1)
    <3> HIDE DEF w
    <3> QED BY <2>5, Zenon DEF IsFlat
  <2> QED BY <2>1, <2>6
<1>3. S = Nat
  <2>1. S \in SUBSET Nat
    OBVIOUS
  <2> HIDE DEF S
  <2> QED BY <1>1, <1>2, <2>1, AllNumbers, Zenon
<1> QED BY <1>3

\* Keys of earlier positions and of later ones.
LEMMA PrefixesJoin ==
  ASSUME NEW s \in Seq(Key), NEW t \in Seq(Key), PrefixGood(s, Len(s)), PrefixGood(t, Len(t)), NEW b \in Nat,
         \A k \in 1..Len(s) : s[k].pos < b, \A k \in 1..Len(t) : t[k].pos >= b
  PROVE  (s \o t) \in Seq(Key) /\ PrefixGood(s \o t, Len(s \o t))
<1> DEFINE u == s \o t
           m == Len(s)
           n == Len(t)
<1>1. u \in Seq(Key) /\ Begins(s, u) /\ EndsWith(s, t, u)
  BY Joined, Zenon
<1>2. m \in Nat /\ n \in Nat /\ Len(u) = m + n /\ (\A i \in 1..m : u[i] = s[i]) /\ \A i \in 1..n : u[m + i] = t[i]
  <2>1. m \in Nat /\ n \in Nat
    OBVIOUS
  <2> QED BY <1>1, <2>1, Zenon DEF Begins, EndsWith
<1>3. /\ (\A i \in 1..m : s[i].of.branch = "main") /\ (\A i \in 1..n : t[i].of.branch = "main")
      /\ (\A i \in 1..(m - 1) : s[i].pos < s[i + 1].pos) /\ \A i \in 1..(n - 1) : t[i].pos < t[i + 1].pos
  BY Zenon DEF PrefixGood
<1>4. (\A k \in 1..m : s[k].pos < b /\ s[k].pos \in Nat) /\ \A k \in 1..n : t[k].pos >= b /\ t[k].pos \in Nat
  <2>1. (\A k \in 1..m : s[k] \in Key) /\ \A k \in 1..n : t[k] \in Key
    OBVIOUS
  <2>2. \A k : k \in Key => k.pos \in Nat
    BY DEF Key
  <2> HIDE DEF m, n
  <2> QED BY <2>1, <2>2 DEF m, n
<1> HIDE DEF u, m, n
<1>5. \A i \in 1..(m + n) : i \in 1..m \/ (i - m \in 1..n /\ m + (i - m) = i)
  BY <1>2
<1>6. \A i \in 1..(m + n) : u[i].of.branch = "main"
  <2> TAKE i \in 1..(m + n)
  <2>1. CASE i \in 1..m
    BY <1>2, <1>3, <2>1
  <2>2. CASE i - m \in 1..n /\ m + (i - m) = i
    <3>1. u[i] = t[i - m]
      BY <1>2, <2>2
    <3> QED BY <1>3, <2>2, <3>1
  <2> QED BY <1>5, <2>1, <2>2
<1>7. \A i \in 1..((m + n) - 1) : u[i].pos < u[i + 1].pos
  <2> TAKE i \in 1..((m + n) - 1)
  <2>1. CASE i < m
    <3>1. i \in 1..(m - 1) /\ i \in 1..m /\ i + 1 \in 1..m
      BY <1>2, <2>1
    <3>2. u[i] = s[i] /\ u[i + 1] = s[i + 1]
      BY <1>2, <3>1
    <3> QED BY <1>3, <3>1, <3>2
  <2>2. CASE i = m
    <3>1. i \in 1..m /\ 1 \in 1..n /\ m + 1 = i + 1
      BY <1>2, <2>2
    <3>2. u[i] = s[i] /\ u[i + 1] = t[1]
      BY <1>2, <3>1
    <3>3. s[i].pos < b /\ t[1].pos >= b /\ s[i].pos \in Nat /\ t[1].pos \in Nat
      BY <1>4, <3>1
    <3> QED BY <3>2, <3>3
  <2>3. CASE i > m
    <3> DEFINE j == i - m
    <3>1. j \in 1..(n - 1) /\ j \in 1..n /\ j + 1 \in 1..n /\ m + j = i /\ m + (j + 1) = i + 1
      BY <1>2, <2>3
    <3> HIDE DEF j
    <3>2. u[i] = t[j] /\ u[i + 1] = t[j + 1]
      BY <1>2, <3>1
    <3> QED BY <1>3, <3>1, <3>2
  <2> QED BY <1>2, <2>1, <2>2, <2>3
<1>8. PrefixGood(u, m + n)
  BY <1>6, <1>7, Zenon DEF PrefixGood
<1> QED BY <1>1, <1>2, <1>8, Zenon DEF u

\* A block's keys are from its row's answer, between its place and the next row's.
LEMMA BlockKeysIn ==
  ASSUME NEW c \in Corpora, NEW r \in 1..Len(c)
  PROVE  /\ BlockKeys(c, r) \in Seq(Key) /\ PrefixGood(BlockKeys(c, r), Len(BlockKeys(c, r)))
         /\ \A k \in 1..Len(BlockKeys(c, r)) :
              /\ BlockKeys(c, r)[k].pos >= PlacesOf(c)[r] /\ BlockKeys(c, r)[k].pos < PlacesOf(c)[r + 1]
              /\ BlockKeys(c, r)[k].pos = PlacesOf(c)[r] + c[r].prompt + k - 1
<1> DEFINE l == BlockLength(c, r)
           a == PlacesOf(c)[r]
           n == c[r].prompt
           t == Taken(c[r].main, MaxNew)
           z == PlacesOf(c)[r + 1]
           ks == BlockKeys(c, r)
<1>1. a \in Nat /\ n \in Nat /\ n > 0 /\ t \in Nat /\ z = a + n + t /\ l \in Nat /\ l <= t
  <2>1. a \in Nat /\ n \in Nat \ {0} /\ t \in Nat /\ z = a + n + t /\ l \in Nat \ {0} /\ l \in 1..t
    BY PositionIs, TakenInRow, Zenon
  <2> HIDE DEF a, n, t, z, l
  <2> QED BY <2>1
<1>2. ks \in Seq(Key) /\ Len(ks) = l
  BY BlockParts, Zenon
<1>3. ks = [i \in 1..l |-> [pos |-> a + n + i - 1, of |-> OwnerOf(r, "main"), token |-> c[r].main[i]]]
  BY Zenon DEF BlockKeys
<1> HIDE DEF a, n, t, z, l, ks
<1>4. \A k \in 1..l : ks[k].pos = a + n + k - 1 /\ ks[k].of = OwnerOf(r, "main")
  BY <1>3
<1>5. OwnerOf(r, "main").branch = "main"
  BY DEF OwnerOf
<1>6. \A k \in 1..l : ks[k].of.branch = "main" /\ ks[k].pos >= a /\ ks[k].pos < z
  <2> TAKE k \in 1..l
  <2>1. ks[k].pos = a + n + k - 1 /\ ks[k].of.branch = "main"
    BY <1>4, <1>5
  <2>2. a + n + k - 1 >= a /\ a + n + k - 1 < z
    BY <1>1
  <2> QED BY <2>1, <2>2
<1>7. \A k \in 1..(l - 1) : ks[k].pos < ks[k + 1].pos
  <2> TAKE k \in 1..(l - 1)
  <2>1. k \in 1..l /\ k + 1 \in 1..l
    BY <1>1
  <2>2. ks[k].pos = a + n + k - 1 /\ ks[k + 1].pos = a + n + (k + 1) - 1
    BY <1>4, <2>1
  <2> QED BY <1>1, <2>2
<1>8. PrefixGood(ks, l)
  BY <1>6, <1>7, Zenon DEF PrefixGood
<1> QED BY <1>2, <1>4, <1>6, <1>8, Zenon DEF a, z, n, ks

FlatGood(c, keys, bound) ==
  keys \in Seq(Key) /\ PrefixGood(keys, Len(keys)) /\ \A k \in 1..Len(keys) : keys[k].pos < bound

\* The blocks of increasing rows, one after the other.
LEMMA BlocksJoin ==
  ASSUME NEW c \in Corpora, NEW n \in Nat, NEW g \in [1..n -> 1..Len(c)], Increasing(g, n),
         NEW seqs, \A i \in 1..n : seqs[i] = BlockKeys(c, g[i]), NEW f, IsFlat(f, seqs, n)
  PROVE  \A i \in 1..n : FlatGood(c, f[i], PlacesOf(c)[g[i] + 1])
<1> DEFINE S == {x \in Nat : x + 1 <= n => FlatGood(c, f[x + 1], PlacesOf(c)[g[x + 1] + 1])}
<1>1. f = [i \in 1..n |-> IF i = 1 THEN seqs[i] ELSE f[i - 1] \o seqs[i]]
  BY Zenon DEF IsFlat
<1>2. \A r \in 1..Len(c) : FlatGood(c, BlockKeys(c, r), PlacesOf(c)[r + 1])
  <2> TAKE r \in 1..Len(c)
  <2> QED BY BlockKeysIn, Zenon DEF FlatGood
<1>3. 0 \in S
  <2> SUFFICES ASSUME 0 + 1 <= n PROVE FlatGood(c, f[0 + 1], PlacesOf(c)[g[0 + 1] + 1])
    OBVIOUS
  <2>1. 0 + 1 = 1 /\ 1 \in 1..n
    OBVIOUS
  <2>2. f[1] = seqs[1]
    BY <1>1, <2>1, Zenon
  <2>3. seqs[1] = BlockKeys(c, g[1]) /\ g[1] \in 1..Len(c)
    BY <2>1
  <2> QED BY <1>2, <2>1, <2>2, <2>3
<1>4. \A x \in S : x + 1 \in S
  <2> TAKE x \in S
  <2>0. x \in Nat /\ x + 1 \in Nat
    OBVIOUS
  <2> SUFFICES ASSUME (x + 1) + 1 <= n PROVE FlatGood(c, f[(x + 1) + 1], PlacesOf(c)[g[(x + 1) + 1] + 1])
    BY <2>0
  <2> DEFINE i == (x + 1) + 1
             h == x + 1
  <2>1. i \in 1..n /\ h \in 1..n /\ i # 1 /\ i - 1 = h /\ h < i /\ h <= n
    BY <2>0
  <2>2. FlatGood(c, f[h], PlacesOf(c)[g[h] + 1])
    BY <2>1
  <2> HIDE DEF i, h, S
  <2>3. f[i] = f[h] \o seqs[i]
    <3>1. f[i] = (IF i = 1 THEN seqs[i] ELSE f[i - 1] \o seqs[i])
      BY <1>1, <2>1, Zenon
    <3> QED BY <2>1, <3>1
  <2>4. g[h] \in 1..Len(c) /\ g[i] \in 1..Len(c) /\ g[h] < g[i] /\ seqs[i] = BlockKeys(c, g[i])
    BY <2>1 DEF Increasing
  <2> DEFINE r == g[h]
             q == g[i]
             b == PlacesOf(c)[r + 1]
             d == PlacesOf(c)[q]
             e == PlacesOf(c)[q + 1]
             s == f[h]
             t == BlockKeys(c, q)
  <2>5. b \in Nat /\ d \in Nat /\ b <= d /\ e \in Nat /\ d <= e
    <3>1. r \in 1..Len(c) /\ q \in 1..Len(c) /\ r < q
      BY <2>4
    <3> HIDE DEF r, q
    <3>2. /\ PlacesOf(c)[r] + c[r].prompt + Taken(c[r].main, MaxNew) <= d
          /\ b = PlacesOf(c)[r] + c[r].prompt + Taken(c[r].main, MaxNew) /\ b \in Nat /\ d \in Nat
          /\ e = d + c[q].prompt + Taken(c[q].main, MaxNew) /\ c[q].prompt \in Nat \ {0}
          /\ Taken(c[q].main, MaxNew) \in Nat
      <4>1. q \in 1..(Len(c) + 1)
        BY <3>1, CorpusLength
      <4> QED BY <3>1, <4>1, PlacesGrow, PositionIs, Zenon
    <3> DEFINE m == c[q].prompt
               y == Taken(c[q].main, MaxNew)
    <3>3. b <= d /\ e = d + m + y /\ m \in Nat /\ y \in Nat /\ b \in Nat /\ d \in Nat
      BY <3>2
    <3> HIDE DEF b, d, e, m, y
    <3> QED BY <3>3
  <2>6. s \in Seq(Key) /\ PrefixGood(s, Len(s)) /\ \A k \in 1..Len(s) : s[k].pos < b
    BY <2>2, Zenon DEF FlatGood
  <2>7. t \in Seq(Key) /\ PrefixGood(t, Len(t)) /\ \A k \in 1..Len(t) : t[k].pos >= d /\ t[k].pos < e
    <3>1. q \in 1..Len(c)
      BY <2>4
    <3> HIDE DEF q
    <3> QED BY <3>1, BlockKeysIn, Zenon
  <2>8. f[i] = s \o t
    BY <2>3, <2>4
  <2>9. (\A k \in 1..Len(s) : s[k] \in Key) /\ (\A k \in 1..Len(t) : t[k] \in Key) /\ \A k : k \in Key => k.pos \in Nat
    <3>1. \A k : k \in Key => k.pos \in Nat
      BY DEF Key
    <3> HIDE DEF s, t
    <3> QED BY <2>6, <2>7, <3>1
  <2> HIDE DEF b, d, e, s, t, r, q
  <2>10. \A k \in 1..Len(t) : t[k].pos >= b
    BY <2>5, <2>7, <2>9
  <2>11. (s \o t) \in Seq(Key) /\ PrefixGood(s \o t, Len(s \o t))
    BY <2>5, <2>6, <2>7, <2>10, PrefixesJoin, Zenon
  <2>12. \A k \in 1..Len(s \o t) : (s \o t)[k].pos < e
    <3> DEFINE u == s \o t
    <3>1. Begins(s, u) /\ EndsWith(s, t, u)
      BY <2>6, <2>7, Joined, Zenon
    <3>2. Len(s) \in Nat /\ Len(t) \in Nat
      BY <2>6, <2>7
    <3> HIDE DEF u
    <3>3. \A k \in 1..Len(u) : u[k].pos < e
      <4> TAKE k \in 1..Len(u)
      <4>0. Len(u) = Len(s) + Len(t)
        BY <3>1, Zenon DEF EndsWith
      <4>1. CASE k <= Len(s)
        <5>1. k \in 1..Len(s) /\ u[k] = s[k]
          BY <3>1, <3>2, <4>1 DEF Begins
        <5>2. s[k].pos < b /\ s[k].pos \in Nat
          BY <2>6, <2>9, <5>1
        <5> QED BY <2>5, <5>1, <5>2
      <4>2. CASE ~(k <= Len(s))
        <5> DEFINE j == k - Len(s)
        <5>1. j \in 1..Len(t) /\ Len(s) + j = k
          BY <3>2, <4>0, <4>2
        <5> HIDE DEF j
        <5>2. u[k] = t[j]
          BY <3>1, <5>1 DEF EndsWith
        <5> QED BY <2>7, <5>1, <5>2
      <4> QED BY <4>1, <4>2
    <3> QED BY <3>3 DEF u
  <2>13. FlatGood(c, f[i], e)
    BY <2>8, <2>11, <2>12 DEF FlatGood
  <2> QED BY <2>13 DEF e, q, i
<1>5. S = Nat
  <2>1. S \in SUBSET Nat
    OBVIOUS
  <2> HIDE DEF S
  <2> QED BY <1>3, <1>4, <2>1, AllNumbers, Zenon
<1>6. \A i \in 1..n : i - 1 \in S /\ (i - 1) + 1 = i /\ (i - 1) + 1 <= n
  <2> HIDE DEF S
  <2> QED BY <1>5
<1> TAKE i \in 1..n
<1> DEFINE x == i - 1
<1>7. x \in S /\ x + 1 = i /\ x + 1 <= n
  BY <1>6, Zenon
<1> HIDE DEF x
<1>8. FlatGood(c, f[x + 1], PlacesOf(c)[g[x + 1] + 1])
  BY <1>7, Zenon
<1> QED BY <1>7, <1>8

------------------------------------------------------------------------------
(* A replay is started.                                                     *)

LEMMA JoinedBlocks ==
  ASSUME NEW c \in Corpora, NEW n \in Nat, NEW g, NEW s, ByRows(c, s, n, g),
         BlocksGood(c, files.blocks), 1..Len(c) \subseteq DOMAIN files.blocks
  PROVE  CatBlockCaches(s) \in Seq(Key) /\ PrefixGood(CatBlockCaches(s), Len(CatBlockCaches(s)))
<1> DEFINE seqs == [i \in 1..Len(s) |-> files.blocks[s[i].row].keys]
           cat == CatBlockCaches(s)
<1>1. /\ g \in [1..n -> 1..Len(c)] /\ Increasing(g, n) /\ DOMAIN s = 1..n /\ Len(s) = n
      /\ \A i \in 1..n : s[i] = MetaOf(c, g[i])
  BY Zenon DEF ByRows
<1>2. \A i \in 1..n : g[i] \in 1..Len(c) /\ s[i].row = g[i]
  <2> TAKE i \in 1..n
  <2>1. g[i] \in 1..Len(c)
    BY <1>1
  <2>2. s[i] = MetaOf(c, g[i])
    BY <1>1
  <2> QED BY <2>1, <2>2 DEF MetaOf
<1>3. \A r \in 1..Len(c) : files.blocks[r].keys = BlockKeys(c, r)
  <2> TAKE r \in 1..Len(c)
  <2>1. files.blocks[r] = BlockOf(c, r)
    BY Zenon DEF BlocksGood
  <2> QED BY <2>1 DEF BlockOf
<1>4. \A i \in 1..n : seqs[i] = BlockKeys(c, g[i]) /\ BlockKeys(c, g[i]) \in Seq(Key)
  <2> TAKE i \in 1..n
  <2>1. seqs[i] = files.blocks[s[i].row].keys
    BY <1>1
  <2>2. BlockKeys(c, g[i]) \in Seq(Key)
    BY <1>2, BlockParts
  <2> QED BY <1>2, <1>3, <2>1, <2>2
<1>5. cat = FlattenSeq(seqs) /\ DOMAIN seqs = 1..n
  BY <1>1 DEF CatBlockCaches
<1> HIDE DEF seqs, cat
<1>6. Len(seqs) = n
  BY <1>5
<1>7. CASE n = 0
  <2>1. cat = seqs
    BY <1>5, <1>6, <1>7, Zenon DEF FlattenSeq
  <2>2. seqs \in Seq(Key)
    <3>1. seqs \in [1..0 -> Key]
      BY <1>5, <1>7
    <3> QED BY <3>1
  <2>3. PrefixGood(seqs, 0)
    BY DEF PrefixGood
  <2> QED BY <1>6, <1>7, <2>1, <2>2, <2>3, Zenon DEF cat
<1>8. CASE n # 0
  <2> DEFINE f == CHOOSE flat : IsFlat(flat, seqs, n)
  <2>1. IsFlat(f, seqs, n)
    BY FlatExists, Zenon
  <2>2. cat = f[n]
    <3> DEFINE h == CHOOSE flat : flat = [i \in 1..Len(seqs) |-> IF i = 1 THEN seqs[i] ELSE flat[i - 1] \o seqs[i]]
    <3>1. FlattenSeq(seqs) = h[Len(seqs)]
      BY <1>6, <1>8, Zenon DEF FlattenSeq
    <3>2. h = f
      BY <1>6, Zenon DEF IsFlat
    <3> HIDE DEF h, f
    <3> QED BY <1>5, <1>6, <3>1, <3>2
  <2> HIDE DEF f
  <2>3. n \in 1..n
    BY <1>8
  <2>4. \A i \in 1..n : FlatGood(c, f[i], PlacesOf(c)[g[i] + 1])
    BY <1>1, <1>4, <2>1, BlocksJoin, Zenon
  <2>5. FlatGood(c, cat, PlacesOf(c)[g[n] + 1])
    BY <2>2, <2>3, <2>4, Zenon
  <2> QED BY <2>5, Zenon DEF FlatGood, cat
<1> QED BY <1>7, <1>8

LEMMA StartReplayKeepsInv ==
  ASSUME AnswerInv, StartReplay
  PROVE  AnswerInv'
<1>1. SetupGood /\ GenGood /\ FilesGood /\ ProgramGood /\ PlaceGood /\ Rows \in Corpora /\ Len(Rows) \in Nat /\ IsProgram(program)
  BY InvParts, Zenon
<1>2. At("tests") /\ program.row <= Len(Rows)
  BY Zenon DEF StartReplay
<1>3. /\ Published /\ MetaGood(Rows, program.meta, Len(Rows)) /\ program.row \in Nat \ {0} /\ program.position \in Nat
  BY <1>1, <1>2, PlaceIs, Zenon DEF Testing
<1> DEFINE meta == program.meta
           of == [row |-> program.row, branch |-> "query"]
           position == program.position
<1>4. PICK chosen \in TopBlocks(meta), answer \in Answers :
        /\ gen' = Call([replay |-> CatBlockCaches(ByPosition(meta, chosen))], "replay", setup.positioned, of,
                       QueryTokens, position, answer, MaxNew, 0, FALSE)
        /\ caches' = Prefill([replay |-> CatBlockCaches(ByPosition(meta, chosen))], "replay", of, QueryTokens, position)
        /\ program' = [program EXCEPT !.at = "replay"]
        /\ UNCHANGED <<setup, files, starts>>
  BY Zenon DEF StartReplay
<1> DEFINE sorted == ByPosition(meta, chosen)
           prefix == CatBlockCaches(sorted)
           given == [replay |-> prefix]
<1>5. prefix \in Seq(Key) /\ PrefixGood(prefix, Len(prefix))
  <2> DEFINE c == Rows
  <2>1. c \in Corpora /\ MetaGood(c, meta, Len(c)) /\ BlocksGood(c, files.blocks) /\ 1..Len(c) \subseteq DOMAIN files.blocks
    BY <1>1, <1>3, Zenon DEF FilesGood, Published
  <2> HIDE DEF c, sorted, meta
  <2>2. PICK n \in Nat : \E g : ByRows(c, sorted, n, g)
    BY <2>1, ByPositionIs, Zenon DEF sorted
  <2>3. PICK g : ByRows(c, sorted, n, g)
    BY <2>2
  <2> QED BY <2>1, <2>3, JoinedBlocks, Zenon
<1> HIDE DEF prefix, sorted
<1>6. given \in [DOMAIN given -> Seq(Key)] /\ DOMAIN given = {"replay"} /\ given["replay"] = prefix
  BY <1>5
<1>7. /\ of \in Owners /\ QueryTokens \in Nat \ {0} /\ position \in Nat /\ answer \in Seq(Tokens) /\ MaxNew <= Len(answer)
      /\ MaxNew \in Nat \ {0} /\ 0 \in Nat /\ 0 <= Window /\ 0 <= MaxNew /\ FALSE \in BOOLEAN /\ setup.positioned \in BOOLEAN
  <2>1. of \in Owners
    BY <1>3 DEF Owners
  <2>2. setup.positioned \in BOOLEAN
    BY <1>1 DEF SetupGood
  <2> QED BY <1>3, <2>1, <2>2, AnswerAssumption
<1>8. /\ gen' = Call(given, "replay", setup.positioned, of, QueryTokens, position, answer, MaxNew, 0, FALSE)
      /\ caches' = Prefill(given, "replay", of, QueryTokens, position)
      /\ program' = [program EXCEPT !.at = "replay"] /\ UNCHANGED <<setup, files, starts>>
  BY <1>4, Zenon DEF prefix, sorted
<1> HIDE DEF given, of, position, meta
<1>9. Started(gen', caches', given, "replay", of, QueryTokens, position, answer, MaxNew, 0, FALSE)
  <2>1. DOMAIN given \subseteq CacheNames /\ "replay" \in DOMAIN given
    BY <1>6 DEF CacheNames
  <2>2. Startable(given, "replay", setup.positioned, of, QueryTokens, position, answer, MaxNew, 0, FALSE)
    BY <1>6, <1>7, <2>1, Zenon DEF Startable
  <2>3. Started(Call(given, "replay", setup.positioned, of, QueryTokens, position, answer, MaxNew, 0, FALSE),
                Prefill(given, "replay", of, QueryTokens, position),
                given, "replay", of, QueryTokens, position, answer, MaxNew, 0, FALSE)
    BY <2>2, CallStarts, Zenon
  <2> QED BY <1>8, <2>3
<1>10. /\ CallGood(caches'["replay"], gen')
       /\ StartedWith(gen', "replay", Len(prefix), position, QueryTokens, of, answer, MaxNew, 0, FALSE)
       /\ caches' \in [{"replay"} -> Seq(Key)] /\ DOMAIN caches' = {"replay"}
       /\ Begins(prefix, caches'["replay"])
  <2>1. /\ CallGood(caches'["replay"], gen')
        /\ StartedWith(gen', "replay", Len(given["replay"]), position, QueryTokens, of, answer, MaxNew, 0, FALSE)
        /\ caches' \in [DOMAIN given -> Seq(Key)] /\ DOMAIN caches' = DOMAIN given
        /\ Begins(given["replay"], caches'["replay"])
    BY <1>9, Zenon DEF Started
  <2> QED BY <1>6, <2>1
<1>11. gen'.on = "replay" /\ gen'.start = position /\ gen'.prefix = Len(prefix)
  BY <1>10, Zenon DEF StartedWith
<1>12. /\ IsProgram(program') /\ program'.at = "replay" /\ program'.row = program.row /\ program'.position = program.position
       /\ program'.meta = program.meta /\ program'.failure = program.failure
  <2> DEFINE after == program'
  <2>1. after = [program EXCEPT !.at = "replay"]
    BY <1>8
  <2> HIDE DEF after
  <2>2. ProgramFields(after, "replay", program.row, program.position, program.branch, program.main,
                      program.meta, program.vectors, program.condition, program.result, program.failure)
    BY <1>1, <2>1, ProgramAt, Zenon
  <2>3. /\ IsProgram(after) /\ after.at = "replay" /\ after.row = program.row /\ after.position = program.position
        /\ after.meta = program.meta /\ after.failure = program.failure
    BY <2>2 DEF ProgramFields, IsProgram
  <2> QED BY <2>3, Zenon DEF after
<1>13. Rows' = Rows /\ setup' = setup /\ FilesGood' /\ ProgramGood' /\ Published'
  <2>1. program.at # "idle"
    BY <1>2, UnderWay
  <2> QED BY <1>1, <1>3, <1>8, <1>12, <2>1, FilesKept, FailureStays, Zenon DEF Rows, Published
<1>14. GenGood'
  <2>1. CachesType'
    BY <1>10 DEF CachesType, CacheNames
  <2> QED BY <1>10, <1>11, <2>1 DEF GenGood
<1>15. PrefixGood(caches'["replay"], gen'.prefix)
  <2>1. Len(prefix) \in Nat /\ Len(prefix) <= Len(prefix)
    BY <1>5
  <2> DEFINE grown == caches'["replay"]
             m == Len(prefix)
  <2>2. PrefixGood(grown, m)
    <3>1. Begins(prefix, grown) /\ m \in Nat /\ m <= m /\ PrefixGood(prefix, m)
      BY <1>5, <1>10, <2>1, Zenon
    <3> HIDE DEF grown
    <3> QED BY <3>1, PrefixKept, Zenon DEF m
  <2> QED BY <1>11, <2>2
<1>16. AtReplay'
  <2>1. Testing'
    BY <1>3, <1>12, <1>13 DEF Testing
  <2>2. gen'.start = program'.position
    BY <1>11, <1>12 DEF position
  <2> QED BY <1>10, <1>11, <1>15, <2>1, <2>2 DEF AtReplay
<1>17. PlaceGood'
  BY <1>12, <1>16, Zenon DEF PlaceGood, At
<1> QED BY <1>1, <1>13, <1>14, <1>17, Arrives, Zenon

------------------------------------------------------------------------------
(* The invariant of the program.                                            *)

LEMMA InitialInv ==
  ASSUME AnswerInit
  PROVE  AnswerInv
<1>1. /\ SetupGood /\ caches = <<>> /\ gen = NoCall /\ program = NoProgram /\ files = NoFiles
  BY Zenon DEF AnswerInit, SetupGood
<1>2. Quiet
  BY <1>1, Zenon DEF Quiet
<1>3. GenGood
  <2>1. ~Calling
    BY <1>1 DEF Calling, NoCall
  <2>2. CachesType
    BY <1>1 DEF CachesType
  <2> QED BY <2>1, <2>2, Zenon DEF GenGood
<1>4. IsProgram(program) /\ program.at = "idle" /\ program.failure = "none"
  BY <1>1, ProgramNone DEF ProgramFields, IsProgram
<1>5. ProgramGood /\ PlaceGood
  BY <1>2, <1>4 DEF ProgramGood, FailureGood, PlaceGood, At
<1>6. FilesGood
  <2>1. IsFiles(files) /\ files.summary = NoValue /\ files.blocks = <<>>
    BY <1>1 DEF NoFiles, IsFiles
  <2> DEFINE b == files.blocks
  <2>2. DOMAIN b = {}
    BY <2>1
  <2> HIDE DEF b
  <2>3. BlocksGood(Rows, b)
    BY <2>2 DEF BlocksGood
  <2> QED BY <2>1, <2>3, Zenon DEF FilesGood, b
<1> QED BY <1>1, <1>3, <1>5, <1>6, Zenon DEF AnswerInv

LEMMA UnchangedInv ==
  ASSUME AnswerInv, UNCHANGED blockVars
  PROVE  AnswerInv'
<1>1. SetupGood /\ GenGood /\ FilesGood /\ ProgramGood /\ PlaceGood
  BY Zenon DEF AnswerInv
<1>2. setup' = setup /\ caches' = caches /\ gen' = gen /\ program' = program /\ files' = files /\ starts' = starts
  BY DEF blockVars
<1>3. FilesGood' /\ ProgramGood' /\ Rows' = Rows
  BY <1>1, <1>2, FilesKept, Zenon DEF ProgramGood, Rows
<1>4. GenGood'
  BY <1>1, <1>2, Zenon DEF GenGood, CachesType, Calling
<1>5. (Quiet => Quiet') /\ (Published => Published') /\ (RunGood => RunGood')
  BY <1>2, <1>3, Zenon DEF Quiet, Published, RunGood
<1>6. Testing => Testing'
  BY <1>2, <1>3, <1>5, Zenon DEF Testing
<1>7. (AtRows => AtRows') /\ (AtMain => AtMain') /\ (AtIndex => AtIndex') /\ (AtSaved => AtSaved')
  BY <1>2, <1>3, <1>5, Zenon DEF AtRows, AtMain, AtIndex, AtSaved
<1>8. (AtReplay => AtReplay') /\ (AtHistory => AtHistory') /\ (AtRecall => AtRecall')
  BY <1>2, <1>3, <1>6, Zenon DEF AtReplay, AtHistory, AtRecall
<1>9. AtMeasured => AtMeasured'
  BY <1>2, <1>8, Zenon DEF AtMeasured
<1>10. PlaceGood'
  BY <1>1, <1>2, <1>5, <1>6, <1>7, <1>8, <1>9, Zenon DEF PlaceGood, At
<1> QED BY <1>1, <1>2, <1>3, <1>4, <1>10, Arrives, Zenon

LEMMA NextKeepsInv ==
  ASSUME AnswerInv, [AnswerNext]_blockVars
  PROVE  AnswerInv'
<1>1. CASE UNCHANGED blockVars
  BY <1>1, UnchangedInv, Zenon
<1>2. CASE Launch \/ StartRow \/ StartIndex \/ RecordRow \/ SaveIndex \/ SaveMetadata
  BY <1>2, LaunchKeepsInv, StartRowKeepsInv, StartIndexKeepsInv, RecordRowKeepsInv, SaveIndexKeepsInv,
     SaveMetadataKeepsInv, Zenon
<1>3. CASE GenerateToken \/ SearchFails \/ StartReplay \/ EndReplay \/ WriteSummary \/ ReplayOnly
  BY <1>3, TokenKeepsInv, StopsKeepInv, StartReplayKeepsInv, EndReplayKeepsInv, WriteSummaryKeepsInv,
     ReplayOnlyKeepsInv, Zenon
<1>4. CASE StartCondition \/ PlanRecall \/ EndCondition \/ NextCondition \/ Kill
  BY <1>4, StartConditionKeepsInv, PlanRecallKeepsInv, EndConditionKeepsInv, StopsKeepInv, Zenon
<1> QED BY <1>1, <1>2, <1>3, <1>4, Zenon DEF AnswerNext

\* At every place of the program its history, its calls, its files and its plan are what
\* the corpus, the condition and the answers make them, whatever was killed, repeated or
\* replayed before.
THEOREM AnswersHold == AnswerSpec => []AnswerInv
<1>1. AnswerInit => AnswerInv
  BY InitialInv
<1>2. AnswerInv /\ [AnswerNext]_blockVars => AnswerInv'
  BY NextKeepsInv
<1> QED BY <1>1, <1>2, PTL DEF AnswerSpec

\* The checks the program makes of itself never fail: a block is complete when it is cut,
\* still in a sliding layer's window and as long as the answer's end says, a history is as
\* long as its position, and without a gap a cached history that fits into the window of a
\* sliding layer has the keys, positions and masks of a continuous one; only a longer one,
\* whose masks differ, is refused.
THEOREM ChecksHold == AnswerSpec => []ChecksNeverFail
<1>1. AnswerInv => ChecksNeverFail
  <2> SUFFICES ASSUME AnswerInv PROVE ChecksNeverFail
    OBVIOUS
  <2>1. FailureGood(program)
    BY InvParts, Zenon DEF ProgramGood
  <2> QED BY <2>1 DEF FailureGood, ChecksNeverFail
<1> QED BY <1>1, AnswersHold, PTL

------------------------------------------------------------------------------
(* What a replay sees.                                                      *)

LEMMA InvGivesReplay ==
  ASSUME AnswerInv
  PROVE  ReplaySeesBlocksAndItself
<1> SUFFICES ASSUME At("replay") PROVE ReplaySeesBlocksAndItself
  BY Zenon DEF ReplaySeesBlocksAndItself
<1> DEFINE cache == caches["replay"]
           p == gen.prefix
           n == gen.prompt
           l == Len(gen.out)
           blocks == SubSeq(cache, 1, p)
<1>1. AtReplay /\ GenGood
  BY InvParts, PlaceIs, Zenon
<1>2. DOMAIN caches = {"replay"} /\ gen.on = "replay" /\ gen.start = program.position /\ PrefixGood(cache, p)
      /\ program.position \in Nat
  BY <1>1, Zenon DEF AtReplay, Testing
<1>3. CallGood(cache, gen)
  <2>1. Calling
    BY <1>2 DEF Calling
  <2> QED BY <1>1, <1>2, <2>1, Zenon DEF GenGood
<1>4. /\ p \in Nat /\ n \in Nat \ {0} /\ l \in Nat /\ cache \in Seq(Key) /\ Len(cache) = p + n + l
      /\ \A k \in 1..(n + l) : cache[p + k] = KeyAt(gen.of, gen.start, n, gen.out, k)
  <2> DEFINE call == gen
  <2>1. CallGood(cache, call)
    BY <1>3
  <2> HIDE DEF cache, call
  <2>2. /\ call.prefix \in Nat /\ call.prompt \in Nat \ {0} /\ Len(call.out) \in Nat
        /\ cache \in Seq(Key) /\ Len(cache) = call.prefix + call.prompt + Len(call.out)
    BY <2>1, CallParts, Zenon
  <2>3. \A k \in 1..(call.prompt + Len(call.out)) :
          cache[call.prefix + k] = KeyAt(call.of, call.start, call.prompt, call.out, k)
    BY <2>1, Zenon DEF CallGood, CacheGood
  <2> QED BY <2>2, <2>3, Zenon DEF call
<1>5. gen.sees \in Seq(Sights) /\ Len(gen.sees) = n + l /\ \A q \in 1..(n + l) : gen.sees[q] = 1..(p + q)
  BY <1>3, Zenon DEF CallGood, SeesGood
<1>6. (\A i \in 1..p : cache[i].of.branch = "main") /\ \A i \in 1..(p - 1) : cache[i].pos < cache[i + 1].pos
  BY <1>2, Zenon DEF PrefixGood
<1>7. \A k \in 1..(n + l) : cache[p + k].pos = program.position + k - 1
  <2> TAKE k \in 1..(n + l)
  <2>1. cache[p + k] = KeyAt(gen.of, gen.start, n, gen.out, k)
    BY <1>4
  <2> QED BY <1>2, <2>1 DEF KeyAt
<1> HIDE DEF cache, p, n, l
<1>8. \A q \in 1..Len(gen.sees) : gen.sees[q] = 1..(gen.prefix + q)
  BY <1>5 DEF p
<1>9. blocks \in Seq(Key) /\ Len(blocks) = p /\ \A i \in 1..p : blocks[i] = cache[i]
  <2>1. p <= Len(cache)
    BY <1>4
  <2> QED BY <1>4, <2>1
<1> HIDE DEF blocks
<1>10. (\A i \in 1..p : blocks[i].of.branch = "main") /\ \A i \in 1..(p - 1) : blocks[i].pos < blocks[i + 1].pos
  <2>1. \A i \in 1..(p - 1) : i \in 1..p /\ i + 1 \in 1..p
    BY <1>4
  <2> QED BY <1>6, <1>9, <2>1
<1>11. PositionsOf(cache) = PositionsOf(blocks) \o Spaced(program.position, n + l)
  <2> DEFINE a == PositionsOf(cache)
             b == PositionsOf(blocks)
             s == Spaced(program.position, n + l)
  <2>0. \A k \in Key : k.pos \in Nat
    BY DEF Key
  <2>1. a \in Seq(Nat) /\ Len(a) = p + n + l /\ \A i \in 1..(p + n + l) : a[i] = cache[i].pos
    <3>1. a = [i \in 1..(p + n + l) |-> cache[i].pos]
      BY <1>4, Zenon DEF PositionsOf
    <3>2. \A i \in 1..(p + n + l) : cache[i].pos \in Nat
      BY <1>4, <2>0
    <3> HIDE DEF a
    <3> QED BY <1>4, <3>1, <3>2
  <2>2. b \in Seq(Nat) /\ Len(b) = p /\ \A i \in 1..p : b[i] = cache[i].pos
    <3>1. b = [i \in 1..p |-> blocks[i].pos]
      BY <1>9, Zenon DEF PositionsOf
    <3>2. \A i \in 1..p : blocks[i].pos \in Nat
      BY <1>9, <2>0
    <3> HIDE DEF b
    <3> QED BY <1>4, <1>9, <3>1, <3>2
  <2>3. s \in Seq(Nat) /\ Len(s) = n + l /\ \A k \in 1..(n + l) : s[k] = program.position + k - 1
    BY <1>2, <1>4 DEF Spaced
  <2> HIDE DEF a, b, s
  <2> DEFINE u == b \o s
  <2>4. u \in Seq(Nat) /\ Len(u) = p + (n + l) /\ (\A i \in 1..p : u[i] = b[i]) /\ \A k \in 1..(n + l) : u[p + k] = s[k]
    <3>1. u \in Seq(Nat) /\ Begins(b, u) /\ EndsWith(b, s, u)
      BY <2>2, <2>3, Joined, Zenon
    <3> HIDE DEF u
    <3> QED BY <2>2, <2>3, <3>1 DEF Begins, EndsWith
  <2> HIDE DEF u
  <2>5. \A i \in 1..(p + n + l) : a[i] = u[i]
    <3> TAKE i \in 1..(p + n + l)
    <3>1. CASE i <= p
      <4>1. i \in 1..p
        BY <1>4, <3>1
      <4> QED BY <2>1, <2>2, <2>4, <4>1
    <3>2. CASE ~(i <= p)
      <4> DEFINE k == i - p
      <4>1. k \in 1..(n + l) /\ p + k = i
        BY <1>4, <3>2
      <4> HIDE DEF k
      <4>2. u[i] = program.position + k - 1 /\ a[i] = cache[i].pos /\ cache[i].pos = program.position + k - 1
        BY <1>7, <2>1, <2>3, <2>4, <4>1
      <4> QED BY <4>2
    <3> QED BY <3>1, <3>2
  <2>6. a = u
    <3>1. Len(a) = Len(u)
      BY <1>4, <2>1, <2>4
    <3> QED BY <2>1, <2>4, <2>5, <3>1
  <2> QED BY <2>6 DEF a, b, s, u
<1> QED BY <1>8, <1>10, <1>11, Zenon DEF ReplaySeesBlocksAndItself, cache, p, n, l, blocks

\* A replayed token sees all keys of the blocks, in the order their answers were given, and
\* its own branch up to itself, with the program's mask as with the model's.
THEOREM ReplayIsExact == AnswerSpec => []ReplaySeesBlocksAndItself
<1>1. AnswerInv => ReplaySeesBlocksAndItself
  BY InvGivesReplay
<1> QED BY <1>1, AnswersHold, PTL

------------------------------------------------------------------------------
(* What the branches and the files hold.                                    *)

LEMMA InvGivesBranches ==
  ASSUME AnswerInv
  PROVE  BranchesStayApart
<1> DEFINE c == Rows
           cache == caches["history"]
           r == program.row
<1>1. c \in Corpora
  BY InvParts, Zenon
<1>2. ASSUME At("rows")
      PROVE  /\ PositionsOf(cache) = Spaced(0, program.position)
             /\ \A i \in 1..Len(cache) : cache[i].of.branch = "main"
             /\ \A i \in 1..Len(program.meta) :
                  LET keys == program.vectors[i] IN
                  /\ PositionsOf(keys) = Spaced(0, Len(keys)) /\ Last(keys).token = "fact"
                  /\ \A k \in 1..Len(keys) :
                       \/ keys[k].of = [row |-> program.meta[i].row, branch |-> "index"]
                       \/ keys[k].of.branch = "main" /\ keys[k].of.row < program.meta[i].row
  <2>1. AtRows
    BY <1>2, InvParts, PlaceIs, Zenon
  <2>2. /\ Remembered(c, cache, r) /\ program.position = PlacesOf(c)[r]
        /\ MetaGood(c, program.meta, r - 1) /\ VectorsGood(program.vectors, r - 1)
    BY <2>1, Zenon DEF AtRows, RunGood
  <2>3. Len(cache) = program.position /\ \A i \in 1..program.position : cache[i].pos = i - 1 /\ cache[i].of.branch = "main"
    BY <2>2, Zenon DEF Remembered, RememberedPart
  <2>4. PositionsOf(cache) = Spaced(0, program.position)
    <3> HIDE DEF cache
    <3> QED BY <2>3 DEF PositionsOf, Spaced
  <2>5. ASSUME NEW i \in 1..Len(program.meta)
        PROVE  LET keys == program.vectors[i] IN
                  /\ PositionsOf(keys) = Spaced(0, Len(keys)) /\ Last(keys).token = "fact"
                  /\ \A k \in 1..Len(keys) :
                       \/ keys[k].of = [row |-> program.meta[i].row, branch |-> "index"]
                       \/ keys[k].of.branch = "main" /\ keys[k].of.row < program.meta[i].row
    <3> DEFINE keys == program.vectors[i]
    <3>1. IndexVector(keys, i) /\ program.meta[i] = MetaOf(c, i)
      BY <2>2, <2>5, Zenon DEF MetaGood, VectorsGood
    <3>2. program.meta[i].row = i
      BY <3>1 DEF MetaOf
    <3> HIDE DEF keys
    <3>3. Last(keys).token = "fact" /\ \A k \in 1..Len(keys) : keys[k].pos = k - 1
          /\ (keys[k].of = OwnerOf(i, "index") \/ (keys[k].of.branch = "main" /\ keys[k].of.row < i))
      BY <3>1, Zenon DEF IndexVector
    <3>4. PositionsOf(keys) = Spaced(0, Len(keys))
      BY <3>3 DEF PositionsOf, Spaced
    <3> QED BY <3>2, <3>3, <3>4, Zenon DEF keys, OwnerOf
  <2> QED BY <2>3, <2>4, <2>5, Zenon
<1> QED BY <1>2, Zenon DEF BranchesStayApart

\* A block's keys, positions and tokens are of the same length and of the same places.
LEMMA BlockMatches ==
  ASSUME NEW c \in Corpora, NEW r \in 1..Len(c)
  PROVE  /\ PositionsOf(BlockKeys(c, r)) = BlockPositions(c, r) /\ TokensOf(BlockKeys(c, r)) = BlockTokens(c, r)
         /\ BlockTokens(c, r) = SubSeq(c[r].main, 1, Len(BlockTokens(c, r)))
<1> DEFINE l == BlockLength(c, r)
           b == PlacesOf(c)[r] + c[r].prompt
           ks == BlockKeys(c, r)
           main == c[r].main
<1>1. Len(ks) = l /\ Len(BlockTokens(c, r)) = l
  BY BlockParts, Zenon
<1>2. ks = [i \in 1..l |-> [pos |-> b + i - 1, of |-> OwnerOf(r, "main"), token |-> main[i]]]
  BY Zenon DEF BlockKeys
<1>3. l \in Nat /\ l <= Len(main) /\ main \in Seq(Tokens)
  <2>1. l \in 1..Taken(main, MaxNew) /\ Taken(main, MaxNew) <= Len(main) /\ Taken(main, MaxNew) \in 1..MaxNew
        /\ main \in Seq(Tokens)
    BY TakenInRow, CorpusRows, Zenon
  <2> HIDE DEF l, main
  <2> DEFINE t == Taken(main, MaxNew)
             m == Len(main)
  <2>2. l \in 1..t /\ t <= m /\ t \in 1..MaxNew /\ m \in Nat /\ MaxNew \in Nat
    BY <2>1, AnswerAssumption
  <2> HIDE DEF t, m
  <2>3. l \in Nat /\ l <= m
    BY <2>2
  <2> QED BY <2>1, <2>3 DEF m
<1>4. BlockTokens(c, r) = [i \in 1..l |-> main[i]] /\ BlockPositions(c, r) = [i \in 1..l |-> b + i - 1]
  BY Zenon DEF BlockTokens, BlockPositions, Spaced
<1> HIDE DEF l, b, ks, main
<1>5. PositionsOf(ks) = BlockPositions(c, r)
  BY <1>1, <1>2, <1>4 DEF PositionsOf
<1>6. TokensOf(ks) = BlockTokens(c, r)
  BY <1>1, <1>2, <1>4 DEF TokensOf
<1>7. SubSeq(main, 1, l) = [i \in 1..l |-> main[i]]
  BY <1>3
<1> QED BY <1>1, <1>4, <1>5, <1>6, <1>7, Zenon DEF ks, main

LEMMA BlockPlaces ==
  ASSUME NEW c \in Corpora, NEW r \in 1..Len(c), NEW x \in ToSet(BlockPositions(c, r))
  PROVE  x \in Nat /\ x >= PlacesOf(c)[r] /\ x < PlacesOf(c)[r + 1]
<1> DEFINE ks == BlockKeys(c, r)
           ps == BlockPositions(c, r)
<1>1. PositionsOf(ks) = ps /\ ks \in Seq(Key)
  BY BlockMatches, BlockParts, Zenon
<1>2. \A k \in 1..Len(ks) : ks[k].pos >= PlacesOf(c)[r] /\ ks[k].pos < PlacesOf(c)[r + 1]
  BY BlockKeysIn, Zenon
<1>3. ps = [k \in 1..Len(ks) |-> ks[k].pos]
  BY <1>1, Zenon DEF PositionsOf
<1> HIDE DEF ks, ps
<1>4. Len(ps) = Len(ks) /\ DOMAIN ps = 1..Len(ks)
  BY <1>1, <1>3
<1>5. PICK k \in 1..Len(ks) : x = ps[k]
  <2>1. x \in ToSet(ps)
    BY DEF ps
  <2> QED BY <1>4, <2>1 DEF ToSet
<1>6. x = ks[k].pos
  BY <1>3, <1>5
<1>7. ks[k] \in Key
  BY <1>1, <1>5
<1>8. x \in Nat
  BY <1>6, <1>7 DEF Key
<1> QED BY <1>2, <1>5, <1>6, <1>8

LEMMA BlocksApart ==
  ASSUME NEW c \in Corpora, NEW r \in 1..Len(c), NEW q \in 1..Len(c), r < q
  PROVE  ToSet(BlockPositions(c, r)) \cap ToSet(BlockPositions(c, q)) = {}
<1> SUFFICES ASSUME NEW x \in ToSet(BlockPositions(c, r)), x \in ToSet(BlockPositions(c, q)) PROVE FALSE
  OBVIOUS
<1> DEFINE a == PlacesOf(c)[r]
           m == c[r].prompt
           t == Taken(c[r].main, MaxNew)
           e == PlacesOf(c)[r + 1]
           b == PlacesOf(c)[q]
<1>1. x \in Nat /\ x < e /\ x >= b
  BY BlockPlaces, Zenon
<1>2. q \in 1..(Len(c) + 1)
  BY CorpusLength
<1>3. a + m + t <= b /\ e = a + m + t /\ a \in Nat /\ b \in Nat /\ m \in Nat \ {0} /\ t \in Nat
  BY <1>2, PlacesGrow, PositionIs, PlaceFacts, Zenon
<1> HIDE DEF a, m, t, e, b
<1> QED BY <1>1, <1>3

LEMMA InvGivesBlocks ==
  ASSUME AnswerInv
  PROVE  BlocksHoldTheirAnswers
<1> DEFINE c == Rows
           blocks == files.blocks
<1>1. c \in Corpora /\ BlocksGood(c, blocks) /\ (files.summary # NoValue => Published) /\ Len(c) \in Nat
  BY InvParts, Zenon DEF FilesGood
<1> HIDE DEF blocks
<1>2. ASSUME NEW r \in DOMAIN blocks
      PROVE  /\ r \in 1..Len(c) /\ blocks[r].keys = BlockKeys(c, r) /\ blocks[r].positions = BlockPositions(c, r)
             /\ blocks[r].tokens = BlockTokens(c, r)
  <2>1. r \in 1..Len(c) /\ blocks[r] = BlockOf(c, r)
    BY <1>1, <1>2 DEF BlocksGood
  <2> QED BY <2>1 DEF BlockOf
<1>3. ASSUME NEW r \in DOMAIN blocks
      PROVE  /\ PositionsOf(blocks[r].keys) = blocks[r].positions /\ TokensOf(blocks[r].keys) = blocks[r].tokens
             /\ blocks[r].tokens = SubSeq(c[r].main, 1, Len(blocks[r].tokens))
  <2> HIDE DEF c
  <2> QED BY <1>1, <1>2, <1>3, BlockMatches
<1>4. ASSUME NEW r \in DOMAIN blocks, NEW other \in DOMAIN blocks \ {r}
      PROVE  ToSet(blocks[r].positions) \cap ToSet(blocks[other].positions) = {}
  <2>1. r \in 1..Len(c) /\ other \in 1..Len(c) /\ r # other
    BY <1>2, <1>4
  <2> DEFINE a == ToSet(BlockPositions(c, r))
             b == ToSet(BlockPositions(c, other))
  <2>3. CASE other < r
    <3>1. b \cap a = {}
      BY <1>1, <2>1, <2>3, BlocksApart, Zenon
    <3> HIDE DEF a, b
    <3>2. a \cap b = {}
      BY <3>1
    <3>3. blocks[r].positions = BlockPositions(c, r) /\ blocks[other].positions = BlockPositions(c, other)
      BY <1>2, <1>4
    <3> QED BY <3>2, <3>3, Zenon DEF a, b
  <2>4. r < other \/ other < r
    BY <1>1, <2>1
  <2>5. blocks[r].positions = BlockPositions(c, r) /\ blocks[other].positions = BlockPositions(c, other)
    BY <1>2, <1>4
  <2>6. a \cap b = {} => ToSet(blocks[r].positions) \cap ToSet(blocks[other].positions) = {}
    BY <2>5, Zenon
  <2>7. CASE r < other
    <3>1. a \cap b = {}
      BY <1>1, <2>1, <2>7, BlocksApart, Zenon
    <3> QED BY <2>6, <3>1, Zenon
  <2> QED BY <2>3, <2>4, <2>7
<1>5. ASSUME files.summary # NoValue
      PROVE  /\ Len(files.vectors) = Len(files.meta)
             /\ \A i \in 1..Len(files.meta) :
                  LET m == files.meta[i] IN
                  /\ m.row \in DOMAIN files.blocks /\ files.blocks[m.row].positions = m.positions
                  /\ m.row = Last(files.vectors[i]).of.row
  <2>1. MetaGood(c, files.meta, Len(c)) /\ VectorsGood(files.vectors, Len(c)) /\ 1..Len(c) \subseteq DOMAIN blocks
    BY <1>1, <1>5, Zenon DEF Published, blocks
  <2>2. Len(files.vectors) = Len(c) /\ Len(files.meta) = Len(c)
    BY <2>1, Zenon DEF MetaGood, VectorsGood
  <2>3. ASSUME NEW i \in 1..Len(c)
        PROVE  /\ files.meta[i].row \in DOMAIN blocks /\ blocks[files.meta[i].row].positions = files.meta[i].positions
               /\ files.meta[i].row = Last(files.vectors[i]).of.row
    <3>1. files.meta[i] = MetaOf(c, i) /\ IndexVector(files.vectors[i], i)
      BY <2>1, <2>3, Zenon DEF MetaGood, VectorsGood
    <3>2. files.meta[i].row = i /\ files.meta[i].positions = BlockPositions(c, i)
      BY <3>1 DEF MetaOf
    <3>3. Last(files.vectors[i]).of = OwnerOf(i, "index")
      BY <3>1, Zenon DEF IndexVector
    <3>4. Last(files.vectors[i]).of.row = i
      BY <3>3 DEF OwnerOf
    <3>5. i \in DOMAIN blocks /\ blocks[i].positions = BlockPositions(c, i)
      BY <1>2, <2>1, <2>3
    <3> QED BY <3>2, <3>4, <3>5
  <2> QED BY <2>2, <2>3, Zenon DEF blocks
<1> QED BY <1>3, <1>4, <1>5, Zenon DEF BlocksHoldTheirAnswers, blocks, c

\* Neither branch of a row ever sees the other's tokens, and a saved block holds the keys of
\* the tokens and positions it lists, the first of its row's answer, found by its row's index.
THEOREM BlocksAlwaysAreTheAnswers == AnswerSpec => []BlocksAreTheAnswers
<1>1. AnswerInv => BlocksAreTheAnswers
  BY InvGivesBranches, InvGivesBlocks, Zenon DEF BlocksAreTheAnswers
<1> QED BY <1>1, AnswersHold, PTL

------------------------------------------------------------------------------
(* The distance a condition reports.                                        *)

LEMMA FirstLineIs ==
  ASSUME NEW out \in Seq(Tokens)
  PROVE  /\ FirstLine(out) \in Nat /\ FirstLine(out) <= Len(out)
         /\ FirstLine(out) # 0 =>
              out[FirstLine(out)] = "nl" /\ \A j \in 1..(FirstLine(out) - 1) : out[j] # "nl"
<1> DEFINE T == {i \in 1..Len(out) : out[i] = "nl"}
<1>1. T \in SUBSET Nat
  OBVIOUS
<1>2. CASE T = {}
  <2>1. FirstLine(out) = 0
    BY <1>2, Zenon DEF FirstLine
  <2> QED BY <2>1
<1>3. CASE T # {}
  <2>1. PICK n \in T : \A m \in T : ~(m < n)
    BY <1>1, <1>3, LeastNumber
  <2>2. \A m \in T : n <= m
    BY <1>1, <2>1
  <2> DEFINE f == FirstLine(out)
  <2>3. f = CHOOSE i \in T : \A j \in T : i <= j
    BY <1>3, Zenon DEF FirstLine
  <2>4. f \in T /\ \A j \in T : f <= j
    <3> HIDE DEF T, f
    <3> QED BY <2>1, <2>2, <2>3, Zenon
  <2> HIDE DEF f
  <2>5. f \in Nat /\ f <= Len(out) /\ out[f] = "nl"
    BY <2>4
  <2>6. \A j \in 1..(f - 1) : out[j] # "nl"
    <3> SUFFICES ASSUME NEW j \in 1..(f - 1), out[j] = "nl" PROVE FALSE
      OBVIOUS
    <3>1. j \in T /\ j < f
      BY <2>5
    <3> QED BY <2>4, <2>5, <3>1
  <2> QED BY <2>5, <2>6, Zenon DEF f
<1> QED BY <1>2, <1>3

\* The keys of a history of h and of a call of l after it.
Spread(keys, h, l, start, query) ==
  /\ \A k \in 1..h : keys[k].pos = start + k - 1
  /\ \A k \in 1..l : keys[h + k].pos = query + k - 1

JumpsOnce(keys, h, gap) ==
  /\ {i \in 1..(Len(keys) - 1) : keys[i + 1].pos # keys[i].pos + 1} = IF gap = 0 THEN {} ELSE {h}
  /\ keys[h + 1].pos = keys[h].pos + 1 + gap

\* Positions jump between the two only, by the gap.
LEMMA SpreadJumps ==
  ASSUME NEW keys, NEW h \in Nat \ {0}, NEW l \in Nat \ {0}, NEW start \in Nat, NEW gap \in Nat,
         Spread(keys, h, l, start, start + h + gap), Len(keys) = h + l
  PROVE  JumpsOnce(keys, h, gap)
<1> DEFINE n == h + l
<1>1. (\A k \in 1..h : keys[k].pos = start + k - 1) /\ \A k \in 1..l : keys[h + k].pos = start + h + gap + k - 1
  BY Zenon DEF Spread
<1>2. keys[h].pos = start + h - 1 /\ keys[h + 1].pos = start + h + gap
  <2>1. h \in 1..h /\ 1 \in 1..l
    OBVIOUS
  <2>2. keys[h].pos = start + h - 1 /\ keys[h + 1].pos = start + h + gap + 1 - 1
    BY <1>1, <2>1
  <2> QED BY <2>2
<1>3. \A i \in 1..(n - 1) : i # h => keys[i + 1].pos = keys[i].pos + 1
  <2> TAKE i \in 1..(n - 1)
  <2>1. CASE i < h
    <3>1. i \in 1..h /\ i + 1 \in 1..h
      BY <2>1
    <3>2. keys[i].pos = start + i - 1 /\ keys[i + 1].pos = start + (i + 1) - 1
      BY <1>1, <3>1
    <3> QED BY <3>1, <3>2
  <2>2. CASE i > h
    <3> DEFINE k == i - h
    <3>1. k \in 1..l /\ k + 1 \in 1..l /\ h + k = i /\ h + (k + 1) = i + 1
      BY <2>2
    <3> HIDE DEF k
    <3>2. keys[i].pos = start + h + gap + k - 1 /\ keys[i + 1].pos = start + h + gap + (k + 1) - 1
      BY <1>1, <3>1
    <3> QED BY <3>1, <3>2
  <2> QED BY <2>1, <2>2
<1>4. h \in 1..(n - 1) /\ (keys[h + 1].pos # keys[h].pos + 1 <=> gap # 0)
  BY <1>2
<1>5. keys[h + 1].pos = keys[h].pos + 1 + gap
  BY <1>2
<1> HIDE DEF n
<1>6. {i \in 1..(n - 1) : keys[i + 1].pos # keys[i].pos + 1} = IF gap = 0 THEN {} ELSE {h}
  BY <1>3, <1>4
<1> QED BY <1>5, <1>6 DEF n, JumpsOnce

\* Where the retained body ends.
ClosestIn(keys, h, closest, fact) ==
  \E i \in 1..h :
    /\ keys[i].pos = closest
    /\ IF keys[h].token = "nl" /\ fact /\ \A j \in 1..(h - 1) : keys[j].token # "nl"
       THEN keys[i].token = "prompt" /\ keys[i + 1].token # "prompt"
       ELSE i = h

LEMMA ClosestIs ==
  ASSUME NEW keys, NEW of, NEW c \in Conditions, NEW n \in Nat \ {0}, NEW out \in Seq(Tokens), out # <<>>,
         c.fact => FirstLine(out) # 0, NEW h, h = n + Len(out),
         \A k \in 1..h : keys[k] = KeyAt(of, c.start, n, out, k)
  PROVE  ClosestIn(keys, h, ClosestBodyPosition(c, n, out), c.fact)
<1> DEFINE l == Len(out)
           f == FirstLine(out)
           start == c.start
           fact == c.fact
           closest == ClosestBodyPosition(c, n, out)
<1>1. l \in Nat \ {0} /\ start \in Nat /\ fact \in BOOLEAN
  <2>1. start \in Nat /\ fact \in BOOLEAN
    BY ConditionIs, Zenon
  <2>2. l \in Nat \ {0}
    OBVIOUS
  <2> QED BY <2>1, <2>2
<1>2. f \in Nat /\ f <= l /\ (f # 0 => out[f] = "nl" /\ \A j \in 1..(f - 1) : out[j] # "nl")
  BY FirstLineIs, Zenon
<1>3. closest = IF l > (IF fact THEN f ELSE 0) THEN start + n + l - 1 ELSE start + n - 1
  <2>1. closest = IF l > (IF fact THEN f ELSE 0) THEN (start + n) + l - 1 ELSE (start + n) - 1
    BY Zenon DEF ClosestBodyPosition
  <2> HIDE DEF closest, l, f, start, fact
  <2>2. (start + n) + l - 1 = start + n + l - 1 /\ (start + n) - 1 = start + n - 1
    BY <1>1
  <2> QED BY <2>1, <2>2
<1>4. \A k \in 1..h : keys[k].pos = start + k - 1 /\ keys[k].token = IF k <= n THEN "prompt" ELSE out[k - n]
  <2> TAKE k \in 1..h
  <2>1. keys[k] = [pos |-> start + k - 1, of |-> of, token |-> IF k <= n THEN "prompt" ELSE out[k - n]]
    BY Zenon DEF KeyAt
  <2> QED BY <2>1
<1>5. "prompt" \notin Tokens /\ "prompt" # "nl" /\ \A i \in 1..l : out[i] \in Tokens
  BY DEF Tokens
<1>6. h \in Nat /\ h = n + l /\ (fact => f # 0)
  BY <1>1
<1> HIDE DEF l, f, start, fact, closest
<1> DEFINE onlyLine == keys[h].token = "nl" /\ fact /\ \A j \in 1..(h - 1) : keys[j].token # "nl"
<1>7. keys[h].pos = start + n + l - 1 /\ keys[h].token = out[l]
  <2>1. h \in 1..h /\ ~(h <= n) /\ h - n = l
    BY <1>1, <1>6
  <2>2. keys[h].pos = start + h - 1 /\ keys[h].token = out[l]
    BY <1>4, <2>1
  <2> QED BY <1>1, <1>6, <2>2
<1>8. CASE fact /\ f = l
  <2>1. closest = start + n - 1
    BY <1>1, <1>3, <1>8
  <2>2. n \in 1..h /\ n + 1 \in 1..h /\ ~(n + 1 <= n) /\ n <= n /\ (n + 1) - n = 1 /\ 1 \in 1..l
    BY <1>1, <1>6
  <2>3. keys[n].pos = start + n - 1 /\ keys[n].token = "prompt" /\ keys[n + 1].token = out[1]
    BY <1>4, <2>2
  <2>4. keys[n + 1].token # "prompt"
    BY <1>5, <2>2, <2>3
  <2>5. onlyLine
    <3>1. out[l] = "nl" /\ \A j \in 1..(l - 1) : out[j] # "nl"
      BY <1>1, <1>2, <1>8
    <3>2. \A j \in 1..(h - 1) : keys[j].token # "nl"
      <4> TAKE j \in 1..(h - 1)
      <4>1. j \in 1..h
        BY <1>6
      <4>2. CASE j <= n
        BY <1>4, <1>5, <4>1, <4>2
      <4>3. CASE ~(j <= n)
        <5>1. j - n \in 1..(l - 1)
          BY <1>1, <1>6, <4>3
        <5>2. keys[j].token = out[j - n]
          BY <1>4, <4>1, <4>3
        <5> QED BY <3>1, <5>1, <5>2
      <4> QED BY <4>2, <4>3
    <3> QED BY <1>7, <1>8, <3>1, <3>2
  <2> HIDE DEF onlyLine
  <2>6. \E i \in 1..h : keys[i].pos = closest
          /\ IF onlyLine THEN keys[i].token = "prompt" /\ keys[i + 1].token # "prompt" ELSE i = h
    BY <2>1, <2>2, <2>3, <2>4, <2>5
  <2> QED BY <2>6, Zenon DEF ClosestIn, onlyLine, closest, fact
<1>9. CASE ~(fact /\ f = l)
  <2>1. closest = start + n + l - 1
    BY <1>1, <1>2, <1>3, <1>9
  <2>2. ~onlyLine
    <3> SUFFICES ASSUME onlyLine PROVE FALSE
      OBVIOUS
    <3>1. fact /\ f # 0 /\ f # l
      BY <1>6, <1>9
    <3>2. out[f] = "nl" /\ f \in 1..(l - 1)
      BY <1>1, <1>2, <3>1
    <3>3. n + f \in 1..(h - 1) /\ n + f \in 1..h /\ ~(n + f <= n) /\ (n + f) - n = f
      BY <1>1, <1>6, <3>2
    <3>4. keys[n + f].token = out[f]
      BY <1>4, <3>3
    <3> QED BY <3>2, <3>3, <3>4
  <2>3. h \in 1..h
    BY <1>1, <1>6
  <2> HIDE DEF onlyLine
  <2>4. \E i \in 1..h : keys[i].pos = closest
          /\ IF onlyLine THEN keys[i].token = "prompt" /\ keys[i + 1].token # "prompt" ELSE i = h
    BY <1>7, <2>1, <2>2, <2>3
  <2> QED BY <2>4, Zenon DEF ClosestIn, onlyLine, closest, fact
<1> QED BY <1>8, <1>9

LEMMA InvGivesDistance ==
  ASSUME AnswerInv
  PROVE  DistanceIsBetweenBodies
<1> SUFFICES ASSUME At("measured") PROVE DistanceIsBetweenBodies
  BY Zenon DEF DistanceIsBetweenBodies
<1> DEFINE keys == caches["split"]
           c == program.condition
           line == IF c.fact THEN FirstLine(gen.out) ELSE 0
           call == gen
           h == call.prefix
           m == call.prompt
           g == Len(call.out)
           closest == program.result.closest
           first == program.result.first
<1>1. AtMeasured /\ GenGood
  BY InvParts, PlaceIs, Zenon
<1>2. AtRecall /\ first = FirstBodyQuery(call, line)
  BY <1>1, Zenon DEF AtMeasured
<1>3. c \in Conditions /\ call.on = "split" /\ Planned(c, keys, call, closest) /\ "split" \in DOMAIN caches
  BY <1>2 DEF AtRecall
<1>4. CallGood(keys, call)
  <2>1. Calling
    BY <1>3 DEF Calling
  <2> QED BY <1>1, <1>3, <2>1, Zenon DEF GenGood
<1>5. PICK prompt \in Nat \ {0}, out \in Seq(Tokens), of \in Owners : PlannedFrom(c, keys, call, closest, prompt, out, of)
  BY <1>3, Zenon DEF Planned
<1>6. /\ out # <<>> /\ (c.fact => FirstLine(out) # 0) /\ h = prompt + Len(out) /\ call.start = QueryStart(c, prompt, out)
      /\ closest = ClosestBodyPosition(c, prompt, out)
      /\ \A k \in 1..h : keys[k] = KeyAt(of, c.start, prompt, out, k)
  BY <1>5, Zenon DEF PlannedFrom
<1>7. /\ h \in Nat /\ m \in Nat \ {0} /\ g \in Nat /\ call.start \in Nat /\ call.out \in Seq(Tokens)
      /\ Len(keys) = h + m + g
  <2>1. CallGood(keys, call)
    BY <1>4
  <2> HIDE DEF keys, call, h, m, g
  <2>2. /\ call.prefix \in Nat /\ call.prompt \in Nat \ {0} /\ Len(call.out) \in Nat /\ call.start \in Nat
        /\ call.out \in Seq(Tokens) /\ Len(keys) = call.prefix + call.prompt + Len(call.out)
    BY <2>1, CallParts, Zenon
  <2> QED BY <2>2, Zenon DEF h, m, g
<1>8. \A k \in 1..(m + g) : keys[h + k] = KeyAt(call.of, call.start, m, call.out, k)
  BY <1>4, Zenon DEF CallGood, CacheGood
<1>9. c.start \in Nat /\ c.gap \in Nat /\ c.fact \in BOOLEAN
  BY <1>3, ConditionIs, Zenon
<1>10. line \in Nat /\ line <= g
  <2>1. FirstLine(call.out) \in Nat /\ FirstLine(call.out) <= g
    BY <1>7, FirstLineIs, Zenon
  <2> QED BY <1>7, <2>1
<1>11. first = call.start + m + line - 1
  BY <1>2, Zenon DEF FirstBodyQuery
<1> DEFINE start == c.start
           gap == c.gap
           query == call.start
           l == Len(out)
<1>12. query = start + prompt + l + gap
  BY <1>6, Zenon DEF QueryStart
<1>13. l \in Nat
  OBVIOUS
<1> HIDE DEF keys, c, line, call, h, m, g, closest, first, start, gap, query, l
<1>14. query = start + h + gap /\ h \in Nat \ {0} /\ m + g \in Nat \ {0} /\ start \in Nat /\ gap \in Nat /\ query \in Nat
       /\ Len(keys) = h + (m + g)
  <2>1. h = prompt + l /\ start \in Nat /\ gap \in Nat /\ query \in Nat
    BY <1>6, <1>7, <1>9, Zenon DEF l, start, gap, query
  <2> QED BY <1>7, <1>12, <1>13, <2>1
<1>15. Spread(keys, h, m + g, start, query)
  <2>1. \A k \in 1..h : keys[k].pos = start + k - 1
    <3> TAKE k \in 1..h
    <3>1. keys[k] = KeyAt(of, start, prompt, out, k)
      BY <1>6, Zenon DEF start
    <3> QED BY <3>1 DEF KeyAt
  <2>2. \A k \in 1..(m + g) : keys[h + k].pos = query + k - 1
    <3> TAKE k \in 1..(m + g)
    <3>1. keys[h + k] = KeyAt(call.of, query, m, call.out, k)
      BY <1>8, Zenon DEF query
    <3> QED BY <3>1 DEF KeyAt
  <2> QED BY <2>1, <2>2, Zenon DEF Spread
<1>16. JumpsOnce(keys, h, gap)
  <2>1. Spread(keys, h, m + g, start, start + h + gap)
    BY <1>14, <1>15
  <2> DEFINE n == m + g
  <2>2. n \in Nat \ {0} /\ Spread(keys, h, n, start, start + h + gap) /\ Len(keys) = h + n
    BY <1>14, <2>1
  <2> HIDE DEF n
  <2> QED BY <1>14, <2>2, SpreadJumps, Zenon
<1>17. keys[h + m + line].pos = first
  <2> DEFINE k == m + line
  <2>1. k \in 1..(m + g) /\ h + k = h + m + line
    BY <1>7, <1>10
  <2>2. keys[h + k].pos = query + k - 1
    BY <1>15, <2>1, Zenon DEF Spread
  <2>3. first = query + m + line - 1
    BY <1>11, Zenon DEF query
  <2>4. query + k - 1 = query + m + line - 1
    BY <1>7, <1>10, <1>14
  <2> HIDE DEF k
  <2> QED BY <2>1, <2>2, <2>3, <2>4
<1>18. ClosestIn(keys, h, closest, c.fact)
  <2>1. ClosestIn(keys, h, ClosestBodyPosition(c, prompt, out), c.fact)
    BY <1>3, <1>6, ClosestIs, Zenon
  <2> QED BY <1>6, <2>1
<1> QED BY <1>16, <1>17, <1>18, Zenon
        DEF DistanceIsBetweenBodies, ClosestIn, JumpsOnce, keys, c, line, call, h, m, g, closest, first, gap

\* The distance a condition reports is between the last key of the history's body and the key
\* the recall's body is predicted from, and positions jump by the gap between them, once.
THEOREM DistanceIsRight == AnswerSpec => []DistanceIsBetweenBodies
<1>1. AnswerInv => DistanceIsBetweenBodies
  BY InvGivesDistance
<1> QED BY <1>1, AnswersHold, PTL
==============================================================================
