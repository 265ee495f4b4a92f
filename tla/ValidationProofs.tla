--------------------------- MODULE ValidationProofs ---------------------------
(***************************************************************************)
(* The state directory of validation collections and the jobs that publish *)
(* what it holds, for every dataset, configuration, number of launches and *)
(* list of artifacts: no sample is recorded twice, the manifest tells the  *)
(* truth, only whole datasets are published and no collected row is lost.  *)
(* DirectoryInv is inductive; its first part, RunInv, is about a           *)
(* collection on its own.                                                  *)
(***************************************************************************)
EXTENDS ValidationPipeline, TLAPS, FiniteSetTheorems, FunctionTheorems, SequenceTheorems

------------------------------------------------------------------------------
(* Files of lines.                                                         *)

\* What writing a text does to the lines: every earlier text stays at its place, and
\* the new one is the last of the last line.
LEMMA WrittenLines ==
  ASSUME NEW f \in File, FileSound(f), NEW text \in Text, NEW terminated \in BOOLEAN,
         NEW g, g = Written(f, text, terminated)
  PROVE  /\ g \in File /\ g.exists = f.exists /\ g.ended = terminated /\ g.lines # <<>>
         /\ DOMAIN f.lines \subseteq DOMAIN g.lines
         /\ Len(g.lines) \in Nat /\ Len(f.lines) \in Nat /\ Len(g.lines) <= Len(f.lines) + 1
         /\ \A i \in DOMAIN f.lines : \A k \in DOMAIN f.lines[i] :
              k \in DOMAIN g.lines[i] /\ g.lines[i][k] = f.lines[i][k]
         /\ \A i \in DOMAIN g.lines : \A k \in DOMAIN g.lines[i] :
              \/ i \in DOMAIN f.lines /\ k \in DOMAIN f.lines[i]
              \/ /\ g.lines[i][k] = text
                 /\ \A j \in DOMAIN g.lines : j <= i
                 /\ \A l \in DOMAIN g.lines[i] : l <= k
         /\ \E i \in DOMAIN g.lines : \E k \in DOMAIN g.lines[i] : g.lines[i][k] = text
<1> DEFINE L == f.lines
           M == g.lines
           n == Len(L)
<1>1. /\ L \in Seq(Seq(Text)) /\ f.ended \in BOOLEAN /\ f.exists \in BOOLEAN
      /\ ~f.ended => L # <<>>
  BY DEF File, FileSound
<1>2. /\ n \in Nat /\ DOMAIN L = 1..n /\ \A i \in 1..n : L[i] \in Seq(Text)
  BY <1>1, LenProperties, ElementOfSeq
<1> DEFINE N == IF f.ended THEN Append(L, <<text>>)
                  ELSE [L EXCEPT ![n] = Append(L[n], text)]
<1>3. /\ g = [f EXCEPT !.ended = terminated, !.lines = N]
      /\ g.exists = f.exists /\ g.ended = terminated /\ M = N
  <2>1. g = [f EXCEPT !.ended = terminated, !.lines = N]
    BY <1>1 DEF Written, File
  <2> HIDE DEF N
  <2>2. g.exists = f.exists /\ g.ended = terminated /\ g.lines = N
    BY <2>1 DEF File
  <2> QED BY <2>1, <2>2
<1>4. M \in Seq(Seq(Text)) => g \in File
  <2>1. g = [exists |-> f.exists, lines |-> M, ended |-> terminated]
    <3> HIDE DEF N
    <3> QED BY <1>3 DEF File
  <2> QED BY <1>1, <2>1 DEF File
<1>5. <<text>> \in Seq(Text) /\ Len(<<text>>) = 1 /\ <<text>>[1] = text /\ DOMAIN <<text>> = 1..1
  OBVIOUS
<1> HIDE DEF L, M, n, N
<1>6. CASE f.ended
  <2>1. M = Append(L, <<text>>)
    BY <1>3, <1>6 DEF N
  <2>2. /\ M \in Seq(Seq(Text)) /\ Len(M) = n + 1
        /\ \A i \in 1..n : M[i] = L[i]
        /\ M[n + 1] = <<text>>
    BY <1>1, <1>2, <1>5, <2>1, AppendProperties DEF n
  <2>3. DOMAIN M = 1..(n + 1)
    BY <2>2, LenProperties
  <2>4. /\ n + 1 \in DOMAIN M /\ 1 \in DOMAIN M[n + 1] /\ M[n + 1][1] = text
    BY <1>2, <1>5, <2>2, <2>3
  <2>5. ASSUME NEW i \in DOMAIN M, NEW k \in DOMAIN M[i]
        PROVE  \/ i \in DOMAIN L /\ k \in DOMAIN L[i]
               \/ /\ M[i][k] = text
                  /\ \A j \in DOMAIN M : j <= i
                  /\ \A l \in DOMAIN M[i] : l <= k
    <3>1. CASE i \in 1..n
      BY <1>2, <2>2, <3>1
    <3>2. CASE i = n + 1
      BY <1>2, <1>5, <2>2, <2>3, <3>2
    <3> QED BY <1>2, <2>3, <3>1, <3>2
  <2>6. \A i \in DOMAIN L : \A k \in DOMAIN L[i] : k \in DOMAIN M[i] /\ M[i][k] = L[i][k]
    BY <1>2, <2>2
  <2>7. M # <<>> /\ DOMAIN L \subseteq DOMAIN M /\ Len(M) \in Nat /\ Len(M) <= Len(L) + 1
    BY <1>2, <2>2, <2>3 DEF n
  <2> QED BY <1>2, <1>3, <1>4, <2>2, <2>4, <2>5, <2>6, <2>7 DEF L, M, n
<1>7. CASE ~f.ended
  <2>1. M = [L EXCEPT ![n] = Append(L[n], text)] /\ n \in 1..n
    BY <1>1, <1>2, <1>3, <1>7, EmptySeq DEF n, N
  <2>2. /\ Append(L[n], text) \in Seq(Text) /\ Len(Append(L[n], text)) = Len(L[n]) + 1
        /\ \A k \in 1..Len(L[n]) : Append(L[n], text)[k] = L[n][k]
        /\ Append(L[n], text)[Len(L[n]) + 1] = text
        /\ Len(L[n]) \in Nat /\ DOMAIN L[n] = 1..Len(L[n])
        /\ DOMAIN Append(L[n], text) = 1..(Len(L[n]) + 1)
    BY <1>2, <2>1, AppendProperties, LenProperties
  <2>3. /\ M \in Seq(Seq(Text)) /\ Len(M) = n
        /\ \A i \in 1..n : M[i] = IF i = n THEN Append(L[n], text) ELSE L[i]
    BY <1>1, <2>1, <2>2, ExceptSeq DEF n
  <2>4. DOMAIN M = 1..n
    BY <2>3, LenProperties
  <2>5. n \in DOMAIN M /\ Len(L[n]) + 1 \in DOMAIN M[n] /\ M[n][Len(L[n]) + 1] = text
    BY <2>1, <2>2, <2>3, <2>4
  <2>6. ASSUME NEW i \in DOMAIN M, NEW k \in DOMAIN M[i]
        PROVE  \/ i \in DOMAIN L /\ k \in DOMAIN L[i]
               \/ /\ M[i][k] = text
                  /\ \A j \in DOMAIN M : j <= i
                  /\ \A l \in DOMAIN M[i] : l <= k
    <3>1. CASE i # n
      BY <1>2, <2>3, <2>4, <3>1
    <3>2. CASE i = n /\ k = Len(L[n]) + 1
      BY <1>2, <2>2, <2>3, <2>4, <3>2
    <3>3. CASE i = n /\ k # Len(L[n]) + 1
      BY <1>2, <2>1, <2>2, <2>3, <2>4, <3>3
    <3> QED BY <3>1, <3>2, <3>3
  <2>7. ASSUME NEW i \in DOMAIN L, NEW k \in DOMAIN L[i]
        PROVE  k \in DOMAIN M[i] /\ M[i][k] = L[i][k]
    <3>1. CASE i # n
      BY <1>2, <2>3, <3>1
    <3>2. CASE i = n
      <4>1. M[i] = Append(L[n], text) /\ k \in 1..Len(L[n])
        BY <1>2, <2>2, <2>3, <3>2
      <4> QED BY <2>2, <3>2, <4>1
    <3> QED BY <3>1, <3>2
  <2>8. M # <<>> /\ DOMAIN L \subseteq DOMAIN M /\ Len(M) \in Nat /\ Len(M) <= Len(L) + 1
    <3>1. M # <<>>
      <4>1. n \in DOMAIN M
        BY <2>1, <2>4
      <4> QED BY <4>1
    <3>2. DOMAIN L \subseteq DOMAIN M
      BY <1>2, <2>4
    <3>3. Len(M) = n /\ n = Len(L) /\ n \in Nat
      BY <1>2, <2>3 DEF n
    <3> QED BY <3>1, <3>2, <3>3
  <2>9. g \in File /\ g.exists = f.exists /\ g.ended = terminated
    BY <1>3, <1>4, <2>3
  <2>10. \E i \in DOMAIN M : \E k \in DOMAIN M[i] : M[i][k] = text
    BY <2>5
  <2> QED BY <2>6, <2>7, <2>8, <2>9, <2>10 DEF L, M
<1> QED BY <1>1, <1>6, <1>7


\* The texts of a file are what stands at its places.
LEMMA TextsAt ==
  ASSUME NEW f \in File
  PROVE  /\ \A i \in DOMAIN f.lines : \A k \in DOMAIN f.lines[i] :
              f.lines[i][k] \in Texts(f) /\ f.lines[i][k] \in Text
         /\ \A t \in Texts(f) : \E i \in DOMAIN f.lines : \E k \in DOMAIN f.lines[i] :
              t = f.lines[i][k]
         /\ Texts(f) \subseteq Text
<1>1. f.lines \in Seq(Seq(Text))
  BY DEF File
<1>2. ASSUME NEW i \in DOMAIN f.lines PROVE f.lines[i] \in Seq(Text)
  BY <1>1, ElementOfSeq, LenProperties
<1>3. ASSUME NEW i \in DOMAIN f.lines, NEW k \in DOMAIN f.lines[i]
      PROVE  f.lines[i][k] \in Text /\ f.lines[i][k] \in Texts(f)
  <2>1. f.lines[i][k] \in Text
    BY <1>2, ElementOfSeq, LenProperties
  <2>2. f.lines[i][k] \in Range(f.lines[i])
    BY DEF Range
  <2> QED BY <2>1, <2>2 DEF Texts
<1>4. ASSUME NEW t \in Texts(f)
      PROVE  \E i \in DOMAIN f.lines : \E k \in DOMAIN f.lines[i] : t = f.lines[i][k]
  BY DEF Texts, Range
<1> QED BY <1>3, <1>4

\* Writing adds one text, and one row when the text is whole; it repeats no sample when
\* the file had none of it and nothing torn.
LEMMA WrittenRows ==
  ASSUME NEW f \in File, FileSound(f), f.exists, NEW text \in Text,
         NEW terminated \in BOOLEAN, NEW g, g = Written(f, text, terminated)
  PROVE  /\ g \in File /\ FileSound(g) /\ g.exists
         /\ Len(g.lines) \in Nat /\ Len(f.lines) \in Nat /\ Len(g.lines) <= Len(f.lines) + 1
         /\ Texts(g) = Texts(f) \cup {text}
         /\ text.whole => RowsOf(g) = RowsOf(f) \cup {text.sample}
         /\ ~text.whole => RowsOf(g) = RowsOf(f)
         /\ (\A t \in Texts(f) : t.whole) /\ text.sample \notin RowsOf(f) /\ OncePerSample(f)
              => OncePerSample(g)
<1>1. /\ g \in File /\ g.lines # <<>>
      /\ DOMAIN f.lines \subseteq DOMAIN g.lines
      /\ Len(g.lines) \in Nat /\ Len(f.lines) \in Nat /\ Len(g.lines) <= Len(f.lines) + 1
  BY WrittenLines
<1>2. \A i \in DOMAIN f.lines : \A k \in DOMAIN f.lines[i] :
        k \in DOMAIN g.lines[i] /\ g.lines[i][k] = f.lines[i][k]
  BY WrittenLines
<1>3. \A i \in DOMAIN g.lines : \A k \in DOMAIN g.lines[i] :
        \/ i \in DOMAIN f.lines /\ k \in DOMAIN f.lines[i]
        \/ /\ g.lines[i][k] = text
           /\ \A j \in DOMAIN g.lines : j <= i
           /\ \A l \in DOMAIN g.lines[i] : l <= k
  BY WrittenLines
<1>4. \E i \in DOMAIN g.lines : \E k \in DOMAIN g.lines[i] : g.lines[i][k] = text
  BY WrittenLines
<1>5. Texts(g) = Texts(f) \cup {text}
  <2>1. ASSUME NEW t \in Texts(g) PROVE t \in Texts(f) \cup {text}
    BY <1>1, <1>2, <1>3, TextsAt
  <2>2. ASSUME NEW t \in Texts(f) PROVE t \in Texts(g)
    BY <1>1, <1>2, TextsAt
  <2>3. text \in Texts(g)
    BY <1>1, <1>4, TextsAt
  <2> QED BY <2>1, <2>2, <2>3
<1>6. /\ text.whole => RowsOf(g) = RowsOf(f) \cup {text.sample}
      /\ ~text.whole => RowsOf(g) = RowsOf(f)
  BY <1>5 DEF RowsOf
<1>7. ASSUME \A t \in Texts(f) : t.whole, text.sample \notin RowsOf(f), OncePerSample(f)
      PROVE  OncePerSample(g)
  <2> SUFFICES ASSUME NEW i \in DOMAIN g.lines, NEW j \in DOMAIN g.lines,
                      NEW k \in DOMAIN g.lines[i], NEW l \in DOMAIN g.lines[j],
                      i < j \/ (i = j /\ k < l)
               PROVE  g.lines[i][k].whole /\ g.lines[i][k].sample # g.lines[j][l].sample
    BY DEF OncePerSample
  <2>1. i \in Int /\ j \in Int /\ k \in Int /\ l \in Int
    <3>1. g.lines \in Seq(Seq(Text))
      BY <1>1 DEF File
    <3>2. g.lines[i] \in Seq(Text) /\ g.lines[j] \in Seq(Text)
      BY <3>1, ElementOfSeq, LenProperties
    <3> QED BY <3>1, <3>2, LenProperties
  <2>2. i \in DOMAIN f.lines /\ k \in DOMAIN f.lines[i]
    BY <1>3, <2>1
  <2>3. /\ g.lines[i][k] = f.lines[i][k] /\ f.lines[i][k] \in Texts(f)
        /\ f.lines[i][k].sample \in RowsOf(f)
    BY <1>2, <1>7, <2>2, TextsAt DEF RowsOf
  <2>4. CASE j \in DOMAIN f.lines /\ l \in DOMAIN f.lines[j]
    BY <1>2, <1>7, <2>2, <2>3, <2>4 DEF OncePerSample
  <2>5. CASE g.lines[j][l] = text
    BY <1>7, <2>3, <2>5
  <2> QED BY <1>3, <2>4, <2>5
<1>8. FileSound(g) /\ g.exists
  <2> DEFINE N == IF f.ended THEN Append(f.lines, <<text>>)
                  ELSE [f.lines EXCEPT ![Len(f.lines)] = Append(f.lines[Len(f.lines)], text)]
  <2>1. g = [f EXCEPT !.ended = terminated, !.lines = N]
    BY DEF Written, File
  <2> HIDE DEF N
  <2>2. g.exists = f.exists
    BY <2>1 DEF File
  <2>3. g.exists
    BY <2>2
  <2> QED BY <1>1, <2>3 DEF FileSound
<1> QED BY <1>1, <1>5, <1>6, <1>7, <1>8

\* What a reader accepts has only whole texts, and as ids its rows.
LEMMA ReadableRows ==
  ASSUME NEW f \in File, Readable(f)
  PROVE  /\ \A t \in Texts(f) : t.whole
         /\ Range(RowIds(f)) = RowsOf(f)
         /\ RowsOf(f) \subseteq Samples
         /\ IsFiniteSet(RowsOf(f))
         /\ f.lines # <<>> => RowsOf(f) # {}
<1>1. /\ f.lines \in Seq(Seq(Text)) /\ Len(f.lines) \in Nat /\ DOMAIN f.lines = 1..Len(f.lines)
  BY LenProperties DEF File
<1>2. ASSUME NEW i \in DOMAIN f.lines
      PROVE  DOMAIN f.lines[i] = 1..1 /\ f.lines[i][1].whole /\ f.lines[i][1] \in Texts(f)
  <2>1. f.lines[i] \in Seq(Text) /\ Len(f.lines[i]) = 1 /\ f.lines[i][1].whole
    BY <1>1, ElementOfSeq DEF Readable, Parses
  <2>2. DOMAIN f.lines[i] = 1..1
    BY <2>1, LenProperties
  <2> QED BY <2>1, <2>2, TextsAt
<1>3. ASSUME NEW t \in Texts(f)
      PROVE  t \in Text /\ t.whole /\ \E i \in DOMAIN f.lines : t = f.lines[i][1]
  <2>1. PICK i \in DOMAIN f.lines : \E k \in DOMAIN f.lines[i] : t = f.lines[i][k]
    BY TextsAt
  <2>2. t = f.lines[i][1]
    BY <1>2, <2>1
  <2> QED BY <1>2, <2>2, TextsAt
<1>4. Range(RowIds(f)) = {f.lines[i][1].sample : i \in DOMAIN f.lines}
  BY DEF Range, RowIds
<1>5. Range(RowIds(f)) = RowsOf(f)
  <2>1. ASSUME NEW s \in RowsOf(f) PROVE s \in Range(RowIds(f))
    BY <1>3, <1>4 DEF RowsOf
  <2>2. ASSUME NEW s \in Range(RowIds(f)) PROVE s \in RowsOf(f)
    BY <1>2, <1>4 DEF RowsOf
  <2> QED BY <2>1, <2>2
<1>6. RowsOf(f) \subseteq Samples
  BY <1>3 DEF RowsOf, Text
<1>7. IsFiniteSet(RowsOf(f))
  <2> DEFINE S == Range(RowIds(f))
             h == [i \in 1..Len(f.lines) |-> f.lines[i][1].sample]
  <2>1. h \in Surjection(1..Len(f.lines), S)
    BY <1>1, <1>4 DEF Surjection
  <2>2. IsFiniteSet(1..Len(f.lines))
    BY <1>1, FS_Interval
  <2>3. IsFiniteSet(S)
    BY <2>1, <2>2, FS_Surjection
  <2> QED BY <1>5, <2>3
<1>8. f.lines # <<>> => RowsOf(f) # {}
  <2>1. f.lines # <<>> => 1 \in DOMAIN f.lines
    BY <1>1, EmptySeq
  <2> QED BY <1>4, <1>5, <2>1
<1> QED BY <1>3, <1>5, <1>6, <1>7, <1>8


------------------------------------------------------------------------------
(* RunInv: one step of a collection after the other.                        *)

\* RunInv is about the state of the directory and of the collection alone.
LEMMA RunInitial == Init => RunInv
<1> SUFFICES ASSUME Init PROVE RunInv
  OBVIOUS
<1>1. samples = NoFile /\ errors = NoFile /\ run = NoRun /\ manifest = NoManifest /\ launches = 0
  BY DEF Init
<1>2. NoFile \in File /\ FileSound(NoFile) /\ NoFile.lines = <<>> /\ DOMAIN NoFile.lines = {}
  BY DEF NoFile, File, FileSound
<1>3. run.phase = "idle" /\ NoManifest.status = "absent"
  BY <1>1 DEF NoRun, NoManifest
<1>4. EachSampleOnce
  BY <1>1, <1>2 DEF EachSampleOnce, OncePerSample
<1> QED
  BY <1>1, <1>2, <1>3, <1>4 DEF RunInv, RunTypeOK, WorkInv, Working, IdentityInv, Running

\* What the invariant says of a collection at work.
LEMMA WorkFacts ==
  ASSUME RunInv, Working
  PROVE  /\ run \in AtWork /\ run.config.dataset \in Seq(Samples)
         /\ Len(run.config.dataset) \in Nat
         /\ DOMAIN run.config.dataset = 1..Len(run.config.dataset)
         /\ run.config.maximum \in Nat
         /\ manifest # NoManifest /\ manifest.identity = run.config
         /\ RowsOf(samples) \subseteq Range(run.config.dataset)
<1>1. run \in AtWork
  BY DEF RunInv, RunTypeOK, Working, NoRun
<1>2. run.config \in Configs
  BY <1>1 DEF AtWork
<1>3. run.config.dataset \in Seq(Samples) /\ run.config.maximum \in Nat
  BY <1>2, ConfigsAssumption
<1>4. Running
  BY DEF Working, Running
<1>5. /\ manifest # NoManifest /\ manifest.identity = run.config
      /\ RowsOf(samples) \subseteq Range(run.config.dataset)
  BY <1>4 DEF RunInv, IdentityInv
<1> QED BY <1>1, <1>3, <1>5, LenProperties

\* The sample a collection is about to write is one of its dataset, and new.
LEMMA SampleFacts ==
  ASSUME RunInv, run.phase = "sample"
  PROVE  /\ Example \in Samples /\ Example \in Range(run.config.dataset)
         /\ Example \notin RowsOf(samples)
         /\ \A b \in BOOLEAN : Row(Example, b) \in Text /\ Row(Example, b).sample = Example
                               /\ Row(Example, b).whole = b
<1>1. Working
  BY DEF Working
<1>2. /\ run.position \in Nat /\ run.position < Len(run.config.dataset)
      /\ Example \notin run.completed /\ run.completed = RowsOf(samples)
  BY <1>1, WorkFacts DEF RunInv, WorkInv, AtWork
<1>3. run.position + 1 \in DOMAIN run.config.dataset
  BY <1>1, <1>2, WorkFacts
<1>4. Example \in Samples /\ Example \in Range(run.config.dataset)
  BY <1>1, <1>3, WorkFacts, ElementOfSeq DEF Example, Range
<1> QED BY <1>2, <1>4 DEF Row, Text

\* A collection that stops leaves the directory in order: its manifest is of the
\* configuration it was of, if it wrote one, and its rows are once each.
LEMMA StopKeeps ==
  ASSUME RunInv, run' = NoRun \/ run' = [phase |-> "returned"], launches' = launches,
         samples' \in File, errors' \in File, FileSound(samples'), FileSound(errors'),
         OncePerSample(samples'),
         manifest' = manifest
           \/ /\ manifest # NoManifest /\ manifest'.identity = manifest.identity
              /\ manifest' \in [status : Statuses, identity : Configs, completed : Nat, errors : Nat],
         manifest # NoManifest => RowsOf(samples') \subseteq Range(manifest.identity.dataset)
  PROVE  RunInv'
<1>1. run'.phase \in {"idle", "returned"}
  BY DEF NoRun
<1>2. RunTypeOK'
  <2>1. launches' \in Nat /\ (manifest' = NoManifest
          \/ manifest' \in [status : Statuses, identity : Configs, completed : Nat, errors : Nat])
    BY DEF RunInv, RunTypeOK
  <2> QED BY <2>1 DEF RunTypeOK
<1>3. WorkInv' /\ IdentityInv'
  BY <1>1 DEF WorkInv, Working, IdentityInv, Running
<1>4. EachSampleOnce'
  BY DEF EachSampleOnce
<1> QED BY <1>2, <1>3, <1>4 DEF RunInv


\* Starting is refused, or goes on with the configuration the manifest is of.
LEMMA StartKeeps ==
  ASSUME RunInv, NEW config \in Configs, NEW resume \in BOOLEAN, Start(config, resume),
         launches' \in Nat
  PROVE  RunInv' /\ (run' = NoRun \/ run' = Entered(config))
<1>1. UNCHANGED <<samples, errors>>
  BY DEF Start
<1>2. \/ run' = NoRun /\ UNCHANGED manifest
      \/ run' = Entered(config) /\ UNCHANGED manifest
         /\ manifest # NoManifest /\ manifest.identity = config
      \/ run' = Entered(config) /\ ~samples.exists
         /\ manifest' = [status |-> "running", identity |-> config, completed |-> 0, errors |-> 0]
  BY DEF Start
<1>3. run'.phase \in {"idle", "loading"} /\ (run' = Entered(config) => run'.config = config)
  BY <1>2 DEF NoRun, Entered
<1>4. Entered(config) \in [phase : {"loading"}, config : Configs]
  BY DEF Entered
<1>5. manifest' = NoManifest
      \/ manifest' \in [status : Statuses, identity : Configs, completed : Nat, errors : Nat]
  BY <1>2 DEF RunInv, RunTypeOK, Statuses
<1>6. RunTypeOK'
  BY <1>1, <1>2, <1>4, <1>5 DEF RunInv, RunTypeOK
<1>7. WorkInv'
  BY <1>3 DEF WorkInv, Working
<1>8. EachSampleOnce' /\ FileSound(samples)' /\ FileSound(errors)'
  BY <1>1 DEF RunInv, EachSampleOnce, OncePerSample, FileSound
<1>9. IdentityInv'
  <2>1. RowsOf(samples)' = RowsOf(samples)
    BY <1>1 DEF RowsOf, Texts
  <2>2. CASE UNCHANGED manifest /\ run' = NoRun
    BY <1>3, <2>1, <2>2 DEF RunInv, IdentityInv, Running, NoRun
  <2>3. CASE /\ run' = Entered(config) /\ UNCHANGED manifest
             /\ manifest # NoManifest /\ manifest.identity = config
    BY <1>3, <2>1, <2>3 DEF RunInv, IdentityInv, Running
  <2>4. CASE /\ run' = Entered(config) /\ ~samples.exists
             /\ manifest' = [status |-> "running", identity |-> config,
                             completed |-> 0, errors |-> 0]
    <3>1. samples.lines = <<>>
      BY <2>4 DEF RunInv, FileSound
    <3>2. RowsOf(samples) = {}
      BY <3>1 DEF RowsOf, Texts
    <3>3. manifest' # NoManifest /\ manifest'.identity = config
      BY <2>4 DEF NoManifest
    <3> QED BY <1>3, <2>1, <2>4, <3>2, <3>3 DEF IdentityInv, Running
  <2> QED BY <1>2, <2>2, <2>3, <2>4
<1> QED BY <1>2, <1>6, <1>7, <1>8, <1>9 DEF RunInv

\* Opening a file changes nothing that is written in it.
LEMMA OpenedKeeps ==
  ASSUME NEW f \in File, FileSound(f), NEW g, g = Opened(f)
  PROVE  /\ g \in File /\ FileSound(g) /\ g.exists /\ g.lines = f.lines
         /\ Texts(g) = Texts(f) /\ RowsOf(g) = RowsOf(f)
         /\ OncePerSample(f) => OncePerSample(g)
<1>1. g = [exists |-> TRUE, lines |-> f.lines, ended |-> f.ended]
  BY DEF Opened, File
<1>2. g \in File /\ g.exists /\ g.lines = f.lines
  BY <1>1 DEF File
<1>3. FileSound(g)
  BY <1>1 DEF FileSound
<1>4. Texts(g) = Texts(f)
  BY <1>2 DEF Texts
<1>5. RowsOf(g) = RowsOf(f)
  BY <1>4 DEF RowsOf
<1>6. OncePerSample(f) => OncePerSample(g)
  BY <1>2 DEF OncePerSample
<1> QED BY <1>2, <1>3, <1>4, <1>5, <1>6

\* Loading counts what the files hold, or gives up on a row it cannot read.
LEMMA LoadKeeps ==
  ASSUME RunInv, Load, launches' = launches
  PROVE  /\ RunInv' /\ manifest' = manifest /\ errors'.lines = errors.lines
         /\ RowsOf(samples') = RowsOf(samples) /\ (samples.exists => samples'.exists)
         /\ run'.phase = "idle" \/ (Working' /\ run'.config = run.config)
<1>1. run \in [phase : {"loading"}, config : Configs]
  BY DEF Load, RunInv, RunTypeOK, NoRun, AtWork
<1>2. /\ manifest # NoManifest /\ manifest.identity = run.config
      /\ RowsOf(samples) \subseteq Range(manifest.identity.dataset)
  BY DEF RunInv, IdentityInv, Running, Load
<1>3. /\ samples \in File /\ errors \in File /\ FileSound(samples) /\ FileSound(errors)
      /\ OncePerSample(samples)
  BY DEF RunInv, RunTypeOK, EachSampleOnce
<1>4. CASE ~Readable(samples)
  <2>1. run' = NoRun /\ samples' = samples /\ errors' = errors /\ manifest' = manifest
    BY <1>4 DEF Load
  <2>2. /\ samples' \in File /\ errors' \in File /\ FileSound(samples') /\ FileSound(errors')
        /\ OncePerSample(samples')
        /\ manifest # NoManifest => RowsOf(samples') \subseteq Range(manifest.identity.dataset)
    BY <1>2, <1>3, <2>1
  <2>3. RunInv'
    BY <2>1, <2>2, StopKeeps
  <2> QED BY <2>1, <2>3 DEF NoRun
<1>5. CASE Readable(samples)
  <2>1. /\ samples' = Opened(samples) /\ errors' = Opened(errors) /\ manifest' = manifest
        /\ run' = [phase |-> "loop", config |-> run.config, position |-> 0,
                   completed |-> Range(RowIds(samples)),
                   completed_count |-> Cardinality(Range(RowIds(samples))),
                   error_count |-> Len(errors.lines), yielded_count |-> 0]
    BY <1>5 DEF Load
  <2>2. /\ \A t \in Texts(samples) : t.whole
        /\ Range(RowIds(samples)) = RowsOf(samples)
        /\ RowsOf(samples) \subseteq Samples /\ IsFiniteSet(RowsOf(samples))
    BY <1>3, <1>5, ReadableRows
  <2>3. Cardinality(RowsOf(samples)) \in Nat /\ Len(errors.lines) \in Nat
    BY <1>3, <2>2, FS_CardinalityType, LenProperties DEF File
  <2>4. /\ samples' \in File /\ FileSound(samples') /\ samples'.exists
        /\ Texts(samples') = Texts(samples) /\ RowsOf(samples') = RowsOf(samples)
        /\ OncePerSample(samples')
    BY <1>3, <2>1, OpenedKeeps
  <2>5. errors' \in File /\ FileSound(errors') /\ errors'.exists /\ errors'.lines = errors.lines
    BY <1>3, <2>1, OpenedKeeps
  <2>6. run' \in AtWork
    BY <1>1, <2>1, <2>2, <2>3 DEF AtWork
  <2>7. /\ run'.phase = "loop" /\ run'.config = run.config /\ run'.position = 0
        /\ run'.completed = RowsOf(samples)
        /\ run'.completed_count = Cardinality(RowsOf(samples))
        /\ run'.error_count = Len(errors.lines)
    BY <2>1, <2>2
  <2>8. Len(run.config.dataset) \in Nat
    BY <1>1, ConfigsAssumption, LenProperties
  <2>9. RunTypeOK'
    BY <2>1, <2>4, <2>5, <2>6 DEF RunInv, RunTypeOK
  <2>10. WorkInv'
    <3>1. /\ run'.completed = RowsOf(samples') /\ IsFiniteSet(run'.completed)
          /\ run'.completed_count = Cardinality(run'.completed)
          /\ Len(errors'.lines) <= run'.error_count
          /\ run'.position <= Len(run'.config.dataset)
      BY <2>2, <2>3, <2>4, <2>5, <2>7, <2>8
    <3>2. \A t \in Texts(samples') : t.whole
      BY <2>2, <2>4
    <3>3. 1..run'.position = {}
      BY <2>7
    <3> QED BY <2>4, <2>5, <2>7, <3>1, <3>2, <3>3 DEF WorkInv
  <2>11. IdentityInv'
    BY <1>2, <2>1, <2>4, <2>7 DEF IdentityInv, Running
  <2>12. Working' /\ run'.config = run.config
    BY <2>7 DEF Working
  <2>13. RunInv'
    BY <2>4, <2>5, <2>9, <2>10, <2>11 DEF RunInv, EachSampleOnce
  <2> QED BY <2>1, <2>4, <2>5, <2>12, <2>13
<1> QED BY <1>4, <1>5


\* The moves of the loop that write nothing leave the collection's books in order.
LEMMA LoopMoveKeeps ==
  ASSUME RunInv, SkipCompleted \/ BeginSample \/ LeaveLoop, launches' = launches
  PROVE  RunInv' /\ Working' /\ run'.config = run.config
<1>1. run.phase = "loop" /\ Working
  BY DEF SkipCompleted, BeginSample, LeaveLoop, AtExample, Working
<1>2. manifest' = manifest /\ samples' = samples /\ errors' = errors
  BY DEF SkipCompleted, BeginSample, LeaveLoop
<1>3. /\ run \in AtWork /\ run.config.dataset \in Seq(Samples)
      /\ Len(run.config.dataset) \in Nat /\ run.config.maximum \in Nat
      /\ manifest # NoManifest /\ manifest.identity = run.config
  BY <1>1, WorkFacts
<1>4. /\ samples.exists /\ errors.exists
      /\ \A t \in Texts(samples) : t.whole
      /\ run.completed = RowsOf(samples)
      /\ IsFiniteSet(run.completed) /\ run.completed_count = Cardinality(run.completed)
      /\ Len(errors.lines) <= run.error_count
      /\ run.position <= Len(run.config.dataset)
      /\ \A i \in 1..run.position :
            run.config.dataset[i] \in run.completed \/ run.error_count > 0
  BY <1>1 DEF RunInv, WorkInv
<1> DEFINE Moved(place, position, yielded) ==
             [phase |-> place, config |-> run.config, position |-> position,
              completed |-> run.completed, completed_count |-> run.completed_count,
              error_count |-> run.error_count, yielded_count |-> yielded]
<1>5. PICK place \in {"loop", "sample", "finishing"}, position \in Nat, yielded \in Nat :
        /\ run' = Moved(place, position, yielded)
        /\ \/ place = "loop" /\ position = run.position + 1
              /\ AtExample /\ Example \in run.completed
           \/ place = "sample" /\ position = run.position
              /\ AtExample /\ Example \notin run.completed
           \/ place = "finishing" /\ position = run.position
              /\ (run.position = Len(run.config.dataset) \/ AtMaximum)
  <2>1. run.position \in Nat /\ run.yielded_count \in Nat
    BY <1>3 DEF AtWork
  <2>2. CASE SkipCompleted
    <3>1. run' = Moved("loop", run.position + 1, run.yielded_count)
      BY <1>1, <1>3, <2>2 DEF SkipCompleted, AtWork
    <3>2. AtExample /\ Example \in run.completed
      BY <2>2 DEF SkipCompleted, Skipped
    <3> DEFINE next == run.position + 1
    <3>3. next \in Nat
      BY <2>1
    <3> HIDE DEF Moved
    <3> SUFFICES \E place \in {"loop", "sample", "finishing"}, yielded \in Nat :
                   /\ run' = Moved(place, next, yielded)
                   /\ place = "loop" /\ AtExample /\ Example \in run.completed
      BY <3>3
    <3> QED BY <2>1, <3>1, <3>2
  <2>3. CASE BeginSample
    <3>1. run' = Moved("sample", run.position, run.yielded_count + 1)
      BY <1>3, <2>3 DEF BeginSample, AtWork
    <3>2. AtExample /\ Example \notin run.completed
      BY <2>3 DEF BeginSample, Skipped
    <3> HIDE DEF Moved
    <3> QED BY <2>1, <3>1, <3>2
  <2>4. CASE LeaveLoop
    <3>1. run' = Moved("finishing", run.position, run.yielded_count)
      BY <1>3, <2>4 DEF LeaveLoop, AtWork
    <3>2. run.position = Len(run.config.dataset) \/ AtMaximum
      BY <2>4 DEF LeaveLoop
    <3> HIDE DEF Moved
    <3> QED BY <2>1, <3>1, <3>2
  <2> QED BY <2>2, <2>3, <2>4
<1>6. /\ run' \in AtWork /\ run'.config = run.config /\ run'.completed = run.completed
      /\ run'.completed_count = run.completed_count /\ run'.error_count = run.error_count
      /\ run'.phase = place /\ run'.position = position
  BY <1>3, <1>5 DEF AtWork
<1>7. run.position \in Nat /\ (AtExample => run.position < Len(run.config.dataset))
  BY <1>3 DEF AtWork, AtExample
<1>8. Working'
  BY <1>5, <1>6 DEF Working
<1>9. RunTypeOK'
  BY <1>2, <1>6 DEF RunInv, RunTypeOK
<1>10. WorkInv'
  <2>1. \A i \in 1..run'.position :
          run'.config.dataset[i] \in run'.completed \/ run'.error_count > 0
    <3> SUFFICES ASSUME NEW i \in 1..run'.position, i \notin 1..run.position
                 PROVE  run'.config.dataset[i] \in run'.completed
      BY <1>4, <1>6
    <3>1. i = run.position + 1 /\ Example \in run.completed
      BY <1>5, <1>6, <1>7
    <3> QED BY <1>6, <3>1 DEF Example
  <2>2. run'.position <= Len(run'.config.dataset)
    BY <1>3, <1>4, <1>5, <1>6, <1>7
  <2>3. run'.phase = "sample" =>
          run'.position < Len(run'.config.dataset) /\ Example' \notin run'.completed
    BY <1>5, <1>6, <1>7 DEF Example
  <2>4. run'.phase = "finishing" =>
          run'.position = Len(run'.config.dataset) \/ run'.config.maximum # 0
    BY <1>5, <1>6 DEF AtMaximum
  <2>5. samples'.exists /\ errors'.exists /\ (\A t \in Texts(samples') : t.whole)
        /\ run'.completed = RowsOf(samples') /\ Len(errors'.lines) <= run'.error_count
    BY <1>2, <1>4, <1>6
  <2> QED BY <1>4, <1>6, <2>1, <2>2, <2>3, <2>4, <2>5 DEF WorkInv
<1>11. EachSampleOnce' /\ FileSound(samples)' /\ FileSound(errors)'
  BY <1>2 DEF RunInv, EachSampleOnce, OncePerSample, FileSound
<1>12. IdentityInv'
  <2>1. RowsOf(samples)' = RowsOf(samples)
    BY <1>2 DEF RowsOf, Texts
  <2> QED BY <1>2, <1>3, <1>6, <2>1 DEF RunInv, IdentityInv
<1> QED BY <1>6, <1>8, <1>9, <1>10, <1>11, <1>12 DEF RunInv

\* A recorded sample is one row more, on its own, and one completed sample more.
LEMMA RecordKeeps ==
  ASSUME RunInv, RecordSample, launches' = launches
  PROVE  RunInv' /\ Working' /\ run'.config = run.config
<1>1. run.phase = "sample" /\ Working
  BY DEF RecordSample, Working
<1>2. manifest' = manifest /\ errors' = errors
      /\ samples' = Written(samples, Row(Example, TRUE), TRUE)
  BY DEF RecordSample
<1>3. /\ run \in AtWork /\ run.config.dataset \in Seq(Samples)
      /\ Len(run.config.dataset) \in Nat
      /\ manifest # NoManifest /\ manifest.identity = run.config
      /\ RowsOf(samples) \subseteq Range(run.config.dataset)
  BY <1>1, WorkFacts
<1>4. /\ samples.exists /\ errors.exists
      /\ \A t \in Texts(samples) : t.whole
      /\ run.completed = RowsOf(samples)
      /\ IsFiniteSet(run.completed) /\ run.completed_count = Cardinality(run.completed)
      /\ Len(errors.lines) <= run.error_count
      /\ run.position < Len(run.config.dataset)
      /\ \A i \in 1..run.position :
            run.config.dataset[i] \in run.completed \/ run.error_count > 0
  BY <1>1 DEF RunInv, WorkInv
<1>5. /\ Example \in Samples /\ Example \in Range(run.config.dataset)
      /\ Example \notin RowsOf(samples)
      /\ Row(Example, TRUE) \in Text /\ Row(Example, TRUE).sample = Example
      /\ Row(Example, TRUE).whole
  BY <1>1, SampleFacts
<1>6. run' \in AtWork /\ run'.config = run.config /\ run'.phase = "loop"
      /\ run'.position = run.position + 1 /\ run'.error_count = run.error_count
      /\ run'.completed = run.completed \cup {Example}
      /\ run'.completed_count = run.completed_count + 1
  <2>1. run' = [phase |-> "loop", config |-> run.config, position |-> run.position + 1,
                completed |-> run.completed \cup {Example},
                completed_count |-> run.completed_count + 1,
                error_count |-> run.error_count, yielded_count |-> run.yielded_count]
    BY <1>3 DEF RecordSample, AtWork
  <2> QED BY <1>3, <1>5, <2>1 DEF AtWork
<1>7. samples \in File /\ FileSound(samples) /\ OncePerSample(samples)
  BY DEF RunInv, RunTypeOK, EachSampleOnce
<1>8. /\ samples' \in File /\ FileSound(samples') /\ samples'.exists
      /\ Texts(samples') = Texts(samples) \cup {Row(Example, TRUE)}
      /\ RowsOf(samples') = RowsOf(samples) \cup {Example}
      /\ OncePerSample(samples')
  <2> DEFINE text == Row(Example, TRUE)
  <2>1. /\ text \in Text /\ text.sample = Example /\ text.whole
        /\ samples' = Written(samples, text, TRUE)
    BY <1>2, <1>5
  <2> HIDE DEF text
  <2>2. /\ samples' \in File /\ FileSound(samples') /\ samples'.exists
        /\ Texts(samples') = Texts(samples) \cup {text}
        /\ text.whole => RowsOf(samples') = RowsOf(samples) \cup {text.sample}
        /\ (\A t \in Texts(samples) : t.whole) /\ text.sample \notin RowsOf(samples)
             /\ OncePerSample(samples) => OncePerSample(samples')
    BY <1>4, <1>7, <2>1, WrittenRows
  <2> QED BY <1>4, <1>5, <1>7, <2>1, <2>2 DEF text
<1>9. Working'
  BY <1>6 DEF Working
<1>10. RunTypeOK'
  BY <1>2, <1>6, <1>8 DEF RunInv, RunTypeOK
<1>11. WorkInv'
  <2>1. \A i \in 1..run'.position :
          run'.config.dataset[i] \in run'.completed \/ run'.error_count > 0
    <3>1. run.position \in Nat
      BY <1>3 DEF AtWork
    <3> QED BY <1>4, <1>6, <3>1 DEF Example
  <2>2. run'.position <= Len(run'.config.dataset)
    BY <1>3, <1>4, <1>6 DEF AtWork
  <2>3. samples'.exists /\ errors'.exists /\ (\A t \in Texts(samples') : t.whole)
        /\ run'.completed = RowsOf(samples') /\ Len(errors'.lines) <= run'.error_count
    BY <1>2, <1>4, <1>5, <1>6, <1>8
  <2>4. IsFiniteSet(run'.completed) /\ run'.completed_count = Cardinality(run'.completed)
    BY <1>4, <1>5, <1>6, FS_AddElement
  <2> QED BY <1>6, <2>1, <2>2, <2>3, <2>4 DEF WorkInv
<1>12. FileSound(errors)'
  BY <1>2 DEF RunInv, FileSound
<1>13. IdentityInv'
  BY <1>2, <1>3, <1>5, <1>6, <1>8 DEF IdentityInv
<1> QED BY <1>6, <1>8, <1>9, <1>10, <1>11, <1>12, <1>13 DEF RunInv, EachSampleOnce


\* A failed sample is one line more in the other file, and one error more.
LEMMA FailKeeps ==
  ASSUME RunInv, FailSample, launches' = launches
  PROVE  RunInv' /\ Working' /\ run'.config = run.config
<1>1. run.phase = "sample" /\ Working
  BY DEF FailSample, Working
<1>2. manifest' = manifest /\ samples' = samples
      /\ errors' = Written(errors, Row(Example, TRUE), TRUE)
  BY DEF FailSample
<1>3. /\ run \in AtWork /\ run.config.dataset \in Seq(Samples)
      /\ Len(run.config.dataset) \in Nat
      /\ manifest # NoManifest /\ manifest.identity = run.config
      /\ RowsOf(samples) \subseteq Range(run.config.dataset)
  BY <1>1, WorkFacts
<1>4. /\ samples.exists /\ errors.exists
      /\ \A t \in Texts(samples) : t.whole
      /\ run.completed = RowsOf(samples)
      /\ IsFiniteSet(run.completed) /\ run.completed_count = Cardinality(run.completed)
      /\ Len(errors.lines) <= run.error_count
      /\ run.position < Len(run.config.dataset)
  BY <1>1 DEF RunInv, WorkInv
<1> DEFINE after == IF run.config.continue_on_error THEN "loop" ELSE "failing"
<1>5. after \in {"loop", "failing"}
  OBVIOUS
<1>6. run' \in AtWork /\ run'.config = run.config /\ run'.phase = after
      /\ run'.position = run.position + 1 /\ run'.error_count = run.error_count + 1
      /\ run'.completed = run.completed /\ run'.completed_count = run.completed_count
  <2>1. run' = [run EXCEPT !.error_count = @ + 1, !.position = @ + 1, !.phase = after]
    BY DEF FailSample
  <2> HIDE DEF after
  <2>2. run' = [phase |-> after, config |-> run.config, position |-> run.position + 1,
                completed |-> run.completed, completed_count |-> run.completed_count,
                error_count |-> run.error_count + 1, yielded_count |-> run.yielded_count]
    BY <1>3, <2>1 DEF AtWork
  <2> QED BY <1>3, <1>5, <2>2 DEF AtWork
<1> HIDE DEF after
<1>7. /\ errors' \in File /\ FileSound(errors') /\ errors'.exists
      /\ Len(errors'.lines) \in Nat /\ Len(errors.lines) \in Nat
      /\ Len(errors'.lines) <= Len(errors.lines) + 1
  <2> DEFINE text == Row(Example, TRUE)
  <2>1. text \in Text /\ errors' = Written(errors, text, TRUE)
    BY <1>1, <1>2, SampleFacts
  <2>2. errors \in File /\ FileSound(errors)
    BY DEF RunInv, RunTypeOK
  <2> HIDE DEF text
  <2> QED BY <1>4, <2>1, <2>2, WrittenRows
<1>8. Working'
  BY <1>5, <1>6 DEF Working
<1>9. RunTypeOK'
  BY <1>2, <1>6, <1>7 DEF RunInv, RunTypeOK
<1>10. WorkInv'
  <2>1. run.error_count \in Nat /\ run.position \in Nat
    BY <1>3 DEF AtWork
  <2>2. run'.position <= Len(run'.config.dataset) /\ run'.error_count > 0
    BY <1>3, <1>4, <1>6, <2>1
  <2>3. Len(errors'.lines) <= run'.error_count
    BY <1>4, <1>6, <1>7, <2>1
  <2>4. samples'.exists /\ errors'.exists /\ (\A t \in Texts(samples') : t.whole)
        /\ run'.completed = RowsOf(samples')
    BY <1>2, <1>4, <1>6, <1>7
  <2> QED BY <1>4, <1>5, <1>6, <2>2, <2>3, <2>4 DEF WorkInv
<1>11. EachSampleOnce' /\ FileSound(samples)'
  BY <1>2 DEF RunInv, EachSampleOnce, OncePerSample, FileSound
<1>12. IdentityInv'
  <2>1. RowsOf(samples)' = RowsOf(samples)
    BY <1>2 DEF RowsOf, Texts
  <2> QED BY <1>2, <1>3, <1>6, <2>1 DEF RunInv, IdentityInv
<1> QED BY <1>6, <1>7, <1>8, <1>9, <1>10, <1>11, <1>12 DEF RunInv

\* Closing writes the counts of the files, and "complete" only for a dataset whose every
\* sample has its row, with no error on record.
LEMMA CloseKeeps ==
  ASSUME RunInv, Abort \/ Finish, launches' = launches
  PROVE  /\ RunInv'
         /\ UNCHANGED <<samples, errors>>
         /\ manifest' # NoManifest /\ manifest'.identity = run.config
         /\ manifest'.completed = Cardinality(RowsOf(samples))
         /\ manifest'.errors >= Len(errors.lines)
         /\ manifest'.status = "complete" /\ run.config.maximum = 0 =>
              /\ errors.lines = <<>> /\ RowsOf(samples) = Range(run.config.dataset)
<1>1. run.phase \in {"failing", "finishing"} /\ Working
  BY DEF Abort, Finish, Working
<1>2. samples' = samples /\ errors' = errors
  BY DEF Abort, Finish
<1>3. /\ run \in AtWork /\ run.config.dataset \in Seq(Samples)
      /\ Len(run.config.dataset) \in Nat
      /\ DOMAIN run.config.dataset = 1..Len(run.config.dataset)
      /\ manifest # NoManifest /\ manifest.identity = run.config
      /\ RowsOf(samples) \subseteq Range(run.config.dataset)
  BY <1>1, WorkFacts
<1>4. /\ run.completed = RowsOf(samples)
      /\ run.completed_count = Cardinality(run.completed)
      /\ Len(errors.lines) <= run.error_count
      /\ \A i \in 1..run.position :
            run.config.dataset[i] \in run.completed \/ run.error_count > 0
      /\ run.phase = "finishing" =>
            run.position = Len(run.config.dataset) \/ run.config.maximum # 0
  BY <1>1 DEF RunInv, WorkInv
<1>5. run.config \in Configs /\ run.completed_count \in Nat /\ run.error_count \in Nat
  BY <1>3 DEF AtWork
<1>6. PICK status \in Statuses :
        /\ manifest' = [status |-> status, identity |-> run.config,
                        completed |-> run.completed_count, errors |-> run.error_count]
        /\ status = "complete" => run.phase = "finishing" /\ run.error_count = 0
  <2>1. CASE Abort
    BY <2>1 DEF Abort, Closing, Statuses
  <2>2. CASE Finish
    <3>1. FinalStatus \in Statuses /\ (FinalStatus = "complete" => run.error_count = 0)
      BY DEF FinalStatus, Statuses
    <3>2. run.phase = "finishing" /\ manifest' = Closing(FinalStatus)
      BY <2>2 DEF Finish
    <3> QED BY <3>1, <3>2 DEF Closing
  <2> QED BY <2>1, <2>2
<1>7. /\ manifest' \in [status : Statuses, identity : Configs, completed : Nat, errors : Nat]
      /\ manifest'.status = status /\ manifest'.identity = run.config
      /\ manifest'.completed = run.completed_count /\ manifest'.errors = run.error_count
  BY <1>5, <1>6
<1>8. manifest' # NoManifest
  BY <1>7 DEF NoManifest, Statuses
<1>9. ASSUME status = "complete", run.config.maximum = 0
      PROVE  errors.lines = <<>> /\ RowsOf(samples) = Range(run.config.dataset)
  <2>1. errors \in File
    BY DEF RunInv, RunTypeOK
  <2>2. errors.lines \in Seq(Seq(Text))
    BY <2>1 DEF File
  <2>3. errors.lines = <<>>
    BY <1>4, <1>6, <1>9, <2>2, EmptySeq, LenProperties
  <2>4. \A i \in DOMAIN run.config.dataset : run.config.dataset[i] \in RowsOf(samples)
    BY <1>3, <1>4, <1>6, <1>9
  <2>5. Range(run.config.dataset) \subseteq RowsOf(samples)
    BY <2>4 DEF Range
  <2> QED BY <1>3, <2>3, <2>5
<1>10. RunInv'
  <2>1. run' = NoRun \/ run' = [phase |-> "returned"]
    BY DEF Abort, Finish
  <2>2. /\ samples' \in File /\ errors' \in File /\ FileSound(samples') /\ FileSound(errors')
        /\ OncePerSample(samples')
    BY <1>2 DEF RunInv, RunTypeOK, EachSampleOnce
  <2>3. RowsOf(samples') \subseteq Range(manifest.identity.dataset)
    BY <1>2, <1>3
  <2> QED BY <1>3, <1>7, <2>1, <2>2, <2>3, StopKeeps
<1> QED BY <1>2, <1>4, <1>7, <1>8, <1>9, <1>10

\* A killed collection leaves what it wrote, and perhaps the beginning of one line.
LEMMA KillKeeps ==
  ASSUME RunInv, RejectDuplicate \/ Kill \/ KillInRow \/ KillInError, launches' = launches
  PROVE  RunInv' /\ run' = NoRun /\ manifest' = manifest /\ (samples.exists => samples'.exists)
<1>1. run' = NoRun /\ manifest' = manifest
  BY DEF RejectDuplicate, Kill, KillInRow, KillInError
<1>2. /\ samples \in File /\ errors \in File /\ FileSound(samples) /\ FileSound(errors)
      /\ OncePerSample(samples)
  BY DEF RunInv, RunTypeOK, EachSampleOnce
<1>3. Running /\ manifest # NoManifest
  BY DEF RejectDuplicate, Kill, KillInRow, KillInError, AtExample, Running, RunInv, IdentityInv
<1>4. RowsOf(samples) \subseteq Range(manifest.identity.dataset)
  BY <1>3 DEF RunInv, IdentityInv
<1>5. CASE RejectDuplicate \/ Kill
  <2>1. samples' = samples /\ errors' = errors
    BY <1>5 DEF RejectDuplicate, Kill
  <2>2. /\ samples' \in File /\ errors' \in File /\ FileSound(samples') /\ FileSound(errors')
        /\ OncePerSample(samples')
        /\ RowsOf(samples') \subseteq Range(manifest.identity.dataset)
    BY <1>2, <1>4, <2>1
  <2>3. RunInv'
    BY <1>1, <2>2, StopKeeps
  <2> QED BY <1>1, <2>1, <2>3
<1>6. CASE KillInRow \/ KillInError
  <2>1. run.phase = "sample" /\ Working
    BY <1>6 DEF KillInRow, KillInError, Working
  <2>2. /\ samples.exists /\ errors.exists /\ (\A t \in Texts(samples) : t.whole)
        /\ manifest.identity = run.config
    BY <2>1, WorkFacts DEF RunInv, WorkInv
  <2>3. PICK whole \in BOOLEAN :
          \/ samples' = Written(samples, Row(Example, whole), FALSE) /\ errors' = errors
          \/ errors' = Written(errors, Row(Example, whole), FALSE) /\ samples' = samples
    BY <1>6 DEF KillInRow, KillInError
  <2> DEFINE text == Row(Example, whole)
  <2>4. /\ text \in Text /\ text.sample = Example
        /\ Example \in Range(run.config.dataset) /\ Example \notin RowsOf(samples)
    BY <2>1, SampleFacts
  <2> HIDE DEF text
  <2>5. CASE samples' = Written(samples, text, FALSE) /\ errors' = errors
    <3>1. /\ samples' \in File /\ FileSound(samples')
          /\ RowsOf(samples') \subseteq RowsOf(samples) \cup {text.sample}
      BY <1>2, <2>2, <2>4, <2>5, WrittenRows
    <3>2. RowsOf(samples') \subseteq Range(manifest.identity.dataset)
      BY <1>4, <2>2, <2>4, <3>1
    <3>3. OncePerSample(samples')
      <4>1. text.sample \notin RowsOf(samples)
        BY <2>4
      <4> QED BY <1>2, <2>2, <2>4, <2>5, <4>1, WrittenRows
    <3>4. errors' \in File /\ FileSound(errors')
      BY <1>2, <2>5
    <3>5. samples'.exists
      BY <1>2, <2>2, <2>4, <2>5, WrittenRows
    <3>6. RunInv'
      BY <1>1, <3>1, <3>2, <3>3, <3>4, StopKeeps
    <3> QED BY <1>1, <3>5, <3>6
  <2>6. CASE errors' = Written(errors, text, FALSE) /\ samples' = samples
    <3>1. errors' \in File /\ FileSound(errors')
      BY <1>2, <2>2, <2>4, <2>6, WrittenRows
    <3>2. /\ samples' \in File /\ FileSound(samples') /\ OncePerSample(samples')
          /\ RowsOf(samples') \subseteq Range(manifest.identity.dataset)
      BY <1>2, <1>4, <2>6
    <3>3. RunInv'
      BY <1>1, <3>1, <3>2, StopKeeps
    <3> QED BY <1>1, <2>6, <3>3
  <2> QED BY <2>3, <2>5, <2>6 DEF text
<1> QED BY <1>1, <1>5, <1>6


\* One step of a collection keeps the directory in order; it loses no file, and what it
\* closes with is true.
LEMMA RunStepKeeps ==
  ASSUME RunInv, RunStep, launches' = launches
  PROVE  /\ RunInv' /\ (samples.exists => samples'.exists)
         /\ Running /\ (Running' => run'.config = run.config)
         /\ run'.phase = "returned" =>
              /\ manifest' # NoManifest /\ manifest'.identity = run.config
              /\ manifest'.status = "complete" /\ run.config.maximum = 0 =>
                    RowsOf(samples') = Range(run.config.dataset)
         /\ manifest' # manifest =>
              /\ manifest'.completed = Cardinality(RowsOf(samples'))
              /\ manifest'.errors >= Len(errors'.lines)
<1>1. Running
  BY DEF RunStep, Load, RejectDuplicate, SkipCompleted, BeginSample, LeaveLoop, AtExample,
         RecordSample, FailSample, Abort, Finish, Kill, KillInRow, KillInError, Running
<1>2. CASE Load
  <2>1. /\ RunInv' /\ manifest' = manifest /\ (samples.exists => samples'.exists)
        /\ run'.phase = "idle" \/ (Working' /\ run'.config = run.config)
    BY <1>2, LoadKeeps
  <2> QED BY <1>1, <2>1 DEF Working, Running
<1>3. CASE SkipCompleted \/ BeginSample \/ LeaveLoop
  <2>1. RunInv' /\ Working' /\ run'.config = run.config
    BY <1>3, LoopMoveKeeps
  <2>2. manifest' = manifest /\ samples' = samples
    BY <1>3 DEF SkipCompleted, BeginSample, LeaveLoop
  <2> QED BY <1>1, <2>1, <2>2 DEF Working
<1>4. CASE RecordSample
  <2>1. RunInv' /\ Working' /\ run'.config = run.config
    BY <1>4, RecordKeeps
  <2>2. manifest' = manifest /\ samples'.exists
    BY <1>4, <2>1 DEF RecordSample, RunInv, WorkInv
  <2> QED BY <1>1, <2>1, <2>2 DEF Working
<1>5. CASE FailSample
  <2>1. RunInv' /\ Working' /\ run'.config = run.config
    BY <1>5, FailKeeps
  <2>2. manifest' = manifest /\ samples' = samples
    BY <1>5 DEF FailSample
  <2> QED BY <1>1, <2>1, <2>2 DEF Working
<1>6. CASE Abort \/ Finish
  <2>1. /\ RunInv' /\ UNCHANGED <<samples, errors>>
        /\ manifest' # NoManifest /\ manifest'.identity = run.config
        /\ manifest'.completed = Cardinality(RowsOf(samples))
        /\ manifest'.errors >= Len(errors.lines)
        /\ manifest'.status = "complete" /\ run.config.maximum = 0 =>
             RowsOf(samples) = Range(run.config.dataset)
    BY <1>6, CloseKeeps
  <2>2. run'.phase \in {"idle", "returned"}
    BY <1>6 DEF Abort, Finish, NoRun
  <2> QED BY <1>1, <2>1, <2>2 DEF Running
<1>7. CASE RejectDuplicate \/ Kill \/ KillInRow \/ KillInError
  <2>1. RunInv' /\ run' = NoRun /\ manifest' = manifest /\ (samples.exists => samples'.exists)
    BY <1>7, KillKeeps
  <2>2. run'.phase = "idle"
    BY <2>1 DEF NoRun
  <2> QED BY <1>1, <2>1, <2>2 DEF Running
<1> QED BY <1>2, <1>3, <1>4, <1>5, <1>6, <1>7 DEF RunStep

\* A complete directory stays so: no collection finds a sample left to write.
LEMMA CompleteStays ==
  ASSUME RunInv, CleanlyComplete, RunStep, launches' = launches
  PROVE  CleanlyComplete'
<1>1. ASSUME run.phase = "sample", manifest.status = "complete", manifest.identity.maximum = 0
      PROVE  FALSE
  <2>1. manifest.identity = run.config
    BY <1>1, WorkFacts DEF Working
  <2> QED BY <1>1, <2>1, SampleFacts DEF CleanlyComplete
<1>2. CASE Load
  BY <1>2, LoadKeeps DEF CleanlyComplete
<1>3. CASE RejectDuplicate \/ SkipCompleted \/ BeginSample \/ LeaveLoop \/ Kill
  BY <1>3 DEF CleanlyComplete, RejectDuplicate, SkipCompleted, BeginSample, LeaveLoop, Kill
<1>4. CASE RecordSample \/ FailSample \/ KillInRow \/ KillInError
  BY <1>1, <1>4 DEF CleanlyComplete, RecordSample, FailSample, KillInRow, KillInError
<1>5. CASE Abort \/ Finish
  BY <1>5, CloseKeeps DEF CleanlyComplete
<1> QED BY <1>2, <1>3, <1>4, <1>5 DEF RunStep


------------------------------------------------------------------------------
(* DirectoryInv: the steps of the jobs.                                     *)

\* What the steps of a job use of its place, its loop and the names it loops over.
LEMMA JobFacts ==
  ASSUME PipelineTypeOK, stage # Off, stage # ByHand
  PROVE  /\ stage \in Job /\ stage.config \in Configs
         /\ stage.next \in Nat /\ stage.next >= 1 /\ stage.next <= Len(Artifacts)
         /\ Current \in Names
<1>1. stage \in Job
  BY DEF PipelineTypeOK
<1>2. DOMAIN Artifacts = 1..Len(Artifacts) /\ Len(Artifacts) \in Nat
  BY PipelineAssumption, LenProperties
<1>3. stage.config \in Configs /\ stage.next \in DOMAIN Artifacts
  BY <1>1 DEF Job
<1> QED BY <1>1, <1>2, <1>3 DEF Current, Names, Range

\* A job that moves on keeps its configuration and its place in the loop.
LEMMA ToMoves ==
  ASSUME stage \in Job, NEW place \in Places, To(place)
  PROVE  /\ stage' \in Job /\ stage'.at = place
         /\ stage'.config = stage.config /\ stage'.next = stage.next
<1>1. stage' = [at |-> place, config |-> stage.config, next |-> stage.next]
  BY DEF To, Job
<1> QED BY <1>1 DEF Job

\* A loop over the artifacts goes on with the next one, or ends after the last.
LEMMA AdvancedMoves ==
  ASSUME stage \in Job, NEW again \in Places, NEW after \in Places, Advanced(again, after)
  PROVE  /\ stage' \in Job /\ stage'.config = stage.config
         /\ \/ stage'.at = again /\ stage'.next = stage.next + 1
            \/ stage'.at = after /\ stage'.next = 1 /\ stage.next = Len(Artifacts)
<1>1. DOMAIN Artifacts = 1..Len(Artifacts) /\ Len(Artifacts) \in Nat
  BY PipelineAssumption, LenProperties
<1>2. stage.next \in 1..Len(Artifacts)
  BY <1>1 DEF Job
<1>3. CASE stage.next < Len(Artifacts)
  <2>1. stage' = [at |-> again, config |-> stage.config, next |-> stage.next + 1]
    BY <1>3 DEF Advanced, Job
  <2>2. stage.next + 1 \in DOMAIN Artifacts
    BY <1>1, <1>2, <1>3
  <2> QED BY <2>1, <2>2 DEF Job
<1>4. CASE ~(stage.next < Len(Artifacts))
  <2>1. stage' = [at |-> after, config |-> stage.config, next |-> 1]
    BY <1>4 DEF Advanced, Job
  <2>2. 1 \in DOMAIN Artifacts /\ stage.next = Len(Artifacts)
    BY <1>1, <1>2, <1>4
  <2> QED BY <2>1, <2>2 DEF Job
<1> QED BY <1>3, <1>4

\* The state directory is as it was.
LEMMA RunUnchanged ==
  ASSUME RunInv, UNCHANGED <<manifest, samples, errors, run>>, launches' \in Nat
  PROVE  RunInv'
<1>1. manifest' = manifest /\ samples' = samples /\ errors' = errors /\ run' = run
  OBVIOUS
<1>2. RowsOf(samples)' = RowsOf(samples) /\ Texts(samples)' = Texts(samples)
  BY <1>1 DEF RowsOf, Texts
<1> QED
  BY <1>1, <1>2 DEF RunInv, RunTypeOK, FileSound, EachSampleOnce, OncePerSample, WorkInv, Working,
                    Example, IdentityInv, Running

\* An empty workspace, or one its clean-up has been through in part.
LEMMA FilesGone ==
  ASSUME RunInv, run = NoRun, run' = NoRun, launches' \in Nat,
         manifest' \in {manifest, NoManifest},
         samples' \in {samples, NoFile}, errors' \in {errors, NoFile}
  PROVE  RunInv' /\ RowsOf(samples') \subseteq RowsOf(samples)
<1>1. NoFile \in File /\ FileSound(NoFile) /\ NoFile.lines = <<>> /\ DOMAIN NoFile.lines = {}
  BY DEF NoFile, File, FileSound
<1>2. RowsOf(NoFile) = {} /\ OncePerSample(NoFile)
  BY <1>1 DEF RowsOf, Texts, OncePerSample
<1>3. /\ samples' \in File /\ errors' \in File /\ FileSound(samples') /\ FileSound(errors')
      /\ OncePerSample(samples') /\ RowsOf(samples') \subseteq RowsOf(samples)
  BY <1>1, <1>2 DEF RunInv, RunTypeOK, EachSampleOnce
<1>4. run'.phase = "idle"
  BY DEF NoRun
<1>5. RunTypeOK'
  BY <1>3 DEF RunInv, RunTypeOK
<1>6. WorkInv' /\ IdentityInv'
  BY <1>3, <1>4 DEF WorkInv, Working, IdentityInv, Running, RunInv
<1> QED BY <1>3, <1>5, <1>6 DEF RunInv, EachSampleOnce

\* A job that ends, wherever it was, leaves everything to the next one.
LEMMA OffKeeps ==
  ASSUME DirectoryInv, RunInv', run' = NoRun, stage' = Off,
         marker' \in {NoMarker, [state |-> "torn"]} \cup [state : {"whole"}, config : Configs],
         computed' \in {computed, None}, published' = published, staging' = staging
  PROVE  DirectoryInv'
<1>1. stage'.at = "off"
  BY DEF Off
<1>2. None \in [Names -> ArtifactStates] /\ \A name \in Names : Covers(None[name])
  BY DEF None, ArtifactStates, Covers, NoArtifact
<1>3. PipelineTypeOK'
  BY <1>2 DEF DirectoryInv, PipelineTypeOK
<1>4. CollectedInv' /\ ProgressInv' /\ (At("by hand") => CleanlyComplete)'
  BY <1>1 DEF CollectedInv, Collected, ProgressInv, At
<1>5. ~AllowIncomplete =>
        \A name \in Names : Covers(computed'[name]) /\ Covers(published'[name])
  BY <1>2 DEF DirectoryInv
<1> QED BY <1>3, <1>4, <1>5 DEF DirectoryInv


\* The first state: an empty directory, for jobs or for collections by hand.
LEMMA DirectoryInitial == DirectoryInit => DirectoryInv
<1> SUFFICES ASSUME DirectoryInit PROVE DirectoryInv
  OBVIOUS
<1>1. /\ Init /\ stage \in {Off, ByHand}
      /\ marker = NoMarker /\ computed = None /\ published = None /\ staging = {}
  BY DEF DirectoryInit, PipelineInit
<1>2. RunInv
  BY <1>1, RunInitial
<1>3. stage.at \in {"off", "by hand"}
  <2>1. Off.at = "off" /\ ByHand.at = "by hand"
    BY DEF Off, ByHand
  <2> QED BY <1>1, <2>1
<1>4. None \in [Names -> ArtifactStates] /\ \A name \in Names : Covers(None[name])
  BY DEF None, ArtifactStates, Covers, NoArtifact
<1>5. PipelineTypeOK
  BY <1>1, <1>4 DEF PipelineTypeOK
<1>6. run = NoRun /\ manifest.status = "absent"
  BY <1>1 DEF Init, NoManifest
<1>7. CollectedInv /\ ProgressInv /\ CleanlyComplete
  BY <1>3, <1>6 DEF CollectedInv, Collected, ProgressInv, At, CleanlyComplete
<1> QED BY <1>1, <1>2, <1>4, <1>5, <1>7 DEF DirectoryInv

\* A job begins in the workspace it finds or in an empty one, with its own configuration.
LEMMA LaunchKeeps ==
  ASSUME DirectoryInv, NEW config \in Configs, NEW fresh \in BOOLEAN, Launch(config, fresh)
  PROVE  DirectoryInv'
<1>1. /\ stage.at = "off" /\ launches' = launches + 1
      /\ run' = run /\ published' = published /\ staging' = staging
  BY DEF Launch, At
<1>2. run = NoRun /\ run.phase = "idle"
  BY <1>1 DEF DirectoryInv, CollectedInv, At, NoRun
<1>3. /\ manifest' \in {manifest, NoManifest} /\ samples' \in {samples, NoFile}
      /\ errors' \in {errors, NoFile} /\ computed' \in {computed, None}
  BY DEF Launch, FreshWorkspace
<1>4. launches' \in Nat
  <2>1. launches \in Nat
    BY DEF DirectoryInv, RunInv, RunTypeOK
  <2> QED BY <1>1, <2>1
<1>5. RunInv'
  BY <1>1, <1>2, <1>3, <1>4, FilesGone DEF DirectoryInv
<1> DEFINE found == IF fresh THEN NoMarker ELSE marker
<1> DEFINE Markers == {NoMarker, [state |-> "torn"]} \cup [state : {"whole"}, config : Configs]
<1>6. found \in Markers
  BY DEF DirectoryInv, PipelineTypeOK
<1>7. [state |-> "torn"] \in Markers
  OBVIOUS
<1>8. \/ marker' = found /\ stage' = Off
      \/ /\ marker' = [state |-> "torn"]
         /\ stage' = [at |-> "marker", config |-> config, next |-> 1]
      \/ marker' = found /\ stage' = [at |-> "collect", config |-> config, next |-> 1]
  BY DEF Launch
<1>9. marker' \in Markers
  BY <1>6, <1>7, <1>8
<1> HIDE DEF found
<1>10. CASE stage' = Off
  BY <1>1, <1>2, <1>3, <1>5, <1>9, <1>10, OffKeeps
<1>11. CASE stage' # Off
  <2>1. PICK place \in {"marker", "collect"} :
          stage' = [at |-> place, config |-> config, next |-> 1]
    BY <1>8, <1>11
  <2>2. 1 \in DOMAIN Artifacts
    BY PipelineAssumption, LenProperties, EmptySeq
  <2>3. stage' \in Job /\ stage'.at = place /\ stage'.next = 1
    BY <2>1, <2>2 DEF Job, Places
  <2>4. None \in [Names -> ArtifactStates] /\ \A name \in Names : Covers(None[name])
    BY DEF None, ArtifactStates, Covers, NoArtifact
  <2>5. PipelineTypeOK'
    BY <1>1, <1>3, <1>9, <2>3, <2>4 DEF DirectoryInv, PipelineTypeOK
  <2>6. CollectedInv' /\ ProgressInv' /\ (At("by hand") => CleanlyComplete)'
    BY <1>1, <1>2, <2>3 DEF CollectedInv, Collected, ProgressInv, At
  <2>7. ~AllowIncomplete =>
          \A name \in Names : Covers(computed'[name]) /\ Covers(published'[name])
    BY <1>1, <1>3, <2>4 DEF DirectoryInv
  <2> QED BY <1>5, <2>5, <2>6, <2>7 DEF DirectoryInv
<1> QED BY <1>10, <1>11

\* The collection of a job: what it closes with is of the job's configuration.
LEMMA CollectKeeps ==
  ASSUME DirectoryInv, Collect \/ CollectStep \/ CollectEnds
  PROVE  DirectoryInv'
<1>1. /\ stage.at \in {"collect", "collecting"}
      /\ stage # Off /\ stage # ByHand /\ launches' = launches
      /\ marker' = marker /\ computed' = computed /\ published' = published
      /\ staging' = staging
  <2>1. /\ stage.at \in {"collect", "collecting"} /\ launches' = launches
        /\ marker' = marker /\ computed' = computed /\ published' = published
        /\ staging' = staging
    BY DEF Collect, CollectStep, CollectEnds, At, pipelineVars
  <2>2. Off.at = "off" /\ ByHand.at = "by hand"
    BY DEF Off, ByHand
  <2> QED BY <2>1, <2>2
<1>2. PipelineTypeOK /\ RunInv /\ launches \in Nat
  BY DEF DirectoryInv, RunInv, RunTypeOK
<1>3. stage \in Job /\ stage.config \in Configs /\ stage.next = 1
  BY <1>1, <1>2, JobFacts DEF DirectoryInv, ProgressInv
<1>4. ~AllowIncomplete =>
        \A name \in Names : Covers(computed'[name]) /\ Covers(published'[name])
  BY <1>1 DEF DirectoryInv
<1>5. CASE Collect
  <2>1. Start(stage.config, TRUE) /\ To("collecting")
    BY <1>5 DEF Collect
  <2>2. stage' \in Job /\ stage'.at = "collecting" /\ stage'.config = stage.config
        /\ stage'.next = 1
    BY <1>3, <2>1, ToMoves DEF Places
  <2>3. RunInv' /\ (run' = NoRun \/ run' = Entered(stage.config))
    BY <1>1, <1>2, <1>3, <2>1, StartKeeps
  <2>4. run'.phase \in {"idle", "loading"} /\ (run' # NoRun => run'.config = stage.config)
    BY <2>3 DEF NoRun, Entered
  <2>5. PipelineTypeOK'
    BY <1>1, <1>2, <2>2 DEF PipelineTypeOK
  <2>6. CollectedInv' /\ ProgressInv' /\ (At("by hand") => CleanlyComplete)'
    BY <2>2, <2>4 DEF CollectedInv, Collected, ProgressInv, At, Running, NoRun
  <2> QED BY <1>4, <2>3, <2>5, <2>6 DEF DirectoryInv
<1>6. CASE CollectStep
  <2>1. RunStep /\ stage' = stage /\ stage.at = "collecting"
    BY <1>6 DEF CollectStep, pipelineVars, At
  <2>2. /\ RunInv' /\ Running /\ (Running' => run'.config = run.config)
        /\ run'.phase = "returned" =>
              /\ manifest' # NoManifest /\ manifest'.identity = run.config
              /\ manifest'.status = "complete" /\ run.config.maximum = 0 =>
                    RowsOf(samples') = Range(run.config.dataset)
    BY <1>1, <1>2, <2>1, RunStepKeeps
  <2>3. run.config = stage.config
    BY <2>1, <2>2 DEF DirectoryInv, CollectedInv, At
  <2>4. PipelineTypeOK'
    BY <1>1, <1>2, <2>1 DEF PipelineTypeOK
  <2>5. CollectedInv'
    BY <2>1, <2>2, <2>3 DEF CollectedInv, Collected, At
  <2>6. ProgressInv' /\ (At("by hand") => CleanlyComplete)'
    BY <1>3, <2>1 DEF ProgressInv, At
  <2> QED BY <1>4, <2>2, <2>4, <2>5, <2>6 DEF DirectoryInv
<1>7. CASE CollectEnds
  <2>1. /\ stage.at = "collecting" /\ run' = NoRun
        /\ manifest' = manifest /\ samples' = samples /\ errors' = errors
    BY <1>7 DEF CollectEnds, At
  <2>2. RunInv'
    <3>1. /\ samples' \in File /\ errors' \in File /\ FileSound(samples') /\ FileSound(errors')
          /\ OncePerSample(samples')
          /\ manifest # NoManifest => RowsOf(samples') \subseteq Range(manifest.identity.dataset)
      BY <1>2, <2>1 DEF RunInv, RunTypeOK, EachSampleOnce, IdentityInv
    <3> QED BY <1>1, <1>2, <2>1, <3>1, StopKeeps
  <2>3. CASE stage' = Off
    BY <1>1, <2>1, <2>2, <2>3, OffKeeps DEF DirectoryInv, PipelineTypeOK
  <2>4. CASE run.phase = "returned" /\ To("metrics")
    <3>1. stage' \in Job /\ stage'.at = "metrics" /\ stage'.config = stage.config
          /\ stage'.next = 1
      BY <1>3, <2>4, ToMoves DEF Places
    <3>2. /\ manifest # NoManifest /\ manifest.identity = stage.config
          /\ manifest.status = "complete" /\ stage.config.maximum = 0 =>
                RowsOf(samples) = Range(stage.config.dataset)
      BY <2>1, <2>4 DEF DirectoryInv, CollectedInv, Collected, At
    <3>3. PipelineTypeOK'
      BY <1>1, <1>2, <3>1 DEF PipelineTypeOK
    <3>4. CollectedInv'
      BY <2>1, <3>1, <3>2 DEF CollectedInv, Collected, At
    <3>5. ProgressInv' /\ (At("by hand") => CleanlyComplete)'
      BY <3>1 DEF ProgressInv, At
    <3> QED BY <1>4, <2>2, <3>3, <3>4, <3>5 DEF DirectoryInv
  <2> QED BY <1>7, <2>3, <2>4 DEF CollectEnds
<1> QED BY <1>5, <1>6, <1>7


\* A step that leaves the state directory alone keeps what is known of the collection.
LEMMA StepKeeps ==
  ASSUME DirectoryInv, UNCHANGED vars, stage \in Job, stage' \in Job,
         stage'.config = stage.config,
         stage.at # "collecting", stage'.at # "collecting",
         stage'.at \in {"metrics", "opening", "writing", "export", "rename", "cleanup"} =>
            stage.at \in {"metrics", "opening", "writing", "export", "rename", "cleanup"},
         marker' \in {NoMarker, [state |-> "torn"]} \cup [state : {"whole"}, config : Configs],
         computed' \in [Names -> ArtifactStates], published' \in [Names -> ArtifactStates],
         staging' \subseteq Names,
         ProgressInv',
         ~AllowIncomplete =>
            \A name \in Names : Covers(computed'[name]) /\ Covers(published'[name])
  PROVE  DirectoryInv'
<1>1. /\ manifest' = manifest /\ samples' = samples /\ errors' = errors /\ run' = run
      /\ launches' = launches
  BY DEF vars
<1>2. stage.at \in Places /\ stage'.at \in Places
  BY DEF Job
<1>3. stage.at # "by hand" /\ stage'.at # "by hand"
  BY <1>2 DEF Places
<1>4. RunInv'
  <2>1. RunInv /\ launches' \in Nat
    BY <1>1 DEF DirectoryInv, RunInv, RunTypeOK
  <2> QED BY <1>1, <2>1, RunUnchanged
<1>5. CollectedInv'
  BY <1>1, <1>3 DEF DirectoryInv, CollectedInv, Collected, At
<1>6. PipelineTypeOK' /\ (At("by hand") => CleanlyComplete)'
  BY <1>3 DEF PipelineTypeOK, At
<1> QED BY <1>4, <1>5, <1>6 DEF DirectoryInv

\* What the steps after the collection start from.
LEMMA StepFacts ==
  ASSUME DirectoryInv, stage.at \in Places
  PROVE  /\ PipelineTypeOK /\ stage \in Job /\ stage.config \in Configs
         /\ stage.next \in Nat /\ stage.next >= 1 /\ stage.next <= Len(Artifacts)
         /\ Current \in Names
         /\ marker \in {NoMarker, [state |-> "torn"]} \cup [state : {"whole"}, config : Configs]
         /\ computed \in [Names -> ArtifactStates] /\ published \in [Names -> ArtifactStates]
         /\ staging \subseteq Names
         /\ stage.at # "collecting" => run = NoRun
<1>1. Off.at = "off" /\ ByHand.at = "by hand"
  BY DEF Off, ByHand
<1>2. stage # Off /\ stage # ByHand /\ stage.at # "by hand"
  BY <1>1 DEF Places
<1>3. PipelineTypeOK
  BY DEF DirectoryInv
<1>4. stage.at # "collecting" => run = NoRun
  BY <1>2 DEF DirectoryInv, CollectedInv, At
<1> QED BY <1>2, <1>3, <1>4, JobFacts DEF PipelineTypeOK

\* resolved_config.json is written before anything else is.
LEMMA MarkerKeeps ==
  ASSUME DirectoryInv, WriteMarker
  PROVE  DirectoryInv'
<1>1. /\ stage.at = "marker" /\ To("collect") /\ UNCHANGED vars
      /\ marker' = [state |-> "whole", config |-> stage.config]
      /\ computed' = computed /\ published' = published /\ staging' = staging
  BY DEF WriteMarker, At
<1>2. stage \in Job /\ stage.config \in Configs
  BY <1>1, StepFacts DEF Places
<1>3. /\ stage' \in Job /\ stage'.at = "collect" /\ stage'.config = stage.config
      /\ stage'.next = stage.next
  BY <1>1, <1>2, ToMoves DEF Places
<1>4. ProgressInv'
  BY <1>1, <1>3 DEF DirectoryInv, ProgressInv, At
<1>5. /\ marker' \in [state : {"whole"}, config : Configs]
      /\ computed' \in [Names -> ArtifactStates] /\ published' \in [Names -> ArtifactStates]
      /\ staging' \subseteq Names
  BY <1>1, <1>2 DEF DirectoryInv, PipelineTypeOK
<1>6. ~AllowIncomplete =>
        \A name \in Names : Covers(computed'[name]) /\ Covers(published'[name])
  BY <1>1 DEF DirectoryInv
<1> QED BY <1>1, <1>2, <1>3, <1>4, <1>5, <1>6, StepKeeps

\* The metrics are skipped when they are there, and refused for a state that is neither
\* complete nor allowed to be incomplete.
LEMMA MetricsKeeps ==
  ASSUME DirectoryInv, Metrics
  PROVE  DirectoryInv'
<1>1. /\ stage.at = "metrics" /\ UNCHANGED vars /\ marker' = marker
      /\ computed' = computed /\ published' = published /\ staging' = staging
  BY DEF Metrics, At
<1>2. /\ stage \in Job /\ run = NoRun
      /\ marker \in {NoMarker, [state |-> "torn"]} \cup [state : {"whole"}, config : Configs]
      /\ computed \in [Names -> ArtifactStates] /\ published \in [Names -> ArtifactStates]
      /\ staging \subseteq Names
  BY <1>1, StepFacts DEF Places
<1>3. CASE stage' = Off
  <2>1. RunInv' /\ run' = NoRun
    BY <1>1, <1>2, RunUnchanged DEF DirectoryInv, RunInv, RunTypeOK, vars
  <2> QED BY <1>1, <1>2, <1>3, <2>1, OffKeeps
<1>4. CASE \/ To("export")
           \/ StateAccepted /\ To("opening")
  <2>1. PICK place \in {"export", "opening"} :
          To(place) /\ (place = "opening" => manifest.status = "complete" \/ AllowIncomplete)
    BY <1>4 DEF StateAccepted
  <2>2. /\ stage' \in Job /\ stage'.at = place /\ stage'.config = stage.config
        /\ stage'.next = stage.next
    BY <1>2, <2>1, ToMoves DEF Places
  <2>3. stage.next = 1 /\ manifest' = manifest
    BY <1>1 DEF DirectoryInv, ProgressInv, vars
  <2>4. 1..(stage'.next - 1) = {}
    BY <2>2, <2>3
  <2>5. ProgressInv'
    BY <2>1, <2>2, <2>3, <2>4 DEF ProgressInv, At
  <2>6. ~AllowIncomplete =>
          \A name \in Names : Covers(computed'[name]) /\ Covers(published'[name])
    BY <1>1 DEF DirectoryInv
  <2> QED BY <1>1, <1>2, <2>2, <2>5, <2>6, StepKeeps
<1> QED BY <1>3, <1>4 DEF Metrics


\* An artifact is truncated first: whatever it was about, it is about nothing now.
LEMMA OpenKeeps ==
  ASSUME DirectoryInv, OpenArtifact
  PROVE  DirectoryInv'
<1>1. /\ stage.at = "opening" /\ To("writing") /\ UNCHANGED vars /\ marker' = marker
      /\ computed' = [computed EXCEPT ![Current] = [state |-> "torn"]]
      /\ published' = published /\ staging' = staging
  BY DEF OpenArtifact, At
<1>2. /\ stage \in Job /\ Current \in Names
      /\ marker \in {NoMarker, [state |-> "torn"]} \cup [state : {"whole"}, config : Configs]
      /\ computed \in [Names -> ArtifactStates] /\ published \in [Names -> ArtifactStates]
      /\ staging \subseteq Names
  BY <1>1, StepFacts DEF Places
<1>3. /\ stage' \in Job /\ stage'.at = "writing" /\ stage'.config = stage.config
      /\ stage'.next = stage.next
  BY <1>1, <1>2, ToMoves DEF Places
<1> DEFINE torn == [state |-> "torn"]
<1>4. torn \in ArtifactStates /\ Covers(torn)
  BY DEF ArtifactStates, Covers
<1>5. computed' = [computed EXCEPT ![Current] = torn]
  BY <1>1
<1> HIDE DEF torn
<1>6. /\ computed' \in [Names -> ArtifactStates]
      /\ \A name \in Names : computed'[name] = IF name = Current THEN torn ELSE computed[name]
  BY <1>2, <1>4, <1>5
<1>7. ProgressInv'
  <2>1. manifest' = manifest
    BY <1>1 DEF vars
  <2> QED BY <1>1, <1>3, <2>1 DEF DirectoryInv, ProgressInv, At
<1>8. ~AllowIncomplete =>
        \A name \in Names : Covers(computed'[name]) /\ Covers(published'[name])
  BY <1>1, <1>4, <1>6 DEF DirectoryInv
<1> QED BY <1>1, <1>2, <1>3, <1>6, <1>7, <1>8, StepKeeps

\* An artifact is written from the rows of a state the metrics accepted: all of them,
\* unless an incomplete state is allowed.
LEMMA WriteKeeps ==
  ASSUME DirectoryInv, WriteArtifact
  PROVE  DirectoryInv'
<1> DEFINE whole == [state |-> "whole", rows |-> RowsOf(samples), config |-> stage.config]
<1>1. /\ stage.at = "writing" /\ Advanced("opening", "export") /\ UNCHANGED vars
      /\ marker' = marker /\ computed' = [computed EXCEPT ![Current] = whole]
      /\ published' = published /\ staging' = staging
  BY DEF WriteArtifact, At
<1>2. /\ stage \in Job /\ Current \in Names /\ stage.config \in Configs
      /\ marker \in {NoMarker, [state |-> "torn"]} \cup [state : {"whole"}, config : Configs]
      /\ computed \in [Names -> ArtifactStates] /\ published \in [Names -> ArtifactStates]
      /\ staging \subseteq Names
  BY <1>1, StepFacts DEF Places
<1>3. /\ stage' \in Job /\ stage'.config = stage.config
      /\ \/ stage'.at = "opening" /\ stage'.next = stage.next + 1
         \/ stage'.at = "export" /\ stage'.next = 1
  BY <1>1, <1>2, AdvancedMoves DEF Places
<1>4. whole \in ArtifactStates
  <2>1. samples \in File
    BY DEF DirectoryInv, RunInv, RunTypeOK
  <2>2. RowsOf(samples) \subseteq Samples
    BY <2>1, TextsAt DEF RowsOf, Text
  <2> QED BY <1>2, <2>2 DEF ArtifactStates
<1>5. ~AllowIncomplete => Covers(whole)
  <2>1. manifest.status = "complete" \/ AllowIncomplete
    BY <1>1 DEF DirectoryInv, ProgressInv
  <2>2. manifest.status = "complete" /\ stage.config.maximum = 0 =>
          RowsOf(samples) = Range(stage.config.dataset)
    BY <1>1 DEF DirectoryInv, CollectedInv, Collected
  <2> QED BY <2>1, <2>2 DEF Covers
<1> HIDE DEF whole
<1>6. /\ computed' \in [Names -> ArtifactStates]
      /\ \A name \in Names : computed'[name] = IF name = Current THEN whole ELSE computed[name]
  BY <1>1, <1>2, <1>4
<1>7. ProgressInv'
  <2>1. manifest' = manifest
    BY <1>1 DEF vars
  <2>2. manifest.status = "complete" \/ AllowIncomplete
    BY <1>1 DEF DirectoryInv, ProgressInv
  <2>3. stage'.at = "export" => 1..(stage'.next - 1) = {}
    BY <1>3
  <2> QED BY <1>3, <2>1, <2>2, <2>3 DEF ProgressInv, At
<1>8. ~AllowIncomplete =>
        \A name \in Names : Covers(computed'[name]) /\ Covers(published'[name])
  BY <1>1, <1>5, <1>6 DEF DirectoryInv
<1>9. stage'.at \in {"opening", "export"}
  BY <1>3
<1> QED BY <1>1, <1>2, <1>3, <1>6, <1>7, <1>8, <1>9, StepKeeps

\* A copy is staged while every artifact is there to be published.
LEMMA StageKeeps ==
  ASSUME DirectoryInv, Stage
  PROVE  DirectoryInv'
<1>1. /\ stage.at = "export" /\ AllComputed /\ To("rename") /\ UNCHANGED vars
      /\ marker' = marker /\ computed' = computed /\ published' = published
      /\ staging' = staging \cup {Current}
  BY DEF Stage, At
<1>2. /\ stage \in Job /\ Current \in Names
      /\ marker \in {NoMarker, [state |-> "torn"]} \cup [state : {"whole"}, config : Configs]
      /\ computed \in [Names -> ArtifactStates] /\ published \in [Names -> ArtifactStates]
      /\ staging \subseteq Names
  BY <1>1, StepFacts DEF Places
<1>3. /\ stage' \in Job /\ stage'.at = "rename" /\ stage'.config = stage.config
      /\ stage'.next = stage.next
  BY <1>1, <1>2, ToMoves DEF Places
<1>4. ProgressInv'
  <2>1. AllComputed'
    BY <1>1 DEF AllComputed
  <2>2. \A j \in 1..(stage'.next - 1) : published'[Artifacts[j]].state # "absent"
    BY <1>1, <1>3 DEF DirectoryInv, ProgressInv
  <2> QED BY <1>3, <2>1, <2>2 DEF ProgressInv, At
<1>5. ~AllowIncomplete =>
        \A name \in Names : Covers(computed'[name]) /\ Covers(published'[name])
  BY <1>1 DEF DirectoryInv
<1>6. staging' \subseteq Names
  BY <1>1, <1>2
<1> QED BY <1>1, <1>2, <1>3, <1>4, <1>5, <1>6, StepKeeps

\* What is published is what was computed, and after the last one nothing is missing.
LEMMA PublishKeeps ==
  ASSUME DirectoryInv, Publish
  PROVE  DirectoryInv'
<1>1. /\ stage.at = "rename" /\ Advanced("export", "cleanup") /\ UNCHANGED vars
      /\ marker' = marker /\ computed' = computed
      /\ published' = [published EXCEPT ![Current] = computed[Current]]
      /\ staging' = staging \ {Current}
  BY DEF Publish, At
<1>2. /\ stage \in Job /\ Current \in Names
      /\ stage.next \in Nat /\ stage.next >= 1 /\ stage.next <= Len(Artifacts)
      /\ marker \in {NoMarker, [state |-> "torn"]} \cup [state : {"whole"}, config : Configs]
      /\ computed \in [Names -> ArtifactStates] /\ published \in [Names -> ArtifactStates]
      /\ staging \subseteq Names
  BY <1>1, StepFacts DEF Places
<1>3. /\ stage' \in Job /\ stage'.config = stage.config
      /\ \/ stage'.at = "export" /\ stage'.next = stage.next + 1
         \/ stage'.at = "cleanup" /\ stage'.next = 1 /\ stage.next = Len(Artifacts)
  BY <1>1, <1>2, AdvancedMoves DEF Places
<1>4. /\ published' \in [Names -> ArtifactStates]
      /\ \A name \in Names :
            published'[name] = IF name = Current THEN computed[name] ELSE published[name]
  BY <1>1, <1>2
<1>5. \A j \in 1..stage.next : published'[Artifacts[j]].state # "absent"
  <2>1. /\ \A name \in Names : computed[name].state # "absent"
        /\ \A j \in 1..(stage.next - 1) : published[Artifacts[j]].state # "absent"
    BY <1>1 DEF DirectoryInv, ProgressInv, AllComputed, At
  <2>2. Len(Artifacts) \in Nat /\ DOMAIN Artifacts = 1..Len(Artifacts)
    BY PipelineAssumption, LenProperties
  <2>3. \A j \in 1..stage.next : Artifacts[j] \in Names
    BY <1>2, <2>2 DEF Names, Range
  <2>4. \A j \in 1..stage.next : j \in 1..(stage.next - 1) \/ Artifacts[j] = Current
    BY <1>2 DEF Current
  <2> QED BY <1>4, <2>1, <2>3, <2>4
<1>6. ProgressInv'
  <2>1. CASE stage'.at = "export" /\ stage'.next = stage.next + 1
    <3>1. stage'.next - 1 = stage.next
      BY <1>2, <2>1
    <3> QED BY <1>5, <2>1, <3>1 DEF ProgressInv, At
  <2>2. CASE stage'.at = "cleanup" /\ stage.next = Len(Artifacts)
    <3>1. \A name \in Names : \E j \in 1..stage.next : name = Artifacts[j]
      BY <2>2, PipelineAssumption, LenProperties DEF Names, Range
    <3> QED BY <1>5, <2>2, <3>1 DEF ProgressInv, At
  <2> QED BY <1>3, <2>1, <2>2
<1>7. ~AllowIncomplete =>
        \A name \in Names : Covers(computed'[name]) /\ Covers(published'[name])
  BY <1>1, <1>4 DEF DirectoryInv
<1>8. staging' \subseteq Names /\ stage'.at \in {"export", "cleanup"}
  BY <1>1, <1>2, <1>3
<1> QED BY <1>1, <1>2, <1>3, <1>4, <1>6, <1>7, <1>8, StepKeeps


\* The clean-up begins over rows that are all of the job's dataset.
LEMMA BeginCleanupKeeps ==
  ASSUME DirectoryInv, BeginCleanup
  PROVE  DirectoryInv'
<1>1. /\ stage.at = "cleanup" /\ UNCHANGED vars /\ marker' = marker
      /\ computed' = computed /\ published' = published /\ staging' = staging
  BY DEF BeginCleanup, At
<1>2. /\ stage \in Job /\ run = NoRun
      /\ marker \in {NoMarker, [state |-> "torn"]} \cup [state : {"whole"}, config : Configs]
      /\ computed \in [Names -> ArtifactStates] /\ published \in [Names -> ArtifactStates]
      /\ staging \subseteq Names
  BY <1>1, StepFacts DEF Places
<1>3. CASE stage' = Off
  <2>1. RunInv' /\ run' = NoRun
    BY <1>1, <1>2, RunUnchanged DEF DirectoryInv, RunInv, RunTypeOK, vars
  <2> QED BY <1>1, <1>2, <1>3, <2>1, OffKeeps
<1>4. CASE To("removing")
  <2>1. /\ stage' \in Job /\ stage'.at = "removing" /\ stage'.config = stage.config
        /\ stage'.next = stage.next
    BY <1>2, <1>4, ToMoves DEF Places
  <2>2. RowsOf(samples) \subseteq Range(stage.config.dataset) /\ samples' = samples
    BY <1>1 DEF DirectoryInv, CollectedInv, Collected, RunInv, IdentityInv, vars
  <2>3. \A name \in Names : published[name].state # "absent"
    BY <1>1 DEF DirectoryInv, ProgressInv
  <2>4. RowsOf(samples') \subseteq Range(stage'.config.dataset)
    BY <2>1, <2>2
  <2>5. ProgressInv'
    BY <1>1, <2>1, <2>3, <2>4 DEF ProgressInv, At
  <2>6. ~AllowIncomplete =>
          \A name \in Names : Covers(computed'[name]) /\ Covers(published'[name])
    BY <1>1 DEF DirectoryInv
  <2> QED BY <1>1, <1>2, <2>1, <2>5, <2>6, StepKeeps
<1> QED BY <1>3, <1>4 DEF BeginCleanup

\* Removing a file takes rows away, and adds none.
LEMMA RemoveKeeps ==
  ASSUME DirectoryInv, RemoveFile
  PROVE  DirectoryInv'
<1>1. /\ stage.at = "removing" /\ stage' = stage /\ run' = run /\ launches' = launches
      /\ published' = published /\ staging' = staging
  BY DEF RemoveFile, At
<1>2. /\ stage \in Job /\ run = NoRun
      /\ marker \in {NoMarker, [state |-> "torn"]} \cup [state : {"whole"}, config : Configs]
      /\ computed \in [Names -> ArtifactStates] /\ published \in [Names -> ArtifactStates]
      /\ staging \subseteq Names
  BY <1>1, StepFacts DEF Places
<1>3. /\ manifest' \in {manifest, NoManifest} /\ samples' \in {samples, NoFile}
      /\ errors' \in {errors, NoFile} /\ marker' \in {marker, NoMarker}
      /\ computed' = computed
           \/ \E name \in Names : computed' = [computed EXCEPT ![name] = NoArtifact]
  BY DEF RemoveFile
<1>4. RunInv' /\ RowsOf(samples') \subseteq RowsOf(samples)
  BY <1>1, <1>2, <1>3, FilesGone DEF DirectoryInv, RunInv, RunTypeOK
<1>5. NoArtifact \in ArtifactStates /\ Covers(NoArtifact)
  BY DEF ArtifactStates, Covers, NoArtifact
<1>6. /\ computed' \in [Names -> ArtifactStates]
      /\ \A name \in Names : computed'[name] = computed[name] \/ computed'[name] = NoArtifact
  BY <1>2, <1>3, <1>5
<1>7. PipelineTypeOK'
  BY <1>1, <1>2, <1>3, <1>6 DEF PipelineTypeOK
<1>8. CollectedInv' /\ (At("by hand") => CleanlyComplete)'
  BY <1>1, <1>2 DEF CollectedInv, Collected, At
<1>9. ProgressInv'
  BY <1>1, <1>4 DEF DirectoryInv, ProgressInv, At
<1>10. ~AllowIncomplete =>
         \A name \in Names : Covers(computed'[name]) /\ Covers(published'[name])
  BY <1>1, <1>5, <1>6 DEF DirectoryInv
<1> QED BY <1>4, <1>7, <1>8, <1>9, <1>10 DEF DirectoryInv

\* A job that has cleaned up, or that is killed between two steps of its own.
LEMMA EndKeeps ==
  ASSUME DirectoryInv, ~At("by hand"), Removed \/ KillJob
  PROVE  DirectoryInv'
<1>1. /\ UNCHANGED vars /\ stage' = Off /\ marker' = marker
      /\ computed' = computed /\ published' = published /\ staging' = staging
      /\ ~At("collecting")
  BY DEF Removed, KillJob, At
<1>2. run = NoRun
  BY <1>1 DEF DirectoryInv, CollectedInv
<1>3. RunInv' /\ run' = NoRun
  BY <1>1, <1>2, RunUnchanged DEF DirectoryInv, RunInv, RunTypeOK, vars
<1>4. marker \in {NoMarker, [state |-> "torn"]} \cup [state : {"whole"}, config : Configs]
  BY DEF DirectoryInv, PipelineTypeOK
<1> QED BY <1>1, <1>3, <1>4, OffKeeps

\* One launch more is still a number of launches.
LEMMA LaunchesCount ==
  ASSUME RunInv, launches' = launches + 1
  PROVE  launches' \in Nat
<1>1. launches \in Nat
  BY DEF RunInv, RunTypeOK
<1> QED BY <1>1

\* Collections by hand work on the directory alone.
LEMMA ByHandKeeps ==
  ASSUME DirectoryInv, At("by hand"), Next, UNCHANGED pipelineVars
  PROVE  DirectoryInv' /\ (samples.exists => samples'.exists)
<1>1. /\ stage' = stage /\ marker' = marker /\ computed' = computed
      /\ published' = published /\ staging' = staging
  BY DEF pipelineVars
<1>2. RunInv /\ CleanlyComplete
  BY DEF DirectoryInv
<1>3. RunInv' /\ CleanlyComplete' /\ (samples.exists => samples'.exists)
  <2>1. CASE RunStep /\ UNCHANGED launches
    BY <1>2, <2>1, RunStepKeeps, CompleteStays
  <2>2. ASSUME launches' \in Nat,
               NEW config \in Configs, NEW resume \in BOOLEAN, Start(config, resume)
        PROVE  RunInv' /\ CleanlyComplete' /\ (samples.exists => samples'.exists)
    <3>1. RunInv'
      BY <1>2, <2>2, StartKeeps
    <3>2. samples' = samples /\ errors' = errors
      BY <2>2 DEF Start
    <3>3. CASE manifest' = manifest
      <4>1. CleanlyComplete'
        BY <1>2, <3>2, <3>3 DEF CleanlyComplete
      <4> QED BY <3>1, <3>2, <4>1
    <3>4. CASE manifest' = [status |-> "running", identity |-> config,
                            completed |-> 0, errors |-> 0]
      <4>1. CleanlyComplete'
        BY <3>4 DEF CleanlyComplete
      <4> QED BY <3>1, <3>2, <4>1
    <3> QED BY <2>2, <3>3, <3>4 DEF Start
  <2>3. CASE /\ launches' = launches + 1
             /\ \E config \in Configs, resume \in BOOLEAN : Start(config, resume)
    <3>1. launches' \in Nat
      BY <2>3, LaunchesCount DEF DirectoryInv
    <3>2. PICK config \in Configs, resume \in BOOLEAN : Start(config, resume)
      BY <2>3
    <3> QED BY <2>2, <3>1, <3>2
  <2> QED BY <2>1, <2>3 DEF Next
<1>4. PipelineTypeOK'
  BY <1>1 DEF DirectoryInv, PipelineTypeOK
<1>5. CollectedInv' /\ ProgressInv'
  BY <1>1 DEF CollectedInv, Collected, ProgressInv, At
<1>6. ~AllowIncomplete =>
        \A name \in Names : Covers(computed'[name]) /\ Covers(published'[name])
  BY <1>1 DEF DirectoryInv
<1> QED BY <1>3, <1>4, <1>5, <1>6 DEF DirectoryInv

------------------------------------------------------------------------------
(* The theorems.                                                            *)

\* Nothing happens: the invariant stays.
LEMMA StutterKeeps ==
  ASSUME DirectoryInv, UNCHANGED allVars
  PROVE  DirectoryInv'
<1>1. /\ UNCHANGED <<manifest, samples, errors, run>> /\ launches' = launches
      /\ stage' = stage /\ marker' = marker /\ computed' = computed
      /\ published' = published /\ staging' = staging
  BY DEF allVars, vars, pipelineVars
<1>2. RunInv'
  BY <1>1, RunUnchanged DEF DirectoryInv, RunInv, RunTypeOK
<1>3. manifest' = manifest /\ samples' = samples /\ errors' = errors /\ run' = run
  BY <1>1
<1>4. PipelineTypeOK' /\ CollectedInv'
  BY <1>1, <1>3 DEF DirectoryInv, PipelineTypeOK, CollectedInv, Collected, At, Running
<1>5. ProgressInv'
  BY <1>1, <1>3 DEF DirectoryInv, ProgressInv, At, AllComputed
<1>6. (At("by hand") => CleanlyComplete)'
  BY <1>1, <1>3 DEF DirectoryInv, At, CleanlyComplete
<1>7. ~AllowIncomplete =>
        \A name \in Names : Covers(computed'[name]) /\ Covers(published'[name])
  BY <1>1 DEF DirectoryInv
<1> QED BY <1>2, <1>4, <1>5, <1>6, <1>7 DEF DirectoryInv

\* The state directory, the collection at work on it and the job around it stay
\* consistent through every interleaving of jobs, kills, requeues and clean-ups, and of
\* collections by hand (collect_validation_states, ClusterRouterHPCPipeline.run).
THEOREM DirectoryInvariance == DirectorySpec => []DirectoryInv
<1>1. DirectoryInit => DirectoryInv
  BY DirectoryInitial
<1>2. DirectoryInv /\ [DirectoryNext]_allVars => DirectoryInv'
  <2> SUFFICES ASSUME DirectoryInv, [DirectoryNext]_allVars PROVE DirectoryInv'
    OBVIOUS
  <2>1. CASE At("by hand") /\ Next /\ UNCHANGED pipelineVars
    BY <2>1, ByHandKeeps
  <2>2. CASE ~At("by hand") /\ PipelineNext
    <3>1. CASE \E config \in Configs, fresh \in BOOLEAN : Launch(config, fresh)
      BY <3>1, LaunchKeeps
    <3>2. CASE WriteMarker
      BY <3>2, MarkerKeeps
    <3>3. CASE Collect \/ CollectStep \/ CollectEnds
      BY <3>3, CollectKeeps
    <3>4. CASE Metrics
      BY <3>4, MetricsKeeps
    <3>5. CASE OpenArtifact \/ WriteArtifact
      BY <3>5, OpenKeeps, WriteKeeps
    <3>6. CASE Stage \/ Publish
      BY <3>6, StageKeeps, PublishKeeps
    <3>7. CASE BeginCleanup \/ RemoveFile
      BY <3>7, BeginCleanupKeeps, RemoveKeeps
    <3>8. CASE Removed \/ KillJob
      BY <2>2, <3>8, EndKeeps
    <3> QED BY <2>2, <3>1, <3>2, <3>3, <3>4, <3>5, <3>6, <3>7, <3>8 DEF PipelineNext
  <2>3. CASE UNCHANGED allVars
    BY <2>3, StutterKeeps
  <2> QED BY <2>1, <2>2, <2>3 DEF DirectoryNext
<1> QED BY <1>1, <1>2, PTL DEF DirectorySpec

\* No sample is recorded twice, none behind a torn row, and "complete" is true of the
\* whole history of a directory that collections alone write.
THEOREM CollectionsTellTheTruth == DirectorySpec => []CollectedOnceAndWhole
<1>1. DirectoryInv => CollectedOnceAndWhole
  BY DEF DirectoryInv, RunInv, CollectedOnceAndWhole
<1> QED BY <1>1, DirectoryInvariance, PTL

\* Where incomplete state is not allowed, an artifact of the persistent directory is
\* about every sample of its dataset (_metrics, _export_metrics).
THEOREM OnlyWholeDatasetsPublished == DirectorySpec => []PublishedCoversDataset
<1>1. DirectoryInv => PublishedCoversDataset
  BY DEF DirectoryInv, PublishedCoversDataset, Covers
<1> QED BY <1>1, DirectoryInvariance, PTL

\* A manifest that closes a collection counts the rows and the error lines of the whole
\* directory; and no row leaves a workspace that what is published does not account for
\* (_write_manifest, _cleanup_workspace).
THEOREM RowsAlwaysAccountedFor == DirectorySpec => RowsAccountedFor
<1> DEFINE Closed == manifest' # manifest /\ manifest'.status \notin {"running", "absent"}
           Counted == /\ manifest'.completed = Cardinality(RowsOf(samples'))
                      /\ manifest'.errors >= Len(errors'.lines)
           Taken == /\ ~AllowIncomplete
                    /\ samples.exists /\ ~samples'.exists /\ ~At("off")
                    /\ stage.config.maximum = 0
           Outlived(name) ==
              /\ published[name].state # "absent"
              /\ published[name].state = "whole" /\ published[name].config = stage.config =>
                    RowsOf(samples) \subseteq published[name].rows
<1>1. ASSUME DirectoryInv, [DirectoryNext]_allVars, Closed
      PROVE  Counted
  <2>1. RunInv
    BY <1>1 DEF DirectoryInv
  <2>2. ASSUME RunStep, launches' = launches PROVE Counted
    BY <1>1, <2>1, <2>2, RunStepKeeps
  <2>3. ASSUME NEW config, NEW resume \in BOOLEAN, Start(config, resume) PROVE FALSE
    BY <1>1, <2>3 DEF Start
  <2>4. CASE At("by hand") /\ Next /\ UNCHANGED pipelineVars
    BY <2>2, <2>3, <2>4 DEF Next
  <2>5. CASE CollectStep
    BY <2>2, <2>5 DEF CollectStep
  <2>6. CASE Collect
    BY <2>3, <2>6 DEF Collect
  <2>7. ASSUME manifest' \in {manifest, NoManifest} PROVE FALSE
    BY <1>1, <2>7 DEF NoManifest
  <2>8. CASE \/ \E config \in Configs, fresh \in BOOLEAN : Launch(config, fresh)
             \/ CollectEnds \/ RemoveFile
    BY <2>7, <2>8 DEF Launch, FreshWorkspace, CollectEnds, RemoveFile
  <2>9. CASE \/ WriteMarker \/ Metrics \/ OpenArtifact \/ WriteArtifact \/ Stage \/ Publish
             \/ BeginCleanup \/ Removed \/ KillJob \/ UNCHANGED allVars
    <3>1. UNCHANGED vars
      BY <2>9 DEF WriteMarker, Metrics, OpenArtifact, WriteArtifact, Stage, Publish,
                  BeginCleanup, Removed, KillJob, allVars
    <3> QED BY <2>7, <3>1 DEF vars
  <2> QED
    BY <1>1, <2>4, <2>5, <2>6, <2>8, <2>9 DEF DirectoryNext, PipelineNext
<1>2. ASSUME DirectoryInv, [DirectoryNext]_allVars, Taken, NEW name \in Names
      PROVE  Outlived(name)
  <2>1. RunInv
    BY <1>2 DEF DirectoryInv
  <2>2. CASE RemoveFile
    <3>1. At("removing")
      BY <2>2 DEF RemoveFile
    <3>2. /\ published[name].state # "absent"
          /\ RowsOf(samples) \subseteq Range(stage.config.dataset)
          /\ Covers(published[name])
      BY <1>2, <3>1 DEF DirectoryInv, ProgressInv, At
    <3> QED BY <1>2, <3>2 DEF Covers
  <2>3. CASE At("by hand") /\ Next /\ UNCHANGED pipelineVars
    BY <1>2, <2>3, ByHandKeeps
  <2>4. CASE CollectStep
    BY <1>2, <2>1, <2>4, RunStepKeeps DEF CollectStep
  <2>5. CASE \E config \in Configs, fresh \in BOOLEAN : Launch(config, fresh)
    BY <1>2, <2>5 DEF Launch
  <2>6. CASE Collect \/ CollectEnds
    BY <1>2, <2>6 DEF Collect, Start, CollectEnds
  <2>7. CASE \/ WriteMarker \/ Metrics \/ OpenArtifact \/ WriteArtifact \/ Stage \/ Publish
             \/ BeginCleanup \/ Removed \/ KillJob \/ UNCHANGED allVars
    <3>1. UNCHANGED vars
      BY <2>7 DEF WriteMarker, Metrics, OpenArtifact, WriteArtifact, Stage, Publish,
                  BeginCleanup, Removed, KillJob, allVars
    <3> QED BY <1>2, <3>1 DEF vars
  <2> QED
    BY <1>2, <2>2, <2>3, <2>4, <2>5, <2>6, <2>7 DEF DirectoryNext, PipelineNext
<1>3. DirectoryInv /\ [DirectoryNext]_allVars => [Closed => Counted]_vars
  BY <1>1
<1>4. DirectoryInv /\ [DirectoryNext]_allVars =>
        [Taken => \A name \in Names : Outlived(name)]_allVars
  BY <1>2
<1>5. DirectorySpec => [][Closed => Counted]_vars
  BY <1>3, DirectoryInvariance, PTL DEF DirectorySpec
<1>6. DirectorySpec => [][Taken => \A name \in Names : Outlived(name)]_allVars
  BY <1>4, DirectoryInvariance, PTL DEF DirectorySpec
<1> QED BY <1>5, <1>6 DEF RowsAccountedFor, ManifestCountsRows, RowsOutlivedByMetrics
==============================================================================
