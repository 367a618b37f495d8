-------------------------- MODULE ReadLinesProofs ---------------------------
(***************************************************************************)
(* What holds of ReadLines for every file, range, budget and chunk size.   *)
(***************************************************************************)
EXTENDS ReadLines, FoldLemmas

-----------------------------------------------------------------------------
(* The decoder. *)

\* Its states.
Decoder == [text : Seq(Chars), held : BOOLEAN]
FeedByte == [p \in Decoder \X Bytes |-> Feed(p[1], p[2])]
Fresh(h) == [text |-> <<>>, held |-> h]

\* The iteration that Decode is.
Decodes(it, h, s) ==
  it = [T \in SUBSET DOMAIN s |->
          IF T = {} THEN Fresh(h) ELSE Feed(it[T \ {Max(T)}], s[Max(T)])]

\* What one byte adds to the text depends on the byte and on what is held only.
Adds1(h, b) ==
  CASE b = "ascii" -> IF h THEN <<"r", "a">> ELSE <<"a">>
    [] b = "newline" -> IF h THEN <<"r", "n">> ELSE <<"n">>
    [] b = "lead" -> IF h THEN <<"r">> ELSE <<>>
    [] b = "cont" -> IF h THEN <<"e">> ELSE <<"r">>

\* What Feed does is what it adds.
LEMMA FedText ==
  ASSUME NEW d \in Decoder, NEW b \in Bytes, NEW text \in Seq(Chars), NEW h \in BOOLEAN,
         Feed(d, b) = [text |-> d.text \o text, held |-> h], h = (b = "lead"),
         Adds1(d.held, b) = text
  PROVE  /\ Feed(d, b) \in Decoder
         /\ Adds1(d.held, b) \in Seq(Chars)
         /\ Feed(d, b).text = d.text \o Adds1(d.held, b)
         /\ Feed(d, b).held = (b = "lead")
<1>1. d.text \in Seq(Chars)
  BY DEF Decoder
<1>2. d.text \o text \in Seq(Chars)
  BY <1>1
<1> QED
  BY <1>2 DEF Decoder

\* One byte keeps a decoder a decoder.
LEMMA FeedSteps ==
  ASSUME NEW d \in Decoder, NEW b \in Bytes
  PROVE  /\ Feed(d, b) \in Decoder
         /\ Adds1(d.held, b) \in Seq(Chars)
         /\ Feed(d, b).text = d.text \o Adds1(d.held, b)
         /\ Feed(d, b).held = (b = "lead")
<1>1. {"a", "n", "e", "r"} \subseteq Chars
  BY DEF Chars, Width
<1>2. d.text \in Seq(Chars) /\ d.held \in BOOLEAN
  BY DEF Decoder
<1>3. /\ \A c \in Chars : d.text \o <<c>> = Append(d.text, c)
      /\ \A c \in Chars, e \in Chars : d.text \o <<c, e>> = Append(Append(d.text, c), e)
      /\ d.text \o <<>> = d.text
  BY <1>2, ConcatEmptySeq
<1>4. /\ <<>> \in Seq(Chars)
      /\ \A c \in Chars : <<c>> \in Seq(Chars)
      /\ \A c \in Chars, e \in Chars : <<c, e>> \in Seq(Chars)
  OBVIOUS
<1>5. CASE b = "ascii"
  <2>1. FALSE = (b = "lead")
    BY <1>5
  <2>2. CASE d.held
    <3>1. Adds1(d.held, b) = <<"r", "a">>
      BY <1>5, <2>2 DEF Adds1
    <3>2. Feed(d, b) = [text |-> Append(Append(d.text, "r"), "a"), held |-> FALSE]
      BY <1>5, <1>2, <2>2 DEF Feed
    <3>3. Append(Append(d.text, "r"), "a") = d.text \o <<"r", "a">> /\ <<"r", "a">> \in Seq(Chars)
      BY <1>1, <1>3, <1>4
    <3>4. Feed(d, b) = [text |-> d.text \o <<"r", "a">>, held |-> FALSE]
      BY <3>2, <3>3, Zenon
    <3> QED
      BY <2>1, <3>1, <3>3, <3>4, FedText, Zenon
  <2>3. CASE ~d.held
    <3>1. Adds1(d.held, b) = <<"a">>
      BY <1>5, <2>3 DEF Adds1
    <3>2. Feed(d, b) = [text |-> Append(d.text, "a"), held |-> FALSE]
      BY <1>5, <1>2, <2>3 DEF Feed
    <3>3. Append(d.text, "a") = d.text \o <<"a">> /\ <<"a">> \in Seq(Chars)
      BY <1>1, <1>3, <1>4
    <3>4. Feed(d, b) = [text |-> d.text \o <<"a">>, held |-> FALSE]
      BY <3>2, <3>3, Zenon
    <3> QED
      BY <2>1, <3>1, <3>3, <3>4, FedText, Zenon
  <2> QED
    BY <1>2, <2>2, <2>3
<1>6. CASE b = "newline"
  <2>1. FALSE = (b = "lead")
    BY <1>6
  <2>2. CASE d.held
    <3>1. Adds1(d.held, b) = <<"r", "n">>
      BY <1>6, <2>2 DEF Adds1
    <3>2. Feed(d, b) = [text |-> Append(Append(d.text, "r"), "n"), held |-> FALSE]
      BY <1>6, <1>2, <2>2 DEF Feed
    <3>3. Append(Append(d.text, "r"), "n") = d.text \o <<"r", "n">> /\ <<"r", "n">> \in Seq(Chars)
      BY <1>1, <1>3, <1>4
    <3>4. Feed(d, b) = [text |-> d.text \o <<"r", "n">>, held |-> FALSE]
      BY <3>2, <3>3, Zenon
    <3> QED
      BY <2>1, <3>1, <3>3, <3>4, FedText, Zenon
  <2>3. CASE ~d.held
    <3>1. Adds1(d.held, b) = <<"n">>
      BY <1>6, <2>3 DEF Adds1
    <3>2. Feed(d, b) = [text |-> Append(d.text, "n"), held |-> FALSE]
      BY <1>6, <1>2, <2>3 DEF Feed
    <3>3. Append(d.text, "n") = d.text \o <<"n">> /\ <<"n">> \in Seq(Chars)
      BY <1>1, <1>3, <1>4
    <3>4. Feed(d, b) = [text |-> d.text \o <<"n">>, held |-> FALSE]
      BY <3>2, <3>3, Zenon
    <3> QED
      BY <2>1, <3>1, <3>3, <3>4, FedText, Zenon
  <2> QED
    BY <1>2, <2>2, <2>3
<1>7. CASE b = "lead"
  <2>1. TRUE = (b = "lead")
    BY <1>7
  <2>2. CASE d.held
    <3>1. Adds1(d.held, b) = <<"r">>
      BY <1>7, <2>2 DEF Adds1
    <3>2. Feed(d, b) = [text |-> Append(d.text, "r"), held |-> TRUE]
      BY <1>7, <1>2, <2>2 DEF Feed
    <3>3. Append(d.text, "r") = d.text \o <<"r">> /\ <<"r">> \in Seq(Chars)
      BY <1>1, <1>3, <1>4
    <3>4. Feed(d, b) = [text |-> d.text \o <<"r">>, held |-> TRUE]
      BY <3>2, <3>3, Zenon
    <3> QED
      BY <2>1, <3>1, <3>3, <3>4, FedText, Zenon
  <2>3. CASE ~d.held
    <3>1. Adds1(d.held, b) = <<>>
      BY <1>7, <2>3 DEF Adds1
    <3>2. Feed(d, b) = [text |-> d.text, held |-> TRUE]
      BY <1>7, <1>2, <2>3 DEF Feed
    <3>3. d.text = d.text \o <<>> /\ <<>> \in Seq(Chars)
      BY <1>1, <1>3, <1>4
    <3>4. Feed(d, b) = [text |-> d.text \o <<>>, held |-> TRUE]
      BY <3>2, <3>3, Zenon
    <3> QED
      BY <2>1, <3>1, <3>3, <3>4, FedText, Zenon
  <2> QED
    BY <1>2, <2>2, <2>3
<1>8. CASE b = "cont"
  <2>1. FALSE = (b = "lead")
    BY <1>8
  <2>2. CASE d.held
    <3>1. Adds1(d.held, b) = <<"e">>
      BY <1>8, <2>2 DEF Adds1
    <3>2. Feed(d, b) = [text |-> Append(d.text, "e"), held |-> FALSE]
      BY <1>8, <1>2, <2>2 DEF Feed
    <3>3. Append(d.text, "e") = d.text \o <<"e">> /\ <<"e">> \in Seq(Chars)
      BY <1>1, <1>3, <1>4
    <3>4. Feed(d, b) = [text |-> d.text \o <<"e">>, held |-> FALSE]
      BY <3>2, <3>3, Zenon
    <3> QED
      BY <2>1, <3>1, <3>3, <3>4, FedText, Zenon
  <2>3. CASE ~d.held
    <3>1. Adds1(d.held, b) = <<"r">>
      BY <1>8, <2>3 DEF Adds1
    <3>2. Feed(d, b) = [text |-> Append(d.text, "r"), held |-> FALSE]
      BY <1>8, <1>2, <2>3 DEF Feed
    <3>3. Append(d.text, "r") = d.text \o <<"r">> /\ <<"r">> \in Seq(Chars)
      BY <1>1, <1>3, <1>4
    <3>4. Feed(d, b) = [text |-> d.text \o <<"r">>, held |-> FALSE]
      BY <3>2, <3>3, Zenon
    <3> QED
      BY <2>1, <3>1, <3>3, <3>4, FedText, Zenon
  <2> QED
    BY <1>2, <2>2, <2>3
<1> QED
  BY <1>5, <1>6, <1>7, <1>8 DEF Bytes

\* The fold's step is a function.
LEMMA FeedByteSteps ==
  ASSUME NEW h \in BOOLEAN
  PROVE  /\ Steps(FeedByte, Fresh(h), Decoder, Bytes)
         /\ \A d \in Decoder, b \in Bytes : FeedByte[<<d, b>>] = Feed(d, b)
<1>1. Fresh(h) \in Decoder
  BY DEF Fresh, Decoder
<1>2. \A d \in Decoder, b \in Bytes : Feed(d, b) \in Decoder
  BY FeedSteps
<1> QED
  BY <1>1, <1>2 DEF Steps, FeedByte

\* Decode is a fold whose step is a function.
LEMMA DecodeIsFold ==
  \A h \in BOOLEAN, s \in Seq(Bytes) : Decode(h, s) = LeftFold(FeedByte, Fresh(h), s)
<1> SUFFICES ASSUME NEW h \in BOOLEAN, NEW s \in Seq(Bytes)
             PROVE  Decode(h, s) = LeftFold(FeedByte, Fresh(h), s)
  OBVIOUS
<1>0. Steps(FeedByte, Fresh(h), Decoder, Bytes)
  BY FeedByteSteps
<1>1. \A d \in Decoder, b \in Bytes : FeedByte[<<d, b>>] = Feed(d, b)
  BY FeedByteSteps
<1> DEFINE S == DOMAIN s
           F == CHOOSE it : Decodes(it, h, s)
<1>2. \A T \in SUBSET S : T # {} => Max(T) \in S /\ s[Max(T)] \in Bytes
  BY LenProperties, MaxIsGreatest
<1>3. PICK it \in [SUBSET S -> Decoder] : Follows(it, FeedByte, Fresh(h), s)
  BY <1>0, LeftFoldExists
<1>4. ASSUME NEW T \in SUBSET S
      PROVE  it[T] = IF T = {} THEN Fresh(h) ELSE Feed(it[T \ {Max(T)}], s[Max(T)])
  <2>1. it[T] = IF T = {} THEN Fresh(h) ELSE FeedByte[<<it[T \ {Max(T)}], s[Max(T)]>>]
    BY <1>3 DEF Follows
  <2> QED
    BY <2>1, <1>1, <1>2, <1>3
<1>5. Decodes(it, h, s)
  BY <1>4 DEF Decodes
<1>6. Decodes(F, h, s)
  BY <1>5
<1>7. Decode(h, s) = F[S]
  BY DEF Decode, FoldLeft, MapThenFoldSet, Decodes, Fresh
<1> HIDE DEF F
<1>8. FollowsOn(F, Decoder, FeedByte, Fresh(h), s)
  <2>1. ASSUME NEW T \in SUBSET S, T # {}, F[T \ {Max(T)}] \in Decoder
        PROVE  F[T] = FeedByte[<<F[T \ {Max(T)}], s[Max(T)]>>]
    <3>1. F[T] = Feed(F[T \ {Max(T)}], s[Max(T)])
      BY <1>6, <2>1 DEF Decodes
    <3> QED
      BY <3>1, <1>1, <1>2, <2>1
  <2>2. F[{}] = Fresh(h)
    BY <1>6 DEF Decodes
  <2> QED
    BY <2>1, <2>2 DEF FollowsOn
<1> QED
  BY <1>0, <1>7, <1>8, LeftFoldUnique

\* No bytes give no text, and each further byte is fed to the decoder.
LEMMA DecodeSteps ==
  ASSUME NEW h \in BOOLEAN
  PROVE  /\ Decode(h, <<>>) = Fresh(h)
         /\ \A s \in Seq(Bytes) : Decode(h, s) \in Decoder
         /\ \A s \in Seq(Bytes), b \in Bytes : Decode(h, Append(s, b)) = Feed(Decode(h, s), b)
<1>0. Steps(FeedByte, Fresh(h), Decoder, Bytes)
  BY FeedByteSteps
<1>1. \A d \in Decoder, b \in Bytes : FeedByte[<<d, b>>] = Feed(d, b)
  BY FeedByteSteps
<1>2. LeftFold(FeedByte, Fresh(h), <<>>) = Fresh(h)
  BY <1>0, LeftFoldSteps
<1>3. ASSUME NEW s \in Seq(Bytes) PROVE LeftFold(FeedByte, Fresh(h), s) \in Decoder
  BY <1>0, LeftFoldSteps
<1>4. ASSUME NEW s \in Seq(Bytes), NEW b \in Bytes
      PROVE  Decode(h, Append(s, b)) = Feed(Decode(h, s), b)
  <2>1. LeftFold(FeedByte, Fresh(h), Append(s, b)) = FeedByte[<<LeftFold(FeedByte, Fresh(h), s), b>>]
    BY <1>0, LeftFoldSteps
  <2>2. Append(s, b) \in Seq(Bytes)
    OBVIOUS
  <2> QED
    BY <1>1, <1>3, <2>1, <2>2, DecodeIsFold
<1>5. Decode(h, <<>>) = Fresh(h)
  BY <1>2, EmptySeq, DecodeIsFold
<1> QED
  BY <1>3, <1>4, <1>5, DecodeIsFold

-----------------------------------------------------------------------------
(* Chunks and lines. *)

\* What the loop has read of the file makes sense.
Reads == file \in Seq(Bytes) /\ pos \in 0..Len(file)

\* The chunk that readline returns ends at byte e, and only that byte may be a
\* newline.
ChunkTo(e) ==
  /\ e \in pos + 1 .. Len(file)
  /\ NextChunk = SubSeq(file, pos + 1, e)
  /\ \A i \in pos + 1 .. e - 1 : file[i] # "newline"

\* readline returns nothing at the end of the file only, else a chunk.
LEMMA Chunks ==
  ASSUME Reads
  PROVE  /\ NextChunk = <<>> => pos = Len(file)
         /\ NextChunk # <<>> => \E e \in pos + 1 .. Len(file) : ChunkTo(e)
<1> DEFINE ends == {i \in pos + 1 .. Len(file) :
                      file[i] = "newline" \/ i = pos + Chunk \/ i = Len(file)}
           least == CHOOSE i \in ends : \A j \in ends : i <= j
<1>1. Len(file) \in Nat /\ pos \in Nat /\ pos <= Len(file)
  BY DEF Reads
<1>2. NextChunk = IF ends = {} THEN <<>> ELSE SubSeq(file, pos + 1, least)
  BY DEF NextChunk
<1>3. CASE pos = Len(file)
  <2>1. ends = {}
    BY <1>1, <1>3
  <2> QED
    BY <2>1, <1>2, <1>3
<1>4. CASE pos # Len(file)
  <2>1. Len(file) \in ends
    BY <1>1, <1>4
  <2>2. ends \subseteq Nat
    BY <1>1
  <2>3. \E i \in ends : \A j \in ends : i <= j
    <3> HIDE DEF ends
    <3> QED
      BY <2>1, <2>2, LeastNumber
  <2>4. least \in ends /\ \A j \in ends : least <= j
    BY <2>3
  <2> HIDE DEF least
  <2>5. least \in pos + 1 .. Len(file)
    BY <2>4
  <2>6. \A i \in pos + 1 .. least - 1 : file[i] # "newline"
    BY <1>1, <2>4, <2>5
  <2>7. NextChunk = SubSeq(file, pos + 1, least)
    BY <1>2, <2>1
  <2>8. ChunkTo(least)
    BY <2>5, <2>6, <2>7 DEF ChunkTo
  <2>9. Len(SubSeq(file, pos + 1, least)) = least - pos
    BY <1>1, <2>5, SubSeqProperties DEF Reads
  <2>10. NextChunk # <<>>
    BY <1>1, <2>5, <2>7, <2>9, EmptySeq
  <2> QED
    BY <2>5, <2>8, <2>10
<1> QED
  BY <1>3, <1>4

\* A chunk's length, its bytes and its last byte.
LEMMA ChunkBytes ==
  ASSUME Reads, NEW e, ChunkTo(e)
  PROVE  /\ e \in Nat /\ pos < e /\ e <= Len(file)
         /\ NextChunk \in Seq(Bytes) /\ Len(NextChunk) = e - pos
         /\ pos + Len(NextChunk) = e
         /\ \A i \in 1 .. e - pos : NextChunk[i] = file[pos + i]
         /\ Last(NextChunk) = file[e]
<1>1. Len(file) \in Nat /\ pos \in Nat /\ e \in pos + 1 .. Len(file) /\ file \in Seq(Bytes)
  BY DEF Reads, ChunkTo
<1>2. NextChunk = SubSeq(file, pos + 1, e)
  BY DEF ChunkTo
<1>3. \A i \in pos + 1 .. e : file[i] \in Bytes
  BY <1>1
<1>4. /\ NextChunk \in Seq(Bytes) /\ Len(NextChunk) = e - pos
      /\ \A i \in 1 .. e - pos : NextChunk[i] = file[pos + i]
  BY <1>1, <1>2, <1>3
<1>5. Last(NextChunk) = file[e]
  BY <1>1, <1>4 DEF Last
<1> QED
  BY <1>1, <1>4, <1>5

\* The newlines among the first n bytes.
NL(n) == Cardinality({j \in 1..n : file[j] = "newline"})

\* Each newline counts one.
LEMMA NLSteps ==
  /\ NL(0) = 0
  /\ \A n \in Nat : NL(n) \in Nat
  /\ \A n \in Nat : NL(n + 1) = NL(n) + (IF file[n + 1] = "newline" THEN 1 ELSE 0)
  /\ \A m, n \in Nat : m <= n => NL(m) <= NL(n)
<1> DEFINE At(n) == {j \in 1..n : file[j] = "newline"}
<1>1. \A n \in Nat : IsFiniteSet(At(n)) /\ Cardinality(At(n)) \in Nat
  <2>1. \A n \in Nat : IsFiniteSet(1..n) /\ At(n) \in SUBSET (1..n)
    BY FS_Interval
  <2> QED
    BY <2>1, FS_Subset, FS_CardinalityType
<1>2. At(0) = {}
  OBVIOUS
<1>3. ASSUME NEW n \in Nat
      PROVE  Cardinality(At(n + 1)) = Cardinality(At(n)) + (IF file[n + 1] = "newline" THEN 1 ELSE 0)
  <2>1. CASE file[n + 1] = "newline"
    <3>1. At(n + 1) = At(n) \cup {n + 1} /\ n + 1 \notin At(n)
      BY <2>1
    <3>2. Cardinality(At(n) \cup {n + 1}) = Cardinality(At(n)) + 1
      BY <1>1, <3>1, FS_AddElement
    <3> QED
      BY <2>1, <3>1, <3>2
  <2>2. CASE file[n + 1] # "newline"
    <3>1. At(n + 1) = At(n)
      BY <2>2
    <3> QED
      BY <1>1, <2>2, <3>1
  <2> QED
    BY <2>1, <2>2
<1>4. ASSUME NEW m \in Nat, NEW n \in Nat, m <= n PROVE Cardinality(At(m)) <= Cardinality(At(n))
  <2>1. At(m) \in SUBSET At(n)
    BY <1>4
  <2> QED
    BY <1>1, <2>1, FS_Subset
<1>5. Cardinality(At(0)) = 0
  BY <1>2, FS_EmptySet
<1> HIDE DEF At
<1>6. \A n \in Nat : NL(n) = Cardinality(At(n))
  BY DEF NL, At
<1>7. ASSUME NEW n \in Nat
      PROVE  NL(n + 1) = NL(n) + (IF file[n + 1] = "newline" THEN 1 ELSE 0)
  <2>1. NL(n) = Cardinality(At(n)) /\ NL(n + 1) = Cardinality(At(n + 1))
    BY <1>6
  <2> QED
    BY <1>3, <2>1
<1>8. NL(0) = 0
  BY <1>5, <1>6
<1>9. ASSUME NEW m \in Nat, NEW n \in Nat, m <= n PROVE NL(m) <= NL(n)
  BY <1>4, <1>6, <1>9
<1>10. \A n \in Nat : NL(n) \in Nat
  BY <1>1, <1>6
<1> HIDE DEF NL
<1> QED
  BY <1>7, <1>8, <1>9, <1>10

\* No newline is counted within a chunk before its last byte.
LEMMA ChunkLines ==
  ASSUME Reads, NEW e, ChunkTo(e)
  PROVE  /\ \A i \in pos .. e - 1 : NL(i) = NL(pos)
         /\ NL(e) = NL(pos) + (IF file[e] = "newline" THEN 1 ELSE 0)
<1>1. pos \in Nat /\ e \in Nat /\ pos < e
  BY ChunkBytes DEF Reads
<1>2. \A i \in pos + 1 .. e - 1 : file[i] # "newline"
  BY DEF ChunkTo
<1> DEFINE S == {n \in Nat : pos + n <= e - 1 => NL(pos + n) = NL(pos)}
<1>3. S = Nat
  <2>1. 0 \in S
    BY <1>1
  <2>2. ASSUME NEW n \in S PROVE n + 1 \in S
    <3>1. SUFFICES ASSUME pos + (n + 1) <= e - 1 PROVE NL(pos + (n + 1)) = NL(pos)
      OBVIOUS
    <3>2. NL(pos + n) = NL(pos) /\ pos + n \in Nat
      BY <1>1, <3>1
    <3>3. file[(pos + n) + 1] # "newline"
      BY <1>1, <1>2, <3>1
    <3>4. NL((pos + n) + 1) = NL(pos + n) + 0
      BY <3>2, <3>3, NLSteps
    <3>5. NL(pos) \in Nat /\ (pos + n) + 1 = pos + (n + 1)
      BY <1>1, NLSteps
    <3> QED
      BY <3>2, <3>4, <3>5
  <2> HIDE DEF S
  <2>3. S \subseteq Nat
    BY DEF S
  <2> QED
    BY <2>1, <2>2, <2>3, AllNumbers
<1>4. ASSUME NEW i \in pos .. e - 1 PROVE NL(i) = NL(pos)
  <2>1. i - pos \in Nat /\ pos + (i - pos) = i /\ i <= e - 1
    BY <1>1
  <2>2. i - pos \in S
    BY <1>3, <2>1
  <2>3. NL(pos + (i - pos)) = NL(pos)
    BY <2>1, <2>2
  <2> QED
    BY <2>1, <2>3
<1>5. NL(e) = NL(e - 1) + (IF file[e] = "newline" THEN 1 ELSE 0)
  <2>1. e - 1 \in Nat /\ (e - 1) + 1 = e
    BY <1>1
  <2> QED
    BY <2>1, NLSteps
<1> QED
  BY <1>1, <1>4, <1>5

-----------------------------------------------------------------------------
(* What the loop counts. *)

Types ==
  /\ pc \in {"start", "loop", "tail", "done", "error"}
  /\ Reads
  /\ startLine \in Int \cup {None} /\ endLine \in Int \cup {None} /\ limit \in Nat
  /\ first \in Nat \ {0}
  /\ truncated \in BOOLEAN /\ complete \in BOOLEAN
  /\ lineNo \in Nat \ {0} /\ pending \in BOOLEAN

\* While nothing stopped the loop, lineNo is the line of the next byte and pending
\* says that the bytes read end within a line; the loop is left at the end of the
\* file, or with more than was wanted.
Places ==
  /\ complete => lineNo = 1 + NL(pos) /\ (pending <=> pos > 0 /\ file[pos] # "newline")
  /\ complete /\ pc \in {"tail", "done"} => pos = Len(file)
  /\ ~complete => /\ pc \in {"tail", "done"}
                  /\ truncated \/ (endLine # None /\ endLine < FileLines)

\* The start.
LEMMA TypesInit == Init => Types
<1> SUFFICES ASSUME Init PROVE Types
  OBVIOUS
<1>1. file \in Seq(Bytes)
  BY ConstantsOK DEF Init
<1>2. pos \in 0..Len(file)
  BY <1>1, LenProperties DEF Init
<1>3. startLine \in Int \cup {None} /\ endLine \in Int \cup {None} /\ limit \in Nat
  BY ConstantsOK DEF Init
<1>4. Reads
  BY <1>1, <1>2 DEF Reads
<1>5. pc = "start" /\ first \in Nat \ {0} /\ lineNo \in Nat \ {0}
  BY DEF Init
<1>6. truncated \in BOOLEAN /\ complete \in BOOLEAN /\ pending \in BOOLEAN
  BY DEF Init
<1> QED
  BY <1>3, <1>4, <1>5, <1>6 DEF Types

\* Every step keeps the types.
LEMMA TypesNext == Types /\ [Next]_vars => Types'
<1> SUFFICES ASSUME Types, [Next]_vars PROVE Types'
  OBVIOUS
<1> USE DEF Types
<1>0. Reads
  OBVIOUS
<1>1. ASSUME NextChunk # <<>>, pos' = pos + Len(NextChunk), file' = file PROVE Reads'
  <2>1. PICK e \in pos + 1 .. Len(file) : ChunkTo(e)
    BY <1>0, <1>1, Chunks
  <2>2. pos' = e /\ e \in Nat /\ e <= Len(file)
    BY <1>0, <1>1, <2>1, ChunkBytes
  <2> QED
    BY <1>0, <1>1, <2>2 DEF Reads
<1>2. CASE Start
  BY <1>2, ConstantsOK DEF Start, args, Reads
<1>3. CASE Stop
  BY <1>1, <1>3 DEF Stop, args
<1>4. CASE Skip
  BY <1>1, <1>4 DEF Skip, CountLine, args
<1>5. CASE Take
  <2>1. /\ NextChunk # <<>> /\ pos' = pos + Len(NextChunk) /\ CountLine(NextChunk)
        /\ UNCHANGED <<pc, file, startLine, endLine, limit, first, complete>>
    BY <1>5 DEF Take, args
  <2>2. truncated' \in BOOLEAN
    BY <1>5 DEF Take
  <2> QED
    BY <1>1, <2>1, <2>2 DEF CountLine
<1>6. CASE EndOfFile
  BY <1>6 DEF EndOfFile, args, Reads
<1>7. CASE Flush
  <2>1. pc' = "done" /\ UNCHANGED <<file, startLine, endLine, limit, first, pos, complete, lineNo, pending>>
    BY <1>7 DEF Flush, args
  <2>2. truncated' \in BOOLEAN
    BY <1>7 DEF Flush
  <2> QED
    BY <2>1, <2>2 DEF Reads
<1>8. CASE UNCHANGED vars
  BY <1>8 DEF vars, args, Reads
<1> QED
  BY <1>2, <1>3, <1>4, <1>5, <1>6, <1>7, <1>8 DEF Next

\* Nothing is read at the start.
LEMMA PlacesInit == Init => Places
<1> SUFFICES ASSUME Init PROVE Places
  OBVIOUS
<1>1. pos = 0 /\ lineNo = 1 /\ pending = FALSE /\ complete = TRUE /\ pc = "start"
  BY DEF Init
<1>2. NL(pos) = 0
  BY <1>1, NLSteps
<1> QED
  BY <1>1, <1>2 DEF Places

\* One chunk counted.
LEMMA PlacesChunk ==
  ASSUME Types, Places, complete, NextChunk # <<>>, pos' = pos + Len(NextChunk),
         CountLine(NextChunk), UNCHANGED file
  PROVE  lineNo' = 1 + NL(pos)' /\ (pending' <=> pos' > 0 /\ file'[pos'] # "newline")
<1>0. Reads
  BY DEF Types
<1>1. PICK e \in pos + 1 .. Len(file) : ChunkTo(e)
  BY <1>0, Chunks
<1>2. pos' = e /\ e \in Nat /\ pos < e /\ Last(NextChunk) = file[e] /\ pos \in Nat
  BY <1>0, <1>1, ChunkBytes DEF Reads
<1>3. NL(e) = NL(pos) + (IF file[e] = "newline" THEN 1 ELSE 0) /\ NL(pos) \in Nat
  BY <1>0, <1>1, <1>2, ChunkLines, NLSteps
<1>4. NL(pos)' = NL(e)
  BY <1>2 DEF NL
<1>5. lineNo = 1 + NL(pos)
  BY DEF Places
<1>6. lineNo' = IF file[e] = "newline" THEN lineNo + 1 ELSE lineNo
  BY <1>2 DEF CountLine
<1>7. pending' = (file[e] # "newline")
  BY <1>2 DEF CountLine
<1>9. e > 0
  BY <1>2
<1>8. lineNo' = 1 + NL(pos)'
  BY <1>3, <1>4, <1>5, <1>6
<1>10. pending' <=> pos' > 0 /\ file'[pos'] # "newline"
  BY <1>2, <1>7, <1>9
<1> QED
  BY <1>8, <1>10

\* Every step keeps the places.
LEMMA PlacesNext == Types /\ Places /\ [Next]_vars => Places'
<1> SUFFICES ASSUME Types, Places, [Next]_vars PROVE Places'
  OBVIOUS
<1>0. Reads
  BY DEF Types
<1>1. CASE Start
  <2>1. /\ pc = "start" /\ pc' \in {"error", "loop"}
        /\ UNCHANGED <<file, pos, lineNo, pending, complete>>
    BY <1>1 DEF Start, args
  <2>2. complete /\ complete' = TRUE
    BY <2>1 DEF Places, Types
  <2>3. NL(pos)' = NL(pos)
    BY <2>1 DEF NL
  <2> QED
    BY <2>1, <2>2, <2>3 DEF Places
<1>2. CASE Stop
  <2>1. pc' = "tail" /\ complete' = FALSE /\ NextChunk # <<>> /\ Enough
        /\ UNCHANGED <<file, endLine, truncated>> /\ pc = "loop"
    BY <1>2 DEF Stop, args
  <2>2. CASE truncated
    BY <2>1, <2>2 DEF Places
  <2>3. CASE endLine # None /\ lineNo > endLine
    <3>1. lineNo = 1 + NL(pos)
      BY <2>1 DEF Places
    <3>2. PICK e \in pos + 1 .. Len(file) : ChunkTo(e)
      BY <1>0, <2>1, Chunks
    <3>3. pos \in Nat /\ Len(file) - 1 \in Nat /\ pos <= Len(file) - 1 /\ file # <<>>
      BY <1>0, <3>2, ChunkBytes, EmptySeq DEF Reads
    <3>4. NL(pos) <= NL(Len(file) - 1) /\ NL(pos) \in Nat /\ NL(Len(file) - 1) \in Nat
      BY <3>3, NLSteps
    <3>5. FileLines = 1 + NL(Len(file) - 1)
      BY <3>3 DEF FileLines, LineOf, NL
    <3>6. endLine \in Int
      BY <2>3 DEF Types
    <3>7. endLine < FileLines
      BY <2>3, <3>1, <3>4, <3>5, <3>6
    <3>8. FileLines' = FileLines
      BY <2>1 DEF FileLines, LineOf
    <3> QED
      BY <2>1, <2>3, <3>7, <3>8 DEF Places
  <2> QED
    BY <2>1, <2>2, <2>3 DEF Enough
<1>3. CASE Skip
  <2>1. /\ pc = "loop" /\ NextChunk # <<>> /\ pos' = pos + Len(NextChunk) /\ CountLine(NextChunk)
        /\ UNCHANGED <<pc, file, complete>>
    BY <1>3 DEF Skip, args
  <2>2. complete /\ complete' = TRUE
    BY <2>1 DEF Places, Types
  <2>3. lineNo' = 1 + NL(pos)' /\ (pending' <=> pos' > 0 /\ file'[pos'] # "newline")
    BY <2>1, <2>2, PlacesChunk
  <2> QED
    BY <2>1, <2>2, <2>3 DEF Places
<1>4. CASE Take
  <2>1. /\ pc = "loop" /\ NextChunk # <<>> /\ pos' = pos + Len(NextChunk) /\ CountLine(NextChunk)
        /\ UNCHANGED <<pc, file, complete>>
    BY <1>4 DEF Take, args
  <2>2. complete /\ complete' = TRUE
    BY <2>1 DEF Places, Types
  <2>3. lineNo' = 1 + NL(pos)' /\ (pending' <=> pos' > 0 /\ file'[pos'] # "newline")
    BY <2>1, <2>2, PlacesChunk
  <2> QED
    BY <2>1, <2>2, <2>3 DEF Places
<1>5. CASE EndOfFile
  <2>1. /\ pc = "loop" /\ NextChunk = <<>> /\ pc' = "tail"
        /\ UNCHANGED <<file, pos, lineNo, pending, complete>>
    BY <1>5 DEF EndOfFile, args
  <2>2. complete /\ complete' = TRUE /\ pos = Len(file)
    BY <1>0, <2>1, Chunks DEF Places, Types
  <2>3. NL(pos)' = NL(pos)
    BY <2>1 DEF NL
  <2> QED
    BY <2>1, <2>2, <2>3 DEF Places
<1>6. CASE Flush
  <2>1. /\ pc = "tail" /\ pc' = "done"
        /\ UNCHANGED <<file, endLine, pos, lineNo, pending, complete>>
    BY <1>6 DEF Flush, args
  <2>2. truncated => truncated'
    BY <1>6 DEF Flush
  <2>3. NL(pos)' = NL(pos) /\ FileLines' = FileLines
    BY <2>1 DEF NL, FileLines, LineOf
  <2> QED
    BY <2>1, <2>2, <2>3 DEF Places
<1>7. CASE UNCHANGED vars
  <2>1. UNCHANGED <<pc, file, endLine, pos, lineNo, pending, complete, truncated>>
    BY <1>7 DEF vars, args
  <2>2. NL(pos)' = NL(pos) /\ FileLines' = FileLines
    BY <2>1 DEF NL, FileLines, LineOf
  <2> QED
    BY <2>1, <2>2 DEF Places
<1> QED
  BY <1>1, <1>2, <1>3, <1>4, <1>5, <1>6, <1>7 DEF Next

\* Then total_lines is right.
LEMMA PlacesTotal == Types /\ Places => TotalIsTrue
<1> SUFFICES ASSUME Types, Places, pc = "done" 
             PROVE  \/ TotalLines = FileLines
                    \/ TotalLines = None /\ (truncated \/ (endLine # None /\ endLine < FileLines))
  BY DEF TotalIsTrue
<1>1. CASE ~complete
  BY <1>1 DEF Places, TotalLines
<1>2. CASE complete
  <2>1. pos = Len(file) /\ lineNo = 1 + NL(pos) /\ (pending <=> pos > 0 /\ file[pos] # "newline")
    BY <1>2 DEF Places
  <2>2. Len(file) \in Nat /\ (file = <<>> => Len(file) = 0) /\ (file # <<>> => Len(file) - 1 \in Nat)
    BY EmptySeq DEF Types, Reads
  <2>3. TotalLines = IF pending THEN lineNo ELSE lineNo - 1
    BY <1>2 DEF TotalLines
  <2>4. CASE file = <<>>
    <3>0. pos = 0 /\ NL(0) = 0
      BY <2>1, <2>2, <2>4, NLSteps
    <3>1. ~pending /\ lineNo = 1
      BY <2>1, <3>0
    <3>2. FileLines = 0
      BY <2>4 DEF FileLines
    <3> QED
      BY <2>3, <3>1, <3>2
  <2>5. CASE file # <<>>
    <3>1. FileLines = 1 + NL(Len(file) - 1)
      BY <2>2, <2>5 DEF FileLines, LineOf, NL
    <3>2. (Len(file) - 1) + 1 = Len(file)
      BY <2>2
    <3>3. /\ NL(Len(file)) = NL(Len(file) - 1) + (IF file[Len(file)] = "newline" THEN 1 ELSE 0)
          /\ NL(Len(file) - 1) \in Nat
      BY <2>2, <2>5, <3>2, NLSteps
    <3>4. CASE file[Len(file)] = "newline"
      <4>1. ~pending
        BY <2>1, <3>4
      <4>2. TotalLines = lineNo - 1 /\ NL(Len(file)) = NL(Len(file) - 1) + 1
        BY <2>3, <3>3, <3>4, <4>1
      <4> QED
        BY <2>1, <3>1, <3>3, <4>2
    <3>5. CASE file[Len(file)] # "newline"
      <4>1. pending
        BY <2>1, <2>2, <2>5, <3>5
      <4>2. TotalLines = lineNo /\ NL(Len(file)) = NL(Len(file) - 1) + 0
        BY <2>3, <3>3, <3>5, <4>1
      <4> QED
        BY <2>1, <3>1, <3>3, <4>2
    <3> QED
      BY <3>4, <3>5
  <2> QED
    BY <2>4, <2>5
<1> QED
  BY <1>1, <1>2 DEF Types

\* total_lines is the file's own number of lines or null, and null only if there
\* was more file than was wanted (TotalIsTrue).
THEOREM TotalIsOfTheFile == Spec => []TotalIsTrue
<1>1. Init => Types /\ Places
  BY TypesInit, PlacesInit
<1>2. Types /\ Places /\ [Next]_vars => (Types /\ Places)'
  BY TypesNext, PlacesNext
<1>3. Types /\ Places => TotalIsTrue
  BY PlacesTotal
<1> QED
  BY <1>1, <1>2, <1>3, PTL DEF Spec

-----------------------------------------------------------------------------
(* The lines of the content. *)

\* The characters within a line, and the bytes.
Mid == Chars \ {"n"}
MidBytes == Bytes \ {"newline"}

\* Text of one line: at most its last character is a newline.
OneLine(t) == t \in Seq(Mid) \/ \E z \in Seq(Mid) : t = Append(z, "n")

\* They are characters and bytes.
LEMMA MidIsChars ==
  /\ Seq(Mid) \subseteq Seq(Chars) /\ Seq(MidBytes) \subseteq Seq(Bytes)
  /\ "n" \in Chars /\ "r" \in Mid /\ "newline" \in Bytes
<1>1. Mid \subseteq Chars /\ MidBytes \subseteq Bytes
  BY DEF Mid, MidBytes
<1>2. Seq(Mid) \subseteq Seq(Chars) /\ Seq(MidBytes) \subseteq Seq(Bytes)
  BY <1>1, SeqMonotonic
<1> QED
  BY <1>2 DEF Chars, Width, Mid, Bytes

\* A byte within a line adds characters within a line.
LEMMA AddsMid ==
  ASSUME NEW h \in BOOLEAN, NEW b \in MidBytes
  PROVE  Adds1(h, b) \in Seq(Mid)
<1>1. {"a", "e", "r"} \subseteq Mid
  BY DEF Mid, Chars, Width
<1>2. /\ <<>> \in Seq(Mid)
      /\ \A c \in Mid : <<c>> \in Seq(Mid)
      /\ \A c \in Mid, e \in Mid : <<c, e>> \in Seq(Mid)
  OBVIOUS
<1>3. b \in {"ascii", "lead", "cont"}
  BY DEF MidBytes, Bytes
<1>4. CASE b = "ascii"
  <2>1. Adds1(h, b) \in {<<"r", "a">>, <<"a">>}
    BY <1>4 DEF Adds1
  <2> QED
    BY <1>1, <1>2, <2>1
<1>5. CASE b = "lead"
  <2>1. Adds1(h, b) \in {<<"r">>, <<>>}
    BY <1>5 DEF Adds1
  <2> QED
    BY <1>1, <1>2, <2>1
<1>6. CASE b = "cont"
  <2>1. Adds1(h, b) \in {<<"e">>, <<"r">>}
    BY <1>6 DEF Adds1
  <2> QED
    BY <1>1, <1>2, <2>1
<1> QED
  BY <1>3, <1>4, <1>5, <1>6

\* Bytes within a line are decoded to text within a line.
LEMMA DecodeMid ==
  ASSUME NEW h \in BOOLEAN
  PROVE  \A s \in Seq(MidBytes) : Decode(h, s).text \in Seq(Mid)
<1> DEFINE D == {s \in Seq(MidBytes) : Decode(h, s).text \in Seq(Mid)}
<1>1. <<>> \in D
  <2>1. Decode(h, <<>>) = Fresh(h)
    BY DecodeSteps
  <2>2. Decode(h, <<>>).text = <<>>
    <3>1. Fresh(h).text = <<>>
      BY DEF Fresh
    <3> QED
      BY <2>1, <3>1, Zenon
  <2>3. <<>> \in Seq(MidBytes) /\ <<>> \in Seq(Mid)
    BY EmptySeq
  <2> QED
    BY <2>2, <2>3
<1>2. ASSUME NEW s \in Seq(MidBytes), s \in D, NEW b \in MidBytes PROVE Append(s, b) \in D
  <2>1. s \in Seq(Bytes) /\ b \in Bytes
    BY MidIsChars DEF MidBytes
  <2>2. Decode(h, Append(s, b)) = Feed(Decode(h, s), b) /\ Decode(h, s) \in Decoder
    BY <2>1, DecodeSteps
  <2>3. Feed(Decode(h, s), b).text = Decode(h, s).text \o Adds1(Decode(h, s).held, b)
    BY <2>1, <2>2, FeedSteps
  <2>4. Adds1(Decode(h, s).held, b) \in Seq(Mid)
    BY <2>2, AddsMid DEF Decoder
  <2>5. Decode(h, s).text \in Seq(Mid)
    BY <1>2
  <2>6. Decode(h, s).text \o Adds1(Decode(h, s).held, b) \in Seq(Mid)
    BY <2>4, <2>5
  <2>7. Append(s, b) \in Seq(MidBytes)
    OBVIOUS
  <2>8. Decode(h, Append(s, b)).text \in Seq(Mid)
    BY <2>2, <2>3, <2>6, Zenon
  <2> QED
    BY <2>7, <2>8
<1>3. Seq(MidBytes) \subseteq D
  <2> HIDE DEF D
  <2> QED
    BY <1>1, <1>2, AllSequences
<1> QED
  BY <1>3

\* A newline ends what was held, and the line.
LEMMA FeedNewline ==
  ASSUME NEW d \in Decoder, d.text \in Seq(Mid)
  PROVE  \E z \in Seq(Mid) : Feed(d, "newline").text = Append(z, "n")
<1> DEFINE z == IF d.held THEN Append(d.text, "r") ELSE d.text
<1>1. Feed(d, "newline") = [text |-> Append(z, "n"), held |-> FALSE]
  BY DEF Feed
<1>2. z \in Seq(Mid)
  BY MidIsChars DEF Decoder
<1> HIDE DEF z
<1> QED
  BY <1>1, <1>2

\* A chunk is decoded to text of one line, which ends it if the chunk does.
LEMMA ChunkText ==
  ASSUME Reads, NextChunk # <<>>, NEW h \in BOOLEAN
  PROVE  LET t == Decode(h, NextChunk).text
         IN IF Last(NextChunk) = "newline" THEN \E z \in Seq(Mid) : t = Append(z, "n")
                                           ELSE t \in Seq(Mid)
<1>1. PICK e \in pos + 1 .. Len(file) : ChunkTo(e)
  BY Chunks
<1>2. e \in Nat /\ pos < e /\ e <= Len(file) /\ pos \in Nat /\ Last(NextChunk) = file[e]
  BY <1>1, ChunkBytes DEF Reads
<1>3. NextChunk = SubSeq(file, pos + 1, e) /\ \A i \in pos + 1 .. e - 1 : file[i] \in MidBytes
  <2>1. \A i \in pos + 1 .. e - 1 : file[i] \in Bytes /\ file[i] # "newline"
    BY <1>1, <1>2 DEF ChunkTo, Reads
  <2> QED
    BY <1>1, <2>1 DEF ChunkTo, MidBytes
<1>4. CASE file[e] # "newline"
  <2>1. \A i \in pos + 1 .. e : file[i] \in MidBytes
    BY <1>2, <1>3, <1>4 DEF Reads, MidBytes
  <2>2. NextChunk \in Seq(MidBytes)
    BY <1>2, <1>3, <2>1, SubSeqProperties
  <2> QED
    BY <1>2, <1>4, <2>2, DecodeMid
<1>5. CASE file[e] = "newline"
  <2> DEFINE s == SubSeq(file, pos + 1, e - 1)
  <2>1. s \in Seq(MidBytes)
    BY <1>2, <1>3, SubSeqProperties
  <2>2. NextChunk = s \o <<file[e]>>
    <3>1. pos + 1 \in 1 .. Len(file) /\ e \in pos + 1 .. Len(file)
      BY <1>1, <1>2
    <3> QED
      BY <1>3, <3>1, SubSeqRecursiveSecond DEF Reads
  <2> HIDE DEF s
  <2>3. NextChunk = Append(s, "newline")
    BY <1>5, <2>1, <2>2, MidIsChars
  <2>4. Decode(h, NextChunk) = Feed(Decode(h, s), "newline") /\ Decode(h, s) \in Decoder
    BY <2>1, <2>3, MidIsChars, DecodeSteps
  <2>5. Decode(h, s).text \in Seq(Mid)
    BY <2>1, DecodeMid
  <2>6. \E z \in Seq(Mid) : Decode(h, NextChunk).text = Append(z, "n")
    BY <2>4, <2>5, FeedNewline
  <2> QED
    BY <1>2, <1>5, <2>6
<1> QED
  BY <1>4, <1>5

\* What is cut of a line's text is a line's text.
LEMMA OneLinePrefix ==
  ASSUME NEW t, OneLine(t), NEW k \in 0..Len(t)
  PROVE  OneLine(SubSeq(t, 1, k))
<1>1. CASE t \in Seq(Mid)
  <2>1. SubSeq(t, 1, k) \in Seq(Mid)
    BY <1>1
  <2> QED
    BY <2>1 DEF OneLine
<1>2. CASE \E z \in Seq(Mid) : t = Append(z, "n")
  <2>1. PICK z \in Seq(Mid) : t = Append(z, "n")
    BY <1>2
  <2>2. z \in Seq(Chars) /\ t \in Seq(Chars) /\ Len(t) = Len(z) + 1 /\ Len(z) \in Nat
    BY <2>1, MidIsChars
  <2>3. CASE k = Len(t)
    BY <2>2, <2>3, SubSeqFull
  <2>4. CASE k # Len(t)
    <3>1. \A i \in 1..k : t[i] = z[i] /\ t[i] \in Mid
      BY <2>1, <2>2, <2>4
    <3>2. SubSeq(t, 1, k) \in Seq(Mid)
      BY <2>2, <3>1, SubSeqProperties
    <3> QED
      BY <3>2 DEF OneLine
  <2> QED
    BY <2>3, <2>4
<1> QED
  BY <1>1, <1>2 DEF OneLine

\* Each newline of a text counts one.
LEMMA NewlinesSteps ==
  /\ Newlines(<<>>) = 0
  /\ \A t \in Seq(Chars) : Newlines(t) \in Nat
  /\ \A t \in Seq(Chars) : Newlines(Append(t, "n")) = Newlines(t) + 1
  /\ \A t \in Seq(Chars), c \in Mid : Newlines(Append(t, c)) = Newlines(t)
<1> DEFINE At(t) == {i \in 1..Len(t) : t[i] = "n"}
<1>1. \A t \in Seq(Chars) : Newlines(t) = Cardinality(At(t))
  BY DEF Newlines
<1>2. \A t \in Seq(Chars) : IsFiniteSet(At(t)) /\ Cardinality(At(t)) \in Nat
  <2>1. \A t \in Seq(Chars) : IsFiniteSet(1..Len(t)) /\ At(t) \in SUBSET (1..Len(t))
    BY FS_Interval
  <2> QED
    BY <2>1, FS_Subset, FS_CardinalityType
<1>3. Newlines(<<>>) = 0
  <2>1. At(<<>>) = {} /\ <<>> \in Seq(Chars)
    OBVIOUS
  <2> QED
    BY <1>1, <2>1, FS_EmptySet
<1>4. ASSUME NEW t \in Seq(Chars) PROVE Newlines(Append(t, "n")) = Newlines(t) + 1
  <2>0. "n" \in Chars
    BY MidIsChars
  <2>1. At(Append(t, "n")) = At(t) \cup {Len(t) + 1} /\ Len(t) + 1 \notin At(t)
    BY <2>0
  <2>2. Append(t, "n") \in Seq(Chars)
    BY <2>0
  <2>3. Cardinality(At(t) \cup {Len(t) + 1}) = Cardinality(At(t)) + 1
    BY <1>2, <2>1, FS_AddElement
  <2> HIDE DEF At
  <2> QED
    BY <1>1, <2>1, <2>2, <2>3
<1>5. ASSUME NEW t \in Seq(Chars), NEW c \in Mid PROVE Newlines(Append(t, c)) = Newlines(t)
  <2>0. c \in Chars /\ c # "n"
    BY DEF Mid
  <2>1. At(Append(t, c)) = At(t)
    BY <2>0
  <2>2. Append(t, c) \in Seq(Chars)
    BY <2>0
  <2> HIDE DEF At
  <2> QED
    BY <1>1, <2>1, <2>2
<1>6. \A t \in Seq(Chars) : Newlines(t) \in Nat
  BY <1>1, <1>2
<1> QED
  BY <1>3, <1>4, <1>5, <1>6

\* The text ends a line.
EndsLine(t) == t # <<>> /\ Last(t) = "n"

\* Text of one line adds a newline if it ends the line.
LEMMA NewlinesAdd ==
  ASSUME NEW s \in Seq(Chars), NEW t, OneLine(t)
  PROVE  /\ t \in Seq(Chars) /\ s \o t \in Seq(Chars)
         /\ EndsLine(t) => /\ Newlines(s \o t) = Newlines(s) + 1
                           /\ EndsLine(s \o t)
         /\ ~EndsLine(t) => /\ Newlines(s \o t) = Newlines(s)
                            /\ t # <<>> => ~EndsLine(s \o t)
         /\ t = <<>> => s \o t = s
         /\ t # <<>> => s \o t # <<>>
<1> DEFINE D == {z \in Seq(Mid) : Newlines(s \o z) = Newlines(s)}
<1>1. Seq(Mid) \subseteq D
  <2>1. <<>> \in D
    BY ConcatEmptySeq
  <2>2. ASSUME NEW z \in Seq(Mid), z \in D, NEW c \in Mid PROVE Append(z, c) \in D
    <3>1. z \in Seq(Chars) /\ c \in Chars
      BY MidIsChars DEF Mid
    <3>2. s \o Append(z, c) = Append(s \o z, c) /\ s \o z \in Seq(Chars)
      BY <3>1
    <3>3. Newlines(Append(s \o z, c)) = Newlines(s \o z)
      BY <3>2, NewlinesSteps
    <3>4. Append(z, c) \in Seq(Mid) /\ Newlines(s \o z) = Newlines(s)
      BY <2>2
    <3>5. Newlines(s \o Append(z, c)) = Newlines(s)
      BY <3>2, <3>3, <3>4, Zenon
    <3> QED
      BY <3>4, <3>5
  <2> HIDE DEF D
  <2> QED
    BY <2>1, <2>2, AllSequences
<1>2. t \in Seq(Chars)
  BY MidIsChars DEF OneLine
<1>3. s \o t \in Seq(Chars) /\ Len(s \o t) = Len(s) + Len(t) /\ Len(s) \in Nat /\ Len(t) \in Nat
  BY <1>2
<1>4. t = <<>> => s \o t = s
  BY ConcatEmptySeq
<1>5. t # <<>> => s \o t # <<>> /\ Last(s \o t) = Last(t)
  <2> SUFFICES ASSUME t # <<>> PROVE s \o t # <<>> /\ Last(s \o t) = Last(t)
    OBVIOUS
  <2>1. Len(t) > 0
    BY <1>2, EmptySeq
  <2>2. (s \o t)[Len(s) + Len(t)] = t[Len(t)]
    BY <1>2, <2>1
  <2> QED
    BY <1>3, <2>1, <2>2, EmptySeq DEF Last
<1>6. CASE t \in Seq(Mid)
  <2>1. t # <<>> => Last(t) # "n"
    BY <1>6 DEF Last, Mid
  <2>2. Newlines(s \o t) = Newlines(s)
    BY <1>1, <1>6
  <2> QED
    BY <1>2, <1>3, <1>4, <1>5, <2>1, <2>2 DEF EndsLine
<1>7. CASE \E z \in Seq(Mid) : t = Append(z, "n")
  <2>1. PICK z \in Seq(Mid) : t = Append(z, "n")
    BY <1>7
  <2>2. z \in Seq(Chars) /\ "n" \in Chars
    BY MidIsChars
  <2>3. t # <<>> /\ Last(t) = "n"
    BY <2>1, <2>2 DEF Last
  <2>4. s \o t = Append(s \o z, "n") /\ s \o z \in Seq(Chars)
    BY <2>1, <2>2
  <2>5. Newlines(s \o t) = Newlines(s \o z) + 1
    BY <2>4, NewlinesSteps
  <2>6. Newlines(s \o z) = Newlines(s)
    BY <1>1
  <2> QED
    BY <1>2, <1>3, <1>5, <2>3, <2>5, <2>6 DEF EndsLine
<1> QED
  BY <1>6, <1>7 DEF OneLine

\* What has been decoded and fits the budget.
Texts ==
  /\ held \in BOOLEAN /\ content \in Seq(Chars)
  /\ pc # "done" => used = Size(content) /\ used <= limit
  /\ pc = "start" => content = <<>> /\ ~held /\ ~truncated

\* The characters of a chunk that Take keeps.
Decoded == Decode(held, NextChunk)
Kept == IF Size(Decoded.text) > limit - used THEN CutTo(Decoded.text, limit - used)
                                             ELSE Decoded.text

\* What Take keeps fits, is text of one line, and if whole ends as the chunk does.
LEMMA KeptFits ==
  ASSUME Types, Texts, pc = "loop", NextChunk # <<>>
  PROVE  /\ Decoded \in Decoder /\ Kept \in Seq(Chars)
         /\ Size(Kept) \in Nat /\ Size(Kept) <= limit - used
         /\ used \in Nat /\ limit - used \in Nat
         /\ OneLine(Kept)
         /\ Size(Decoded.text) <= limit - used =>
              IF Last(NextChunk) = "newline" THEN EndsLine(Kept) ELSE ~EndsLine(Kept)
<1> DEFINE room == limit - used
           t == Decoded.text
<1>0. Reads
  BY DEF Types
<1>1. PICK e \in pos + 1 .. Len(file) : ChunkTo(e)
  BY <1>0, Chunks
<1>2. NextChunk \in Seq(Bytes)
  BY <1>0, <1>1, ChunkBytes
<1>3. Decoded \in Decoder /\ t \in Seq(Chars)
  BY <1>2, DecodeSteps DEF Decoded, Decoder, Texts
<1>4. used \in Nat /\ room \in Nat
  BY SizeSteps DEF Texts, Types
<1>5. IF Last(NextChunk) = "newline" THEN \E z \in Seq(Mid) : t = Append(z, "n") ELSE t \in Seq(Mid)
  BY <1>0, ChunkText DEF Decoded, Texts
<1>6. OneLine(t)
  BY <1>5 DEF OneLine
<1>7. IF Last(NextChunk) = "newline" THEN EndsLine(t) ELSE ~EndsLine(t)
  <2>1. ASSUME NEW z \in Seq(Mid), t = Append(z, "n") PROVE EndsLine(t)
    <3>1. z \in Seq(Chars) /\ "n" \in Chars
      BY MidIsChars
    <3> QED
      BY <2>1, <3>1 DEF EndsLine, Last
  <2>2. ASSUME t \in Seq(Mid) PROVE ~EndsLine(t)
    BY <2>2, EmptySeq DEF EndsLine, Last, Mid
  <2> QED
    BY <1>5, <2>1, <2>2
<1> HIDE DEF t, room
<1>8. Size(t) \in Nat
  BY <1>3, SizeSteps
<1>9. Kept = IF Size(t) > room THEN CutTo(t, room) ELSE t
  BY DEF Kept, t, room
<1>10. CASE Size(t) > room
  <2>1. PICK k \in 0..Len(t) : CutTo(t, room) = SubSeq(t, 1, k) /\ Size(SubSeq(t, 1, k)) <= room
    BY <1>3, <1>4, CutFits
  <2>2. Kept = SubSeq(t, 1, k) /\ Kept \in Seq(Chars)
    BY <1>3, <1>9, <1>10, <2>1
  <2>3. OneLine(Kept)
    BY <1>6, <2>2, OneLinePrefix
  <2>4. Size(Kept) \in Nat /\ Size(Kept) <= room
    BY <2>1, <2>2, SizeSteps
  <2> QED
    BY <1>3, <1>4, <1>8, <1>10, <2>2, <2>3, <2>4 DEF room, t
<1>11. CASE ~(Size(t) > room)
  <2>1. Kept = t
    BY <1>9, <1>11
  <2>2. Size(t) <= room
    BY <1>4, <1>8, <1>11
  <2> QED
    BY <1>3, <1>4, <1>6, <1>7, <1>8, <2>1, <2>2 DEF room, t
<1> QED
  BY <1>10, <1>11

\* Nothing is decoded at the start.
LEMMA TextsInit == Init => Texts
<1> SUFFICES ASSUME Init PROVE Texts
  OBVIOUS
<1>1. /\ held = FALSE /\ content = <<>> /\ used = 0 /\ truncated = FALSE /\ limit \in Nat
  BY ConstantsOK DEF Init
<1>2. Size(<<>>) = 0 /\ <<>> \in Seq(Chars)
  BY SizeSteps, EmptySeq
<1>3. Size(content) = 0 /\ content \in Seq(Chars)
  BY <1>1, <1>2, Zenon
<1>4. held \in BOOLEAN /\ ~held /\ ~truncated
  BY <1>1
<1>5. used = Size(content) /\ used <= limit
  BY <1>1, <1>3
<1> QED
  BY <1>1, <1>3, <1>4, <1>5 DEF Texts

\* What Take does to the texts.
LEMMA TakeKeeps ==
  ASSUME Take
  PROVE  /\ held' = Decoded.held /\ (truncated' <=> Size(Decoded.text) > limit - used)
         /\ content' = content \o Kept /\ used' = used + Size(Kept)
         /\ IF Kept # <<>>
              THEN /\ returnedFirst' = (IF returnedFirst = None THEN lineNo ELSE returnedFirst)
                   /\ returnedLast' = lineNo
              ELSE UNCHANGED <<returnedFirst, returnedLast>>
BY DEF Take, Decoded, Kept, Counts

\* Every step keeps the texts.
LEMMA TextsNext == Types /\ Texts /\ [Next]_vars => Texts'
<1> SUFFICES ASSUME Types, Texts, [Next]_vars PROVE Texts'
  OBVIOUS
<1>1. CASE Take
  <2>1. pc = "loop" /\ pc' = "loop" /\ NextChunk # <<>> /\ limit' = limit
    BY <1>1 DEF Take, args
  <2>2. /\ Decoded \in Decoder /\ Kept \in Seq(Chars)
        /\ Size(Kept) \in Nat /\ Size(Kept) <= limit - used
        /\ used \in Nat /\ limit \in Nat
    BY <2>1, KeptFits DEF Types
  <2>3. held' = Decoded.held /\ content' = content \o Kept /\ used' = used + Size(Kept)
    BY <1>1, TakeKeeps
  <2>4. content \in Seq(Chars) /\ used = Size(content)
    BY <2>1 DEF Texts
  <2>5. Size(content \o Kept) = Size(content) + Size(Kept) /\ content \o Kept \in Seq(Chars)
    BY <2>2, <2>4, SizeOfConcat
  <2>6. used' <= limit' /\ used' = Size(content')
    BY <2>1, <2>2, <2>3, <2>4, <2>5
  <2>7. held' \in BOOLEAN /\ content' \in Seq(Chars)
    BY <2>2, <2>3, <2>5 DEF Decoder
  <2> QED
    BY <2>1, <2>6, <2>7 DEF Texts
<1>2. CASE Flush
  <2>1. pc' = "done" /\ held' = held
    BY <1>2 DEF Flush
  <2>2. content' = content \/ content' = Append(content, "r")
    BY <1>2 DEF Flush
  <2>3. content' \in Seq(Chars)
    <3>1. content \in Seq(Chars) /\ "r" \in Chars
      BY MidIsChars DEF Mid, Texts
    <3> QED
      BY <2>2, <3>1
  <2> QED
    BY <2>1, <2>3 DEF Texts
<1>3. CASE Start \/ Stop \/ Skip \/ EndOfFile \/ UNCHANGED vars
  <2>1. UNCHANGED <<held, content>>
    BY <1>3 DEF Start, Stop, Skip, EndOfFile, vars, args
  <2>2. pc' = "start" => pc = "start" /\ UNCHANGED <<content, held, truncated>>
    BY <1>3 DEF Start, Stop, Skip, EndOfFile, vars, args
  <2>3. pc' # "done" => pc # "done" /\ UNCHANGED <<content, used, limit>>
    BY <1>3 DEF Start, Stop, Skip, EndOfFile, vars, args
  <2> QED
    BY <2>1, <2>2, <2>3 DEF Texts
<1> QED
  BY <1>1, <1>2, <1>3 DEF Next

\* Before the first line asked for nothing is kept; from there on the content has
\* all the lines read, and the last line returned is the one it ends in or ends.
Lines ==
  pc # "done" =>
    /\ pc = "start" => lineNo = 1
    /\ lineNo < first => content = <<>> /\ ~truncated /\ ~held
    /\ lineNo >= first /\ ~truncated => lineNo = first + Newlines(content)
    /\ content = <<>> => returnedFirst = None /\ returnedLast = None
    /\ content # <<>> =>
         /\ returnedFirst = first
         /\ returnedLast = first + Newlines(content) - (IF EndsLine(content) THEN 1 ELSE 0)

\* The first line is the first asked for at the start.
LEMMA LinesInit == Init => Lines
<1> SUFFICES ASSUME Init PROVE Lines
  OBVIOUS
<1>1. /\ lineNo = 1 /\ first = 1 /\ content = <<>>
      /\ returnedFirst = None /\ returnedLast = None
  BY DEF Init
<1>2. Newlines(content) = 0
  BY <1>1, NewlinesSteps, Zenon
<1> QED
  BY <1>1, <1>2 DEF Lines

\* A chunk that Take keeps some of is of the last line returned.
LEMMA LinesTake == Types /\ Texts /\ Lines /\ Take => Lines'
<1> SUFFICES ASSUME Types, Texts, Lines, Take PROVE Lines'
  OBVIOUS
<1>1. /\ pc = "loop" /\ pc' = "loop" /\ NextChunk # <<>> /\ ~truncated /\ lineNo >= first
      /\ first' = first /\ CountLine(NextChunk)
  BY DEF Take, Enough, args
<1>2. /\ Decoded \in Decoder /\ Kept \in Seq(Chars) /\ OneLine(Kept)
      /\ limit - used \in Nat
      /\ Size(Decoded.text) <= limit - used =>
           IF Last(NextChunk) = "newline" THEN EndsLine(Kept) ELSE ~EndsLine(Kept)
  BY <1>1, KeptFits
<1>3. /\ truncated' <=> Size(Decoded.text) > limit - used
      /\ content' = content \o Kept
      /\ IF Kept # <<>>
           THEN /\ returnedFirst' = (IF returnedFirst = None THEN lineNo ELSE returnedFirst)
                /\ returnedLast' = lineNo
           ELSE UNCHANGED <<returnedFirst, returnedLast>>
  BY TakeKeeps
<1>4. content \in Seq(Chars) /\ first \in Nat /\ lineNo \in Nat /\ first \in Int /\ None \notin Int
  BY ConstantsOK DEF Texts, Types
<1>5. /\ content' \in Seq(Chars)
      /\ EndsLine(Kept) => Newlines(content') = Newlines(content) + 1 /\ EndsLine(content')
      /\ ~EndsLine(Kept) => /\ Newlines(content') = Newlines(content)
                            /\ Kept # <<>> => ~EndsLine(content')
      /\ Kept = <<>> => content' = content
      /\ Kept # <<>> => content' # <<>>
  BY <1>2, <1>3, <1>4, NewlinesAdd
<1>6. Newlines(content) \in Nat /\ lineNo = first + Newlines(content)
  BY <1>1, <1>4, NewlinesSteps DEF Lines
<1>7. lineNo' >= first'
  BY <1>1, <1>4 DEF CountLine
<1>8. ~truncated' => lineNo' = first' + Newlines(content')
  <2> SUFFICES ASSUME ~truncated' PROVE lineNo' = first' + Newlines(content')
    OBVIOUS
  <2>1. Size(Decoded.text) <= limit - used
    <3>1. Size(Decoded.text) \in Nat
      BY <1>2, SizeSteps DEF Decoder
    <3> QED
      BY <1>2, <1>3, <3>1
  <2>2. CASE Last(NextChunk) = "newline"
    <3>1. EndsLine(Kept) /\ lineNo' = lineNo + 1
      BY <1>1, <1>2, <2>1, <2>2 DEF CountLine
    <3> QED
      BY <1>1, <1>4, <1>5, <1>6, <3>1
  <2>3. CASE Last(NextChunk) # "newline"
    <3>1. ~EndsLine(Kept) /\ lineNo' = lineNo
      BY <1>1, <1>2, <2>1, <2>3 DEF CountLine
    <3> QED
      BY <1>1, <1>4, <1>5, <1>6, <3>1
  <2> QED
    BY <2>2, <2>3
<1>9. CASE Kept = <<>>
  <2>1. UNCHANGED <<returnedFirst, returnedLast, content, first>>
    BY <1>1, <1>3, <1>5, <1>9
  <2>2. Newlines(content') = Newlines(content) /\ EndsLine(content') = EndsLine(content)
    BY <2>1
  <2>3. ~(lineNo' < first')
    BY <1>1, <1>4, <1>7 DEF CountLine
  <2> QED
    BY <1>1, <1>8, <2>1, <2>2, <2>3 DEF Lines
<1>10. CASE Kept # <<>>
  <2>1. content' # <<>> /\ returnedLast' = lineNo
    BY <1>3, <1>5, <1>10
  <2>2. returnedFirst' = first
    <3>1. CASE content = <<>>
      <4>1. returnedFirst = None /\ Newlines(content) = 0
        BY <1>1, <3>1, NewlinesSteps, Zenon DEF Lines
      <4> QED
        BY <1>3, <1>4, <1>6, <1>10, <4>1
    <3>2. CASE content # <<>>
      <4>1. returnedFirst = first
        BY <1>1, <3>2 DEF Lines
      <4> QED
        BY <1>3, <1>4, <1>10, <4>1
    <3> QED
      BY <3>1, <3>2
  <2>3. returnedLast' = first' + Newlines(content') - (IF EndsLine(content') THEN 1 ELSE 0)
    BY <1>1, <1>4, <1>5, <1>6, <1>10, <2>1
  <2>4. ~(lineNo' < first')
    BY <1>1, <1>4, <1>7 DEF CountLine
  <2> QED
    BY <1>1, <1>8, <2>1, <2>2, <2>3, <2>4 DEF Lines
<1> QED
  BY <1>9, <1>10

\* Every step keeps the lines.
LEMMA LinesNext == Types /\ Texts /\ Lines /\ [Next]_vars => Lines'
<1> SUFFICES ASSUME Types, Texts, Lines, [Next]_vars PROVE Lines'
  OBVIOUS
<1>1. CASE Take
  BY <1>1, LinesTake
<1>2. CASE Flush
  BY <1>2 DEF Flush, Lines
<1>3. CASE Start
  <2>1. /\ pc = "start" /\ pc' \in {"error", "loop"}
        /\ UNCHANGED <<content, held, truncated, returnedFirst, returnedLast, lineNo>>
    BY <1>3 DEF Start
  <2>2. content = <<>> /\ ~held /\ ~truncated /\ lineNo = 1
    BY <2>1 DEF Texts, Lines
  <2>3. first' \in Int /\ first' >= 1
    BY <1>3 DEF Start, Types
  <2>4. Newlines(content) = 0
    BY <2>2, NewlinesSteps, Zenon
  <2>5. returnedFirst = None /\ returnedLast = None
    BY <2>1, <2>2 DEF Lines
  <2>6. Newlines(content)' = 0
    BY <2>1, <2>4 DEF Newlines
  <2> QED
    BY <2>1, <2>2, <2>3, <2>5, <2>6 DEF Lines
<1>4. CASE Skip
  <2>1. /\ pc = "loop" /\ pc' = "loop" /\ lineNo < first /\ CountLine(NextChunk)
        /\ UNCHANGED <<first, content, held, truncated, returnedFirst, returnedLast>>
    BY <1>4 DEF Skip
  <2>2. content = <<>> /\ ~held /\ ~truncated /\ returnedFirst = None /\ returnedLast = None
    BY <2>1 DEF Lines
  <2>3. Newlines(content) = 0
    BY <2>2, NewlinesSteps, Zenon
  <2>4. Newlines(content)' = 0
    BY <2>1, <2>3 DEF Newlines
  <2>5. lineNo' \in Nat /\ lineNo' <= first /\ first \in Nat
    BY <2>1 DEF CountLine, Types
  <2> QED
    BY <2>1, <2>2, <2>4, <2>5 DEF Lines
<1>5. CASE Stop \/ EndOfFile \/ UNCHANGED vars
  <2>1. /\ UNCHANGED <<first, content, held, truncated, returnedFirst, returnedLast, lineNo>>
        /\ pc' # "done" => pc # "done"
        /\ pc' = "start" => pc = "start"
    BY <1>5 DEF Stop, EndOfFile, vars
  <2>2. Newlines(content)' = Newlines(content) /\ (EndsLine(content)' <=> EndsLine(content))
    BY <2>1 DEF Newlines, EndsLine
  <2> QED
    BY <2>1, <2>2 DEF Lines
<1> QED
  BY <1>1, <1>2, <1>3, <1>4, <1>5 DEF Next

\* The last word of the decoder is no line.
LEMMA NamedNext ==
  Types /\ Texts /\ Lines /\ NamedLinesAreThere /\ [Next]_vars => NamedLinesAreThere'
<1> SUFFICES ASSUME Types, Texts, Lines, NamedLinesAreThere, [Next]_vars
             PROVE  NamedLinesAreThere'
  OBVIOUS
<1>1. CASE Flush
  <2>1. /\ pc = "tail" /\ UNCHANGED <<first, returnedFirst, returnedLast>>
        /\ content' = content \/ content' = Append(content, "r")
    BY <1>1 DEF Flush
  <2> SUFFICES ASSUME returnedLast # None
               PROVE  /\ returnedFirst = first /\ content' # <<>>
                      /\ returnedLast <= first + Newlines(content') - (IF Last(content') = "n" THEN 1 ELSE 0)
    <3>1. Newlines(content)' = Newlines(content')
      BY DEF Newlines
    <3> QED
      BY <2>1, <3>1 DEF NamedLinesAreThere
  <2>2. /\ content # <<>> /\ returnedFirst = first
        /\ returnedLast = first + Newlines(content) - (IF EndsLine(content) THEN 1 ELSE 0)
    BY <2>1 DEF Lines
  <2>3. content \in Seq(Chars) /\ first \in Nat
    BY DEF Texts, Types
  <2>4. Newlines(content) \in Nat
    BY <2>3, NewlinesSteps
  <2>5. CASE content' = content
    BY <2>2, <2>3, <2>4, <2>5 DEF EndsLine
  <2>6. CASE content' = Append(content, "r")
    <3>1. "r" \in Mid /\ "r" \in Chars /\ "r" # "n"
      BY MidIsChars DEF Mid
    <3>2. Newlines(content') = Newlines(content)
      BY <2>3, <2>6, <3>1, NewlinesSteps
    <3>3. content' # <<>> /\ Last(content') = "r"
      BY <2>3, <2>6, <3>1, AppendProperties DEF Last
    <3> QED
      BY <2>2, <2>3, <2>4, <3>1, <3>2, <3>3
  <2> QED
    BY <2>1, <2>5, <2>6
<1>2. CASE Start \/ Stop \/ Skip \/ Take \/ EndOfFile
  BY <1>2 DEF Start, Stop, Skip, Take, EndOfFile, NamedLinesAreThere
<1>3. CASE UNCHANGED vars
  <2>1. UNCHANGED <<pc, first, content, returnedFirst, returnedLast>>
    BY <1>3 DEF vars
  <2>2. Newlines(content)' = Newlines(content)
    BY <2>1 DEF Newlines
  <2> QED
    BY <2>1, <2>2 DEF NamedLinesAreThere
<1> QED
  BY <1>1, <1>2, <1>3 DEF Next

\* Each line returned_lines names has text in the content, all of it unless it is
\* the last one, so a caller that resumes after the last one skips nothing
\* (NamedLinesAreThere).
THEOREM NoLineIsSkipped == Spec => []NamedLinesAreThere
<1>1. Init => Types /\ Texts /\ Lines /\ NamedLinesAreThere
  <2>1. Init => NamedLinesAreThere
    BY DEF Init, NamedLinesAreThere
  <2> QED
    BY <2>1, TypesInit, TextsInit, LinesInit
<1>2. Types /\ Texts /\ Lines /\ NamedLinesAreThere /\ [Next]_vars
        => (Types /\ Texts /\ Lines /\ NamedLinesAreThere)'
  BY TypesNext, TextsNext, LinesNext, NamedNext
<1> QED
  BY <1>1, <1>2, PTL DEF Spec

-----------------------------------------------------------------------------
(* The bytes of the lines asked for. *)

\* A decoder fed twice is one fed all of it.
LEMMA DecodeOfConcat ==
  ASSUME NEW h \in BOOLEAN, NEW s \in Seq(Bytes)
  PROVE  \A t \in Seq(Bytes) :
           /\ Decode(h, s \o t).text = Decode(h, s).text \o Decode(Decode(h, s).held, t).text
           /\ Decode(h, s \o t).held = Decode(Decode(h, s).held, t).held
<1> DEFINE d == Decode(h, s)
           D == {t \in Seq(Bytes) :
                   /\ Decode(h, s \o t).text = d.text \o Decode(d.held, t).text
                   /\ Decode(h, s \o t).held = Decode(d.held, t).held}
<1>1. d \in Decoder /\ d.text \in Seq(Chars) /\ d.held \in BOOLEAN
  BY DecodeSteps DEF Decoder
<1> HIDE DEF d
<1>2. <<>> \in D
  <2>1. s \o <<>> = s /\ <<>> \in Seq(Bytes)
    BY ConcatEmptySeq, EmptySeq
  <2>2. Decode(d.held, <<>>) = Fresh(d.held)
    BY <1>1, DecodeSteps
  <2>3. Fresh(d.held).text = <<>> /\ Fresh(d.held).held = d.held
    BY <1>1 DEF Fresh
  <2>4. Decode(d.held, <<>>).text = <<>> /\ Decode(d.held, <<>>).held = d.held
    BY <2>2, <2>3, Zenon
  <2>5. d.text \o <<>> = d.text
    BY <1>1, ConcatEmptySeq
  <2>6. Decode(h, s \o <<>>) = d
    BY <2>1, Zenon DEF d
  <2>7. /\ Decode(h, s \o <<>>).text = d.text \o Decode(d.held, <<>>).text
        /\ Decode(h, s \o <<>>).held = Decode(d.held, <<>>).held
    BY <2>4, <2>5, <2>6, Zenon
  <2> QED
    BY <2>1, <2>7
<1>3. ASSUME NEW t \in Seq(Bytes), t \in D, NEW b \in Bytes PROVE Append(t, b) \in D
  <2>1. s \o Append(t, b) = Append(s \o t, b) /\ s \o t \in Seq(Bytes) /\ Append(t, b) \in Seq(Bytes)
    OBVIOUS
  <2> DEFINE u == Decode(h, s \o t)
             v == Decode(d.held, t)
  <2>2. u \in Decoder /\ v \in Decoder
    BY <1>1, <2>1, DecodeSteps
  <2>3. u.text = d.text \o v.text /\ u.held = v.held
    BY <1>3
  <2>4. Decode(h, Append(s \o t, b)) = Feed(u, b) /\ Decode(d.held, Append(t, b)) = Feed(v, b)
    BY <1>1, <2>1, DecodeSteps
  <2> HIDE DEF u, v
  <2>5. /\ Feed(u, b).text = u.text \o Adds1(u.held, b) /\ Feed(u, b).held = (b = "lead")
        /\ Feed(v, b).text = v.text \o Adds1(v.held, b) /\ Feed(v, b).held = (b = "lead")
        /\ Adds1(v.held, b) \in Seq(Chars)
    BY <2>2, FeedSteps
  <2>6. v.text \in Seq(Chars)
    BY <2>2 DEF Decoder
  <2>7. (d.text \o v.text) \o Adds1(v.held, b) = d.text \o (v.text \o Adds1(v.held, b))
    <3>1. \A x, y, z \in Seq(Chars) : (x \o y) \o z = x \o (y \o z)
      BY ConcatAssociative
    <3> QED
      BY <1>1, <2>5, <2>6, <3>1
  <2>8. Feed(u, b).text = d.text \o Feed(v, b).text /\ Feed(u, b).held = Feed(v, b).held
    BY <2>3, <2>5, <2>7, Zenon
  <2>9. /\ Decode(h, s \o Append(t, b)).text = d.text \o Decode(d.held, Append(t, b)).text
        /\ Decode(h, s \o Append(t, b)).held = Decode(d.held, Append(t, b)).held
    BY <2>1, <2>4, <2>8, Zenon
  <2> QED
    BY <2>1, <2>9
<1>4. Seq(Bytes) \subseteq D
  <2> HIDE DEF D
  <2> QED
    BY <1>2, <1>3, AllSequences
<1> QED
  BY <1>4 DEF d

\* A byte's line, by the newlines before it.
LEMMA LineByNewlines == \A i \in Nat \ {0} : LineOf(i) = 1 + NL(i - 1) /\ LineOf(i) \in Nat
<1>1. \A i \in Nat \ {0} : LineOf(i) = 1 + NL(i - 1)
  BY DEF LineOf, NL
<1>2. \A i \in Nat \ {0} : i - 1 \in Nat
  OBVIOUS
<1>3. \A i \in Nat \ {0} : NL(i - 1) \in Nat
  BY <1>2, NLSteps
<1> QED
  BY <1>1, <1>3

\* Bytes a+1 to m of the file are on lines asked for, and none before them is.
Span(a, m) ==
  /\ a \in Nat /\ m \in a .. Len(file)
  /\ \A i \in 1 .. a : ~Asked(LineOf(i))
  /\ \A i \in a + 1 .. m : Asked(LineOf(i))

\* If none after them is, they are the bytes asked for.
LEMMA WholeSpan ==
  ASSUME file \in Seq(Bytes), NEW a, NEW m, Span(a, m),
         \A i \in m + 1 .. Len(file) : ~Asked(LineOf(i))
  PROVE  AskedBytes = SubSeq(file, a + 1, m)
<1> DEFINE at == {i \in 1..Len(file) : Asked(LineOf(i))}
           lo == CHOOSE i \in at : \A j \in at : i <= j
<1>1. Len(file) \in Nat /\ a \in Nat /\ m \in Nat /\ a <= m /\ m <= Len(file)
  BY DEF Span
<1>2. AskedBytes = IF at = {} THEN <<>> ELSE SubSeq(file, lo, lo + Cardinality(at) - 1)
  BY DEF AskedBytes
<1>3. at = a + 1 .. m
  <2>1. ASSUME NEW i \in 1..Len(file) PROVE Asked(LineOf(i)) <=> i \in a + 1 .. m
    <3>1. CASE i \in 1 .. a
      BY <1>1, <3>1 DEF Span
    <3>2. CASE i \in a + 1 .. m
      BY <3>2 DEF Span
    <3>3. CASE i \in m + 1 .. Len(file)
      BY <1>1, <3>3
    <3> QED
      BY <1>1, <3>1, <3>2, <3>3
  <2> QED
    BY <1>1, <2>1
<1> HIDE DEF at
<1>4. CASE a = m
  <2>1. at = {}
    BY <1>1, <1>3, <1>4
  <2>2. SubSeq(file, a + 1, m) = <<>>
    BY <1>1, <1>4, SubSeqEmpty
  <2> QED
    BY <1>2, <2>1, <2>2
<1>5. CASE a # m
  <2>1. a + 1 \in at /\ (\A j \in at : a + 1 <= j) /\ \A j \in at : j \in Nat
    BY <1>1, <1>3, <1>5
  <2>2. lo = a + 1
    <3>1. lo \in at /\ \A j \in at : lo <= j
      BY <2>1
    <3> HIDE DEF lo
    <3> QED
      BY <1>1, <2>1, <3>1
  <2>3. Cardinality(at) = m - (a + 1) + 1
    BY <1>1, <1>3, <1>5, FS_Interval
  <2> HIDE DEF lo
  <2>4. lo + Cardinality(at) - 1 = m
    BY <1>1, <2>2, <2>3
  <2> QED
    BY <1>2, <2>1, <2>2, <2>4
<1> QED
  BY <1>4, <1>5

\* Otherwise the bytes asked for start with them, once there is one.
LEMMA SpanGrows ==
  ASSUME Types, NEW a, NEW m, Span(a, m), a # m
  PROVE  \E to \in m .. Len(file) : AskedBytes = SubSeq(file, a + 1, to)
<1> DEFINE T == {i \in m .. Len(file) : i = m \/ Asked(LineOf(i))}
<1>1. Len(file) \in Nat /\ a \in Nat /\ m \in Nat /\ a < m /\ m <= Len(file) /\ file \in Seq(Bytes)
  BY DEF Span, Types, Reads
<1>2. PICK to \in T : \A i \in T : to >= i
  <2>1. T \subseteq 0..Len(file) /\ m \in T
    BY <1>1
  <2> HIDE DEF T
  <2> QED
    BY <1>1, <2>1, GreatestNumber
<1>3. to \in m .. Len(file) /\ Asked(LineOf(to))
  BY <1>1, <1>2 DEF Span
<1>4. ASSUME NEW i \in to + 1 .. Len(file) PROVE ~Asked(LineOf(i))
  <2>1. i \in m .. Len(file) /\ ~(to >= i)
    BY <1>1, <1>3
  <2> QED
    BY <1>2, <2>1
<1>5. ASSUME NEW i \in a + 1 .. to PROVE Asked(LineOf(i))
  <2>1. Asked(LineOf(a + 1))
    BY <1>1 DEF Span
  <2>2. a \in Nat /\ i - 1 \in Nat /\ to - 1 \in Nat /\ a <= i - 1 /\ i - 1 <= to - 1
    BY <1>1, <1>3
  <2>3. LineOf(a + 1) = 1 + NL(a) /\ LineOf(i) = 1 + NL(i - 1) /\ LineOf(to) = 1 + NL(to - 1)
    <3>1. a + 1 \in Nat \ {0} /\ i \in Nat \ {0} /\ to \in Nat \ {0} /\ (a + 1) - 1 = a
      BY <1>1, <1>3
    <3> QED
      BY <3>1, LineByNewlines
  <2>4. /\ NL(a) <= NL(i - 1) /\ NL(i - 1) <= NL(to - 1)
        /\ NL(a) \in Nat /\ NL(i - 1) \in Nat /\ NL(to - 1) \in Nat
    BY <2>2, NLSteps
  <2>5. first \in Nat /\ endLine \in Int \cup {None}
    BY DEF Types
  <2> QED
    BY <1>3, <2>1, <2>3, <2>4, <2>5 DEF Asked
<1>6. Span(a, to)
  BY <1>1, <1>3, <1>5 DEF Span
<1>7. AskedBytes = SubSeq(file, a + 1, to)
  BY <1>1, <1>4, <1>6, WholeSpan
<1> QED
  BY <1>3, <1>7

\* The text asked for starts with the text of those bytes.
LEMMA SpanText ==
  ASSUME Types, NEW a, NEW m, Span(a, m), a # m
  PROVE  LET text == Decode(FALSE, SubSeq(file, a + 1, m)).text
         IN  text \in Seq(Chars) /\ \E more \in Seq(Chars) : AskedText = text \o more
<1> DEFINE s == SubSeq(file, a + 1, m)
<1>1. PICK to \in m .. Len(file) : AskedBytes = SubSeq(file, a + 1, to)
  BY SpanGrows
<1> DEFINE t == SubSeq(file, m + 1, to)
<1>2. Len(file) \in Nat /\ a \in Nat /\ m \in Nat /\ a < m /\ m <= Len(file) /\ file \in Seq(Bytes)
  BY DEF Span, Types, Reads
<1>3. s \in Seq(Bytes) /\ t \in Seq(Bytes)
  BY <1>1, <1>2
<1>4. AskedBytes = s \o t
  <2>1. a + 1 \in 1 .. Len(file) + 1 /\ m \in (a + 1) - 1 .. Len(file) /\ to \in m .. Len(file)
    BY <1>1, <1>2
  <2> QED
    BY <1>1, <1>2, <2>1, ConcatAdjacentSubSeq
<1> HIDE DEF s, t
<1> DEFINE d == Decode(FALSE, s)
           e == Decode(d.held, t)
           c == Decode(FALSE, AskedBytes)
<1>5. FALSE \in BOOLEAN
  OBVIOUS
<1>6. d \in Decoder /\ d.text \in Seq(Chars) /\ d.held \in BOOLEAN
  BY <1>3, <1>5, DecodeSteps DEF Decoder
<1>7. e \in Decoder /\ e.text \in Seq(Chars)
  <2> HIDE DEF d
  <2> QED
    BY <1>3, <1>6, DecodeSteps DEF Decoder
<1>8. c.text = d.text \o e.text
  BY <1>3, <1>4, <1>5, DecodeOfConcat
<1>9. AskedText = IF c.held THEN Append(c.text, "r") ELSE c.text
  BY DEF AskedText
<1> HIDE DEF d, e, c
<1>10. CASE c.held
  <2>1. "r" \in Chars
    BY MidIsChars DEF Mid
  <2>2. Append(d.text \o e.text, "r") = d.text \o Append(e.text, "r") /\ Append(e.text, "r") \in Seq(Chars)
    <3>1. \A x, y \in Seq(Chars), b \in Chars :
            Append(x \o y, b) = x \o Append(y, b) /\ Append(y, b) \in Seq(Chars)
      OBVIOUS
    <3> QED
      BY <1>6, <1>7, <2>1, <3>1
  <2>3. AskedText = d.text \o Append(e.text, "r")
    BY <1>8, <1>9, <1>10, <2>2
  <2> QED
    BY <1>6, <2>2, <2>3 DEF d, s
<1>11. CASE ~c.held
  BY <1>6, <1>7, <1>8, <1>9, <1>11 DEF d, s
<1> QED
  BY <1>10, <1>11

-----------------------------------------------------------------------------
(* The content is the text asked for, cut. *)

\* While the loop runs, the bytes asked for that have been read are a piece of the
\* file, and unless the budget is spent the content is what they decode to.
Holds(a) ==
  /\ Span(a, pos) /\ (lineNo < first => a = pos)
  /\ ~truncated => /\ Decode(FALSE, SubSeq(file, a + 1, pos)).text = content
                   /\ Decode(FALSE, SubSeq(file, a + 1, pos)).held = held

Cut == content = CutTo(AskedText, limit) /\ Size(AskedText) > limit

Contents ==
  /\ pc = "start" => pos = 0
  /\ pc = "loop" => \E a \in 0..pos : Holds(a)
  /\ pc \in {"loop", "tail"} /\ truncated => Cut
  /\ pc = "tail" /\ ~truncated => /\ Decode(FALSE, AskedBytes).text = content
                                  /\ Decode(FALSE, AskedBytes).held = held

\* Nothing changes what was asked for once it is known.
LEMMA SameAsked ==
  ASSUME UNCHANGED <<file, first, endLine>>
  PROVE  /\ AskedText' = AskedText /\ AskedBytes' = AskedBytes
         /\ \A i : Asked(LineOf(i))' <=> Asked(LineOf(i))
BY DEF AskedText, AskedBytes, Asked, LineOf

\* Nor is what was cut.
LEMMA SameCut ==
  ASSUME UNCHANGED <<file, first, endLine, content, limit>>
  PROVE  Cut' <=> Cut
BY SameAsked DEF Cut

\* Nor are the bytes.
LEMMA SameSpan ==
  ASSUME UNCHANGED <<file, first, endLine>>, NEW a, NEW m
  PROVE  Span(a, m)' <=> Span(a, m)
BY SameAsked DEF Span

\* The bytes of a chunk are all on one line.
LEMMA ChunkOneLine ==
  ASSUME Types, Places, pc = "loop", NEW e, ChunkTo(e)
  PROVE  \A i \in pos + 1 .. e : LineOf(i) = lineNo
<1>1. Reads /\ complete
  BY DEF Types, Places
<1>2. e \in Nat /\ pos < e /\ pos \in Nat
  BY <1>1, ChunkBytes DEF Reads
<1>3. lineNo = 1 + NL(pos)
  BY <1>1 DEF Places
<1>4. ASSUME NEW i \in pos + 1 .. e PROVE LineOf(i) = lineNo
  <2>1. i \in Nat \ {0} /\ i - 1 \in pos .. e - 1
    BY <1>2
  <2>2. NL(i - 1) = NL(pos)
    BY <1>1, <2>1, ChunkLines
  <2> QED
    BY <1>3, <2>1, <2>2, LineByNewlines
<1> QED
  BY <1>4

\* Bytes up to the next one are on no later line, those after it on no earlier.
LEMMA LinesAround ==
  ASSUME Types, Places, complete
  PROVE  /\ \A i \in 1 .. Len(file) : LineOf(i) \in Nat
         /\ \A i \in 1 .. pos : LineOf(i) <= lineNo
         /\ \A i \in pos + 1 .. Len(file) : LineOf(i) >= lineNo
<1>1. pos \in Nat /\ Len(file) \in Nat
  BY DEF Types, Reads
<1>2. lineNo = 1 + NL(pos) /\ NL(pos) \in Nat
  BY <1>1, NLSteps DEF Places
<1>3. ASSUME NEW i \in 1 .. pos PROVE LineOf(i) <= lineNo
  <2>1. i \in Nat \ {0} /\ i - 1 \in Nat /\ i - 1 <= pos
    BY <1>1
  <2>2. NL(i - 1) <= NL(pos) /\ NL(i - 1) \in Nat
    BY <1>1, <2>1, NLSteps
  <2> QED
    BY <1>2, <2>1, <2>2, LineByNewlines
<1>4. ASSUME NEW i \in pos + 1 .. Len(file) PROVE LineOf(i) >= lineNo
  <2>1. i \in Nat \ {0} /\ i - 1 \in Nat /\ pos <= i - 1
    BY <1>1
  <2>2. NL(pos) <= NL(i - 1) /\ NL(i - 1) \in Nat
    BY <1>1, <2>1, NLSteps
  <2> QED
    BY <1>2, <2>1, <2>2, LineByNewlines
<1>5. \A i \in 1 .. Len(file) : LineOf(i) \in Nat
  BY LineByNewlines
<1> QED
  BY <1>3, <1>4, <1>5

\* Decoding no bytes.
LEMMA DecodeNothing ==
  ASSUME NEW n \in Nat
  PROVE  /\ Decode(FALSE, SubSeq(file, n + 1, n)).text = <<>>
         /\ ~Decode(FALSE, SubSeq(file, n + 1, n)).held
         /\ Decode(FALSE, SubSeq(file, n + 1, n)).held \in BOOLEAN
<1>1. SubSeq(file, n + 1, n) = <<>>
  BY SubSeqEmpty
<1>2. Decode(FALSE, <<>>) = Fresh(FALSE)
  BY DecodeSteps
<1>3. Fresh(FALSE).text = <<>> /\ ~Fresh(FALSE).held /\ Fresh(FALSE).held \in BOOLEAN
  BY DEF Fresh
<1>4. Decode(FALSE, SubSeq(file, n + 1, n)) = Fresh(FALSE)
  BY <1>1, <1>2, Zenon
<1> QED
  BY <1>3, <1>4, Zenon

\* Nothing is read at the start.
LEMMA ContentsInit == Init => Contents
<1> SUFFICES ASSUME Init PROVE Contents
  OBVIOUS
<1>1. pc = "start" /\ pos = 0
  BY DEF Init
<1> QED
  BY <1>1 DEF Contents

\* The loop starts with no bytes.
LEMMA ContentsStart == Types /\ Texts /\ Lines /\ Contents /\ Start => Contents'
<1> SUFFICES ASSUME Types, Texts, Lines, Contents, Start PROVE Contents'
  OBVIOUS
<1>1. /\ pc = "start" /\ pc' \in {"error", "loop"}
      /\ UNCHANGED <<file, endLine, pos, content, held, truncated, lineNo>>
  BY DEF Start, args
<1>2. pos = 0 /\ content = <<>> /\ ~held /\ ~truncated /\ file \in Seq(Bytes) /\ held \in BOOLEAN
  BY <1>1 DEF Contents, Texts, Types, Reads
<1>3. /\ Decode(FALSE, SubSeq(file, 0 + 1, 0)).text = <<>>
      /\ ~Decode(FALSE, SubSeq(file, 0 + 1, 0)).held
      /\ Decode(FALSE, SubSeq(file, 0 + 1, 0)).held \in BOOLEAN
  BY DecodeNothing
<1>4. Decode(FALSE, SubSeq(file, 0 + 1, 0)).held = held
  BY <1>2, <1>3
<1>5. Len(file) \in Nat /\ 0 \in 0..Len(file)
  BY <1>2
<1>6. Span(0, pos)'
  BY <1>1, <1>2, <1>5 DEF Span
<1>7. Holds(0)'
  <2>1. Decode(FALSE, SubSeq(file, 0 + 1, 0))' = Decode(FALSE, SubSeq(file, 0 + 1, 0))
    BY <1>1
  <2>2. lineNo' < first' => 0 = pos'
    BY <1>1, <1>2
  <2>3. /\ Decode(FALSE, SubSeq(file, 0 + 1, pos))'.text = content'
        /\ Decode(FALSE, SubSeq(file, 0 + 1, pos))'.held = held'
    BY <1>1, <1>2, <1>3, <1>4, <2>1
  <2> QED
    BY <1>6, <2>2, <2>3 DEF Holds
<1>8. 0 \in 0..pos' /\ ~truncated'
  BY <1>1, <1>2
<1>9. \E a \in 0..pos' : Holds(a)'
  BY <1>7, <1>8
<1>10. pc' # "start" /\ pc' # "tail"
  BY <1>1
<1> QED
  BY <1>8, <1>9, <1>10 DEF Contents

\* A chunk skipped is on no line asked for.
LEMMA ContentsSkip == Types /\ Places /\ Texts /\ Lines /\ Contents /\ Skip => Contents'
<1> SUFFICES ASSUME Types, Places, Texts, Lines, Contents, Skip PROVE Contents'
  OBVIOUS
<1>1. /\ pc = "loop" /\ pc' = "loop" /\ NextChunk # <<>> /\ lineNo < first
      /\ pos' = pos + Len(NextChunk)
      /\ UNCHANGED <<file, first, endLine, content, held, truncated>>
  BY DEF Skip, args
<1>2. content = <<>> /\ ~held /\ ~truncated /\ held \in BOOLEAN
  BY <1>1 DEF Lines, Texts
<1>3. Reads /\ complete /\ first \in Nat /\ lineNo \in Nat /\ file \in Seq(Bytes)
  BY <1>1 DEF Types, Places, Reads
<1>4. PICK e \in pos + 1 .. Len(file) : ChunkTo(e)
  BY <1>1, <1>3, Chunks
<1>5. pos' = e /\ e \in Nat /\ e <= Len(file) /\ pos \in Nat
  BY <1>1, <1>3, <1>4, ChunkBytes DEF Reads
<1>6. ASSUME NEW i \in 1 .. e PROVE ~Asked(LineOf(i))
  <2>1. LineOf(i) <= lineNo
    <3>1. CASE i \in 1 .. pos
      BY <1>3, <3>1, LinesAround
    <3>2. CASE i \in pos + 1 .. e
      BY <1>1, <1>3, <1>4, <3>2, ChunkOneLine
    <3> QED
      BY <1>5, <3>1, <3>2
  <2>2. LineOf(i) \in Nat
    BY <1>3, <1>5, LinesAround
  <2> QED
    BY <1>1, <1>3, <2>1, <2>2 DEF Asked
<1>7. Span(e, e)
  BY <1>5, <1>6 DEF Span
<1>8. Span(e, pos)'
  BY <1>1, <1>5, <1>7, SameAsked DEF Span
<1>9. /\ Decode(FALSE, SubSeq(file, e + 1, e)).text = <<>>
      /\ ~Decode(FALSE, SubSeq(file, e + 1, e)).held
      /\ Decode(FALSE, SubSeq(file, e + 1, e)).held \in BOOLEAN
  BY <1>5, DecodeNothing
<1>10. Decode(FALSE, SubSeq(file, e + 1, e)).held = held
  BY <1>2, <1>9
<1>11. Holds(e)'
  BY <1>1, <1>2, <1>5, <1>8, <1>9, <1>10 DEF Holds
<1>12. e \in 0..pos'
  BY <1>5
<1> QED
  BY <1>1, <1>2, <1>11, <1>12 DEF Contents

\* A chunk taken is on a line asked for, and what is kept of it is what fits.
LEMMA ContentsTake == Types /\ Places /\ Texts /\ Lines /\ Contents /\ Take => Contents'
<1> SUFFICES ASSUME Types, Places, Texts, Lines, Contents, Take PROVE Contents'
  OBVIOUS
<1>1. /\ pc = "loop" /\ pc' = "loop" /\ NextChunk # <<>> /\ ~Enough /\ lineNo >= first
      /\ pos' = pos + Len(NextChunk) /\ CountLine(NextChunk)
      /\ UNCHANGED <<file, first, endLine, limit>>
  BY DEF Take, args
<1>2. ~truncated /\ (endLine # None => ~(lineNo > endLine))
  BY <1>1 DEF Enough
<1>3. /\ Reads /\ complete /\ first \in Nat /\ lineNo \in Nat /\ file \in Seq(Bytes)
      /\ endLine \in Int \cup {None}
  BY <1>1 DEF Types, Places, Reads
<1>4. PICK e \in pos + 1 .. Len(file) : ChunkTo(e)
  BY <1>1, <1>3, Chunks
<1>5. pos' = e /\ e \in Nat /\ e <= Len(file) /\ pos \in Nat /\ pos < e
  BY <1>1, <1>3, <1>4, ChunkBytes DEF Reads
<1>6. PICK a \in 0..pos : Holds(a)
  BY <1>1 DEF Contents
<1>7. Span(a, e)
  <2>1. ASSUME NEW i \in pos + 1 .. e PROVE Asked(LineOf(i))
    <3>1. LineOf(i) = lineNo
      BY <1>1, <1>4, ChunkOneLine
    <3> QED
      BY <1>1, <1>2, <1>3, <3>1 DEF Asked
  <2>2. Span(a, pos)
    BY <1>6 DEF Holds
  <2> QED
    BY <1>5, <2>1, <2>2 DEF Span
<1> DEFINE s == SubSeq(file, a + 1, pos)
           d == Decode(FALSE, SubSeq(file, a + 1, e))
<1>8. s \in Seq(Bytes) /\ NextChunk \in Seq(Bytes) /\ SubSeq(file, a + 1, e) = s \o NextChunk
  <2>1. NextChunk = SubSeq(file, pos + 1, e) /\ NextChunk \in Seq(Bytes)
    BY <1>3, <1>4, ChunkBytes DEF ChunkTo
  <2>2. s \in Seq(Bytes)
    BY <1>3, <1>5, <1>6
  <2>3. a + 1 \in 1 .. Len(file) + 1 /\ pos \in (a + 1) - 1 .. Len(file) /\ e \in pos .. Len(file)
    BY <1>3, <1>5, <1>6
  <2> QED
    BY <1>3, <2>1, <2>2, <2>3, ConcatAdjacentSubSeq
<1>9. d.text = content \o Decoded.text /\ d.held = Decoded.held
  <2>1. Decode(FALSE, s).text = content /\ Decode(FALSE, s).held = held
    BY <1>2, <1>6 DEF Holds
  <2>2. FALSE \in BOOLEAN
    OBVIOUS
  <2> HIDE DEF s
  <2>3. /\ Decode(FALSE, s \o NextChunk).text =
             Decode(FALSE, s).text \o Decode(Decode(FALSE, s).held, NextChunk).text
        /\ Decode(FALSE, s \o NextChunk).held = Decode(Decode(FALSE, s).held, NextChunk).held
    BY <1>8, <2>2, DecodeOfConcat
  <2> QED
    BY <1>8, <2>1, <2>3, Zenon DEF Decoded
<1> HIDE DEF s, d
<1>10. /\ held' = Decoded.held /\ (truncated' <=> Size(Decoded.text) > limit - used)
       /\ content' = content \o Kept
  BY TakeKeeps
<1>11. /\ Decoded \in Decoder /\ Decoded.text \in Seq(Chars) /\ Size(Decoded.text) \in Nat
       /\ limit - used \in Nat /\ used \in Nat /\ limit \in Nat
       /\ content \in Seq(Chars) /\ used = Size(content) /\ used <= limit
  BY <1>1, KeptFits, SizeSteps DEF Decoder, Texts, Types
<1>12. CASE ~truncated'
  <2>1. Kept = Decoded.text
    BY <1>10, <1>12 DEF Kept
  <2>2. d.text = content' /\ d.held = held'
    BY <1>9, <1>10, <2>1
  <2>3. ~(lineNo' < first')
    BY <1>1, <1>3 DEF CountLine
  <2>4. Span(a, pos)'
    BY <1>1, <1>5, <1>7, SameAsked DEF Span
  <2>5. Holds(a)'
    BY <1>1, <1>5, <2>2, <2>3, <2>4 DEF Holds, d
  <2>6. a \in 0..pos'
    BY <1>5
  <2> QED
    BY <1>1, <1>12, <2>5, <2>6 DEF Contents
<1>13. CASE truncated'
  <2>1. Size(Decoded.text) > limit - used /\ Kept = CutTo(Decoded.text, limit - used)
    BY <1>10, <1>13 DEF Kept
  <2>2. Size(content \o Decoded.text) = used + Size(Decoded.text)
    BY <1>11, SizeOfConcat
  <2>3. Size(d.text) > limit
    BY <1>9, <1>11, <2>1, <2>2
  <2>4. CutTo(d.text, limit) = content'
    BY <1>9, <1>10, <1>11, <2>1, CutOfConcat
  <2>5. PICK more \in Seq(Chars) : AskedText = d.text \o more
    <3>1. a # e
      BY <1>5
    <3>2. \E more \in Seq(Chars) :
            AskedText = Decode(FALSE, SubSeq(file, a + 1, e)).text \o more
      BY <1>7, <3>1, SpanText
    <3> QED
      BY <3>2 DEF d
  <2>6. d.text \in Seq(Chars)
    BY <1>9, <1>11
  <2>7. CutTo(AskedText, limit) = CutTo(d.text, limit) /\ Size(AskedText) > limit
    BY <1>11, <2>3, <2>5, <2>6, CutOfMore
  <2>8. Cut'
    BY <1>1, <2>4, <2>7, SameAsked DEF Cut
  <2>9. ~(lineNo' < first')
    BY <1>1, <1>3 DEF CountLine
  <2>10. Span(a, pos)'
    BY <1>1, <1>5, <1>7, SameAsked DEF Span
  <2>11. Holds(a)' /\ a \in 0..pos'
    BY <1>5, <1>13, <2>9, <2>10 DEF Holds
  <2> QED
    BY <1>1, <1>13, <2>8, <2>11 DEF Contents
<1> QED
  BY <1>12, <1>13

\* The loop is left with all that was asked for decoded, or cut.
LEMMA ContentsLeave ==
  ASSUME Types, Places, Texts, Contents, Stop \/ EndOfFile
  PROVE  Contents'
<1>1. /\ pc = "loop" /\ pc' = "tail" 
      /\ UNCHANGED <<file, first, endLine, limit, content, held, truncated>>
  BY DEF Stop, EndOfFile, args
<1>2. CASE truncated
  <2>1. Cut
    BY <1>1, <1>2 DEF Contents
  <2>2. Cut'
    BY <1>1, <2>1, SameCut
  <2> QED
    BY <1>1, <1>2, <2>2 DEF Contents
<1>3. CASE ~truncated
  <2>1. Reads /\ complete /\ file \in Seq(Bytes) /\ lineNo \in Nat /\ pos \in Nat
    BY <1>1 DEF Types, Places, Reads
  <2>2. PICK a \in 0..pos : Holds(a)
    BY <1>1 DEF Contents
  <2>3. ASSUME NEW i \in pos + 1 .. Len(file) PROVE ~Asked(LineOf(i))
    <3>1. CASE EndOfFile
      <4>1. pos = Len(file)
        BY <2>1, <3>1, Chunks DEF EndOfFile
      <4> QED
        BY <2>1, <4>1
    <3>2. CASE Stop
      <4>1. endLine # None /\ lineNo > endLine /\ endLine \in Int
        BY <1>3, <3>2 DEF Stop, Enough, Types
      <4>2. LineOf(i) >= lineNo
        BY <2>1, LinesAround
      <4>3. LineOf(i) \in Nat
        BY <2>1, LinesAround
      <4> QED
        BY <2>1, <4>1, <4>2, <4>3 DEF Asked
    <3> QED
      BY <3>1, <3>2
  <2>4. AskedBytes = SubSeq(file, a + 1, pos)
    BY <2>1, <2>2, <2>3, WholeSpan DEF Holds
  <2>5. Decode(FALSE, AskedBytes).text = content /\ Decode(FALSE, AskedBytes).held = held
    BY <1>3, <2>2, <2>4 DEF Holds
  <2>6. AskedBytes' = AskedBytes
    BY <1>1, SameAsked
  <2> QED
    BY <1>1, <1>3, <2>5, <2>6 DEF Contents
<1> QED
  BY <1>2, <1>3

\* Every step keeps the contents.
LEMMA ContentsNext ==
  Types /\ Places /\ Texts /\ Lines /\ Contents /\ [Next]_vars => Contents'
<1> SUFFICES ASSUME Types, Places, Texts, Lines, Contents, [Next]_vars PROVE Contents'
  OBVIOUS
<1>1. CASE Flush
  BY <1>1 DEF Flush, Contents
<1>2. CASE UNCHANGED vars
  <2>1. UNCHANGED <<pc, file, first, endLine, limit, pos, content, held, truncated, lineNo>>
    BY <1>2 DEF vars, args
  <2>2. (Cut' <=> Cut) /\ AskedBytes' = AskedBytes
    BY <2>1, SameCut, SameAsked
  <2>3. ASSUME NEW a PROVE Holds(a)' <=> Holds(a)
    <3>1. Span(a, pos)' <=> Span(a, pos)
      BY <2>1, SameAsked DEF Span
    <3> QED
      BY <2>1, <3>1 DEF Holds
  <2> QED
    BY <2>1, <2>2, <2>3 DEF Contents
<1> QED
  BY <1>1, <1>2, ContentsStart, ContentsSkip, ContentsTake, ContentsLeave DEF Next

\* The decoder's last word ends the text asked for, if it fits.
LEMMA ContentIsNext ==
  Types /\ Texts /\ Contents /\ ContentIsRange /\ [Next]_vars => ContentIsRange'
<1> SUFFICES ASSUME Types, Texts, Contents, ContentIsRange, [Next]_vars PROVE ContentIsRange'
  OBVIOUS
<1>1. CASE Flush
  <2>1. pc = "tail" /\ UNCHANGED <<file, first, endLine, limit>> /\ truncated \in BOOLEAN
    BY <1>1 DEF Flush, args, Types
  <2>2. AskedText' = AskedText
    BY <2>1, SameAsked
  <2> SUFFICES content' = CutTo(AskedText, limit) /\ truncated' = (Size(AskedText) > limit)
    BY <2>1, <2>2 DEF ContentIsRange
  <2>3. /\ content \in Seq(Chars) /\ used = Size(content) /\ used <= limit
        /\ used \in Nat /\ limit \in Nat /\ held \in BOOLEAN
    BY <2>1, SizeSteps DEF Texts, Types
  <2>4. CASE truncated
    <3>1. Cut /\ content' = content /\ truncated' = truncated
      BY <1>1, <2>1, <2>4 DEF Contents, Flush
    <3> QED
      BY <2>1, <2>4, <3>1 DEF Cut
  <2>5. CASE ~truncated
    <3>1. Decode(FALSE, AskedBytes).text = content /\ Decode(FALSE, AskedBytes).held = held
      BY <2>1, <2>5 DEF Contents
    <3>2. AskedText = IF held THEN Append(content, "r") ELSE content
      BY <3>1 DEF AskedText
    <3>3. CASE ~held
      <4>1. AskedText = content /\ content' = content /\ truncated' = truncated
        BY <1>1, <3>2, <3>3 DEF Flush
      <4>2. CutTo(content, limit) = content /\ ~(Size(content) > limit)
        BY <2>3, CutWhole
      <4> QED
        BY <2>1, <2>5, <4>1, <4>2
    <3>4. CASE held
      <4>1. "r" \in Chars /\ Width["r"] = 3
        BY DEF Chars, Width
      <4>2. Size(Append(content, "r")) = used + 3 /\ Append(content, "r") \in Seq(Chars)
        BY <2>3, <4>1, SizeSteps
      <4>3. AskedText = Append(content, "r")
        BY <3>2, <3>4
      <4>4. CASE TailFits
        <5>1. content' = Append(content, "r") /\ truncated' = truncated
          BY <1>1, <2>5, <3>4, <4>4 DEF Flush
        <5>2. Size(Append(content, "r")) <= limit
          BY <2>3, <4>1, <4>2, <4>4 DEF TailFits
        <5>3. CutTo(Append(content, "r"), limit) = Append(content, "r")
          BY <2>3, <4>2, <5>2, CutWhole
        <5>4. ~(Size(Append(content, "r")) > limit)
          BY <2>3, <4>2, <5>2
        <5> QED
          BY <2>1, <2>5, <4>3, <5>1, <5>3, <5>4
      <4>5. CASE ~TailFits
        <5>1. content' = content /\ truncated' = TRUE
          BY <1>1, <2>5, <3>4, <4>5 DEF Flush
        <5>2. Size(Append(content, "r")) > limit
          BY <2>3, <4>1, <4>2, <4>5 DEF TailFits
        <5> DEFINE k == Len(content)
                   t == Append(content, "r")
        <5>3. /\ k \in 0..Len(t) /\ SubSeq(t, 1, k) = content /\ Len(t) = k + 1
              /\ SubSeq(t, 1, k + 1) = t
          <6>1. Len(t) = k + 1 /\ k \in Nat
            BY <2>3, <4>1
          <6>2. SubSeq(t, 1, Len(t)) = t
            BY <4>2, SubSeqFull
          <6>3. SubSeq(t, 1, k) = content
            BY <2>3, <4>1
          <6> QED
            BY <6>1, <6>2, <6>3
        <5> HIDE DEF k, t
        <5>4. t \in Seq(Chars) /\ Size(t) > limit
          BY <4>2, <5>2 DEF t
        <5>5. CutTo(t, limit) = SubSeq(t, 1, k)
          <6>1. Size(SubSeq(t, 1, k)) <= limit
            BY <2>3, <5>3
          <6>2. Size(SubSeq(t, 1, k + 1)) > limit
            BY <5>3, <5>4
          <6> QED
            BY <2>3, <5>3, <5>4, <6>1, <6>2, CutIs
        <5> QED
          BY <4>3, <5>1, <5>3, <5>4, <5>5 DEF t
      <4> QED
        BY <4>4, <4>5
    <3> QED
      BY <3>3, <3>4
  <2> QED
    BY <2>4, <2>5
<1>2. CASE Start \/ Stop \/ Skip \/ Take \/ EndOfFile
  BY <1>2 DEF Start, Stop, Skip, Take, EndOfFile, ContentIsRange
<1>3. CASE UNCHANGED vars
  <2>1. UNCHANGED <<pc, file, first, endLine, limit, content, truncated>>
    BY <1>3 DEF vars, args
  <2> QED
    BY <2>1, SameAsked DEF ContentIsRange
<1> QED
  BY <1>1, <1>2, <1>3 DEF Next

\* However the chunks fall, the content is the text of the lines asked for, decoded
\* as a whole and cut after the last whole character that fits, and truncated says
\* whether anything was cut (ContentIsRange).
THEOREM ContentIsWhatWasAsked == Spec => []ContentIsRange
<1>1. Init => Types /\ Places /\ Texts /\ Lines /\ Contents /\ ContentIsRange
  <2>1. Init => ContentIsRange
    BY DEF Init, ContentIsRange
  <2> QED
    BY <2>1, TypesInit, PlacesInit, TextsInit, LinesInit, ContentsInit
<1>2. Types /\ Places /\ Texts /\ Lines /\ Contents /\ ContentIsRange /\ [Next]_vars
        => (Types /\ Places /\ Texts /\ Lines /\ Contents /\ ContentIsRange)'
  BY TypesNext, PlacesNext, TextsNext, LinesNext, ContentsNext, ContentIsNext
<1> QED
  BY <1>1, <1>2, PTL DEF Spec

=============================================================================
