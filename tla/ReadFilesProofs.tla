-------------------------- MODULE ReadFilesProofs ---------------------------
(***************************************************************************)
(* What holds of ReadFiles for every list of paths, every text and every   *)
(* budget, however often files are rewritten while they are read.          *)
(***************************************************************************)
EXTENDS ReadFiles, FoldLemmas

-----------------------------------------------------------------------------
(* The bytes of some entries. *)

BytesOf(res, S) == FoldSet(LAMBDA p, n : n + Size(res[p].text), 0, S)

\* Entries with texts, and entries that are the same elsewhere.
HaveTexts(res, S) == \A p \in S : res[p].text \in Seq(Chars)
SameOn(to, res, S) == \A p \in S : to[p] = res[p]

\* The iteration that this fold is.
Totals(it, res, S) ==
  it = [T \in SUBSET S |-> IF T = {} THEN 0
                           ELSE it[T \ {Chosen(T)}] + Size(res[Chosen(T)].text)]

\* It is the sum of the sizes of their texts.
LEMMA BytesAreSum ==
  ASSUME NEW S, IsFiniteSet(S), NEW res, HaveTexts(res, S)
  PROVE  /\ Weighs([p \in S |-> Size(res[p].text)], S)
         /\ BytesOf(res, S) = SumOver([p \in S |-> Size(res[p].text)], S)
<1> DEFINE w == [p \in S |-> Size(res[p].text)]
           F == CHOOSE it : Totals(it, res, S)
<1>1. Weighs(w, S) /\ \A p \in S : w[p] = Size(res[p].text) /\ w[p] \in Nat
  BY SizeSteps DEF Weighs, HaveTexts
<1> HIDE DEF w
<1>2. \A T \in SUBSET S : T # {} => Chosen(T) \in S
  BY DEF Chosen
<1>3. PICK it \in [SUBSET S -> Nat] : Adds(it, w, S)
  BY <1>1, SumExists
<1>4. ASSUME NEW T \in SUBSET S
      PROVE  it[T] = IF T = {} THEN 0 ELSE it[T \ {Chosen(T)}] + Size(res[Chosen(T)].text)
  <2>1. it[T] = IF T = {} THEN 0 ELSE w[Chosen(T)] + it[T \ {Chosen(T)}]
    BY <1>3 DEF Adds
  <2> QED
    BY <2>1, <1>1, <1>2, <1>3
<1>5. Totals(it, res, S)
  BY <1>4 DEF Totals
<1>6. Totals(F, res, S)
  BY <1>5
<1>7. BytesOf(res, S) = F[S]
  BY DEF BytesOf, FoldSet, MapThenFoldSet, Totals, Chosen
<1> HIDE DEF F
<1>8. AddsOn(F, w, S)
  <2>1. ASSUME NEW T \in SUBSET S, T # {}, F[T \ {Chosen(T)}] \in Nat
        PROVE  F[T] = w[Chosen(T)] + F[T \ {Chosen(T)}]
    <3>1. F[T] = F[T \ {Chosen(T)}] + Size(res[Chosen(T)].text)
      BY <1>6, <2>1 DEF Totals
    <3> QED
      BY <3>1, <1>1, <1>2, <2>1
  <2>2. F[{}] = 0
    BY <1>6 DEF Totals
  <2> QED
    BY <2>1, <2>2 DEF AddsOn
<1>9. F[S] = SumOver(w, S)
  BY <1>1, <1>8, SumUnique
<1> QED
  BY <1>1, <1>7, <1>9 DEF w

\* It is a number, which only their texts make.
LEMMA BytesAgree ==
  ASSUME NEW S, IsFiniteSet(S), NEW res, HaveTexts(res, S),
         NEW to, SameOn(to, res, S)
  PROVE  BytesOf(to, S) = BytesOf(res, S) /\ BytesOf(res, S) \in Nat
<1>1. [p \in S |-> Size(to[p].text)] = [p \in S |-> Size(res[p].text)]
  BY DEF SameOn
<1>2. HaveTexts(to, S)
  BY DEF HaveTexts, SameOn
<1> DEFINE w == [p \in S |-> Size(res[p].text)]
<1>3. Weighs(w, S) /\ BytesOf(res, S) = SumOver(w, S)
  BY BytesAreSum
<1>4. BytesOf(to, S) = SumOver(w, S)
  <2>1. BytesOf(to, S) = SumOver([p \in S |-> Size(to[p].text)], S)
    BY <1>2, BytesAreSum
  <2> QED
    BY <2>1, <1>1
<1> HIDE DEF w
<1>5. SumOver(w, S) \in Nat
  BY <1>3, SumSteps
<1> QED
  BY <1>3, <1>4, <1>5

\* One more entry adds its text.
LEMMA BytesGrow ==
  ASSUME NEW S, IsFiniteSet(S), NEW res, HaveTexts(res, S),
         NEW to, SameOn(to, res, S), NEW q, q \notin S, to[q].text \in Seq(Chars)
  PROVE  BytesOf(to, S \cup {q}) = BytesOf(res, S) + Size(to[q].text)
<1> DEFINE R == S \cup {q}
           v == [p \in R |-> Size(to[p].text)]
           w == [p \in S |-> Size(res[p].text)]
<1>1. IsFiniteSet(R) /\ q \in R /\ R \ {q} = S
  BY FS_AddElement
<1>2. HaveTexts(to, R)
  BY DEF HaveTexts, SameOn
<1>3. v[q] = Size(to[q].text) /\ \A p \in S : w[p] = v[p]
  BY DEF SameOn
<1>4. Weighs(v, R) /\ BytesOf(to, R) = SumOver(v, R)
  BY <1>1, <1>2, BytesAreSum
<1>5. Weighs(w, S) /\ BytesOf(res, S) = SumOver(w, S)
  BY BytesAreSum
<1> HIDE DEF v, w, R
<1>6. SumOver(v, R) = v[q] + SumOver(v, S)
  BY <1>1, <1>4, SumSteps
<1>7. SumOver(w, S) = SumOver(v, S) /\ SumOver(w, S) \in Nat
  BY <1>3, <1>5, SumAgrees, SumSteps
<1>8. Size(to[q].text) \in Nat
  BY SizeSteps
<1> QED
  BY <1>3, <1>4, <1>5, <1>6, <1>7, <1>8 DEF R

\* The bytes returned are those of the entries that are no failures.
LEMMA ReturnedIsBytes == Returned = BytesOf(results, Good)
BY DEF Returned, BytesOf, FoldSet, MapThenFoldSet

-----------------------------------------------------------------------------
(* The invariant. *)

\* Each variable has its type, and an entry its fields.
Types ==
  /\ pc \in {"loop", "done"}
  /\ asked \in Seq(Paths) /\ next \in 0..Len(asked)
  /\ limit \in Nat /\ budget \in Nat
  /\ DOMAIN results = Paths
  /\ file \in [Paths -> Texts \cup {None}]
  /\ \A p \in Entries : /\ results[p].error \in BOOLEAN
                        /\ results[p].text \in Seq(Chars)

\* The paths the loop is through have their entries.
EntryInv == Entries = Asked(next) /\ IsFiniteSet(Entries)

\* What is charged is what is returned, and a path is refused when nothing is left.
BudgetInv ==
  /\ budget + Returned = limit
  /\ \A p \in Entries : results[p].error /\ results[p].why = "budget" => budget = 0

\* The counts are of the entries there are.
AnswerInv ==
  pc = "done" =>
    /\ next = Len(asked)
    /\ answer = [count |-> Count, ok |-> Cardinality(Good), failed |-> Count - Cardinality(Good)]

IInv == Types /\ EntryInv /\ BudgetInv /\ AnswerInv

\* A read gives an entry with a text that the budget can pay.
LEMMA ReadGives ==
  ASSUME NEW p \in Paths, file \in [Paths -> Texts \cup {None}], budget \in Nat,
         NEW r \in Reads(p)
  PROVE  /\ r # None /\ r.error \in BOOLEAN
         /\ r.error => r.text = <<>> /\ r.why = "file"
         /\ r.text \in Seq(Chars) /\ Size(r.text) \in Nat /\ Size(r.text) <= budget
<1>1. CASE r = Failure("file")
  <2>1. r # None
    BY <1>1, NoneIsNoEntry
  <2>2. Size(<<>>) = 0 /\ <<>> \in Seq(Chars)
    BY SizeSteps
  <2> QED
    BY <1>1, <2>1, <2>2 DEF Failure
<1>2. ASSUME file[p] # None, r = Content(CutTo(file[p], budget), Size(file[p]) > budget)
      PROVE  r # None /\ ~r.error /\ r.error \in BOOLEAN /\ r.text \in Seq(Chars) /\ Size(r.text) <= budget
  <2>1. file[p] \in Texts /\ file[p] \in Seq(Chars)
    BY <1>2, ConstantsOK
  <2>2. PICK k \in 0..Len(file[p]) :
          /\ CutTo(file[p], budget) = SubSeq(file[p], 1, k)
          /\ Size(SubSeq(file[p], 1, k)) <= budget
    BY <2>1, CutFits
  <2>3. SubSeq(file[p], 1, k) \in Seq(Chars)
    BY <2>1
  <2>4. (Size(file[p]) > budget) \in BOOLEAN
    OBVIOUS
  <2>5. r # None
    BY <1>2, <2>1, <2>2, <2>4, NoneIsNoEntry
  <2> QED
    BY <1>2, <2>2, <2>3, <2>5 DEF Content
<1> QED
  BY <1>1, <1>2, SizeSteps DEF Reads

-----------------------------------------------------------------------------
(* What a step does to the entries. *)

\* The path the loop is at, and what has been asked for one step later.
LEMMA PathIsAsked ==
  ASSUME Types, InLoop
  PROVE  /\ Path \in Paths /\ next + 1 \in 0..Len(asked) /\ next \in Nat
         /\ Asked(next + 1) = Asked(next) \cup {Path}
<1>1. Len(asked) \in Nat /\ next \in Nat /\ next < Len(asked)
  BY DEF Types, InLoop
<1>2. next + 1 \in 1..Len(asked) /\ asked[next + 1] \in Paths
  BY <1>1, ElementOfSeq DEF Types
<1>3. 1..(next + 1) = 1..next \cup {next + 1}
  BY <1>1
<1> QED
  BY <1>1, <1>2, <1>3 DEF Asked, Path

\* One path gets its entry.
LEMMA OneMore ==
  ASSUME Types, EntryInv, InLoop, results[Path] = None, NEW r, r # None,
         results' = [results EXCEPT ![Path] = r]
  PROVE  /\ Entries' = Entries \cup {Path} /\ Path \notin Entries /\ IsFiniteSet(Entries')
         /\ \A p \in Entries : results'[p] = results[p]
         /\ results'[Path] = r /\ DOMAIN results' = Paths
<1>1. Path \in Paths
  BY PathIsAsked
<1>2. Path \notin Entries /\ \A p \in Entries : results'[p] = results[p]
  BY DEF Entries
<1>3. results'[Path] = r /\ DOMAIN results' = Paths
  BY <1>1 DEF Types
<1>4. Entries' = Entries \cup {Path}
  BY <1>1, <1>3 DEF Entries, Types
<1> QED
  BY <1>2, <1>3, <1>4, FS_AddElement DEF EntryInv

\* The entries that are no failures are finitely many, with their texts.
LEMMA GoodOnes ==
  ASSUME Types, EntryInv
  PROVE  /\ IsFiniteSet(Good) /\ Good \subseteq Entries
         /\ HaveTexts(results, Good)
         /\ Returned \in Nat
<1>1. Good \subseteq Entries
  BY DEF Good
<1>2. IsFiniteSet(Good)
  BY <1>1, FS_Subset DEF EntryInv
<1>3. HaveTexts(results, Good)
  BY <1>1 DEF Types, HaveTexts
<1>4. BytesOf(results, Good) \in Nat
  BY <1>2, <1>3, BytesAgree DEF SameOn
<1> QED
  BY <1>1, <1>2, <1>3, <1>4, ReturnedIsBytes

\* A failure adds nothing to what is returned, and any other entry its text.
LEMMA ReturnedGrows ==
  ASSUME Types, EntryInv, InLoop, results[Path] = None, NEW r, r # None,
         r.error \in BOOLEAN, r.text \in Seq(Chars), r.error => r.text = <<>>,
         results' = [results EXCEPT ![Path] = r]
  PROVE  Returned' = Returned + Size(r.text)
<1>1. /\ Entries' = Entries \cup {Path} /\ Path \notin Entries
      /\ \A p \in Entries : results'[p] = results[p]
      /\ results'[Path] = r
  BY OneMore
<1>2. /\ IsFiniteSet(Good) /\ Good \subseteq Entries
      /\ HaveTexts(results, Good)
      /\ Returned \in Nat
  BY GoodOnes
<1>3. Returned' = BytesOf(results', Good')
  BY DEF Returned, BytesOf, FoldSet, MapThenFoldSet
<1>4. SameOn(results', results, Good)
  BY <1>1, <1>2 DEF SameOn
<1>5. CASE r.error
  <2>1. Good' = Good
    BY <1>1, <1>5 DEF Good
  <2>2. BytesOf(results', Good) = BytesOf(results, Good)
    BY <1>2, <1>4, BytesAgree
  <2>3. Size(r.text) = 0
    BY <1>5, SizeSteps
  <2> QED
    BY <1>2, <1>3, <2>1, <2>2, <2>3, ReturnedIsBytes
<1>6. CASE ~r.error
  <2>1. Good' = Good \cup {Path} /\ Path \notin Good
    BY <1>1, <1>2, <1>6 DEF Good
  <2>2. results'[Path].text \in Seq(Chars)
    BY <1>1
  <2>3. BytesOf(results', Good \cup {Path}) = BytesOf(results, Good) + Size(results'[Path].text)
    BY ONLY <1>2, <1>4, <2>1, <2>2, BytesGrow
  <2> QED
    BY <1>1, <1>3, <2>1, <2>3, ReturnedIsBytes
<1> QED
  BY <1>5, <1>6

\* While the entries stay, so does all that is made of them.
LEMMA EntriesStay ==
  ASSUME UNCHANGED results
  PROVE  UNCHANGED <<Entries, Good, Count, Returned>>
<1>1. Entries' = Entries /\ Good' = Good /\ Count' = Count
  BY DEF Entries, Good, Count
<1>2. Returned' = BytesOf(results', Good')
  BY DEF Returned, BytesOf, FoldSet, MapThenFoldSet
<1> QED
  BY <1>1, <1>2, ReturnedIsBytes

\* The invariant holds at first.
LEMMA InitInv == Init => IInv
<1> SUFFICES ASSUME Init PROVE IInv
  OBVIOUS
<1>1. Entries = {} /\ Good = {}
  BY DEF Init, Entries, Good
<1>2. Returned = 0
  <2>1. BytesOf(results, {}) = SumOver([p \in {} |-> Size(results[p].text)], {})
    BY FS_EmptySet, BytesAreSum DEF HaveTexts
  <2>2. SumOver([p \in {} |-> Size(results[p].text)], {}) = 0
    BY FS_EmptySet, SumSteps DEF Weighs
  <2> QED
    BY <2>1, <2>2, <1>1, ReturnedIsBytes
<1>3. Types
  BY <1>1, ConstantsOK DEF Init, Types
<1>4. EntryInv
  BY <1>1, FS_EmptySet DEF Init, EntryInv, Asked
<1> QED
  BY <1>1, <1>2, <1>3, <1>4 DEF IInv, BudgetInv, AnswerInv, Init, Types

\* And stays so.
LEMMA StepInv == IInv /\ [Next]_vars => IInv'
<1> SUFFICES ASSUME IInv, [Next]_vars PROVE IInv'
  OBVIOUS
<1>s. Types /\ EntryInv /\ BudgetInv /\ AnswerInv
  BY DEF IInv
<1>1. CASE Again
  <2>1. next + 1 \in 0..Len(asked) /\ Asked(next + 1) = Asked(next) \cup {Path} /\ Path \in Paths
    BY <1>1, <1>s, PathIsAsked DEF Again
  <2>2. Path \in Entries
    BY <1>1, <2>1 DEF Again, Entries
  <2>3. Entries' = Entries /\ Returned' = Returned
    BY <1>1, EntriesStay DEF Again
  <2>4. Asked(next)' = Asked(next + 1)
    BY <1>1 DEF Again, Frame, Asked
  <2>5. EntryInv'
    BY <1>s, <2>1, <2>2, <2>3, <2>4 DEF EntryInv
  <2>6. Types'
    BY <1>1, <1>s, <2>1, <2>3 DEF Types, Again, Frame
  <2> QED
    BY <1>1, <1>s, <2>3, <2>5, <2>6 DEF IInv, BudgetInv, AnswerInv, Again, Frame, InLoop
<1>2. ASSUME NEW r, InLoop, results[Path] = None, Frame,
             results' = [results EXCEPT ![Path] = r], budget' = budget - Size(r.text),
             r # None, r.error \in BOOLEAN, r.text \in Seq(Chars), r.error => r.text = <<>>,
             Size(r.text) <= budget,
             r.error /\ r.why = "budget" => budget = 0,
             budget = 0 => r.error
      PROVE  IInv'
  <2>1. next + 1 \in 0..Len(asked) /\ Asked(next + 1) = Asked(next) \cup {Path} /\ Path \in Paths
    BY <1>2, <1>s, PathIsAsked
  <2>2. /\ Entries' = Entries \cup {Path} /\ Path \notin Entries /\ IsFiniteSet(Entries')
        /\ \A p \in Entries : results'[p] = results[p]
        /\ results'[Path] = r /\ DOMAIN results' = Paths
    BY <1>2, <1>s, OneMore
  <2>3. Returned' = Returned + Size(r.text) /\ Returned \in Nat /\ Size(r.text) \in Nat
    BY <1>2, <1>s, ReturnedGrows, GoodOnes, SizeSteps
  <2>4. Asked(next)' = Asked(next + 1)
    BY <1>2 DEF Frame, Asked
  <2>5. EntryInv'
    BY <1>s, <2>1, <2>2, <2>4 DEF EntryInv
  <2>6. Types'
    BY <1>2, <1>s, <2>1, <2>2, <2>3 DEF Types, Frame
  <2>7. BudgetInv'
    BY <1>2, <1>s, <2>2, <2>3, SizeSteps DEF BudgetInv, Types, Frame
  <2>8. AnswerInv'
    BY <1>2 DEF AnswerInv, Frame, InLoop
  <2> QED
    BY <2>5, <2>6, <2>7, <2>8 DEF IInv
<1>3. CASE Refuse
  <2> DEFINE r == Failure("budget")
  <2>1. r # None /\ r.error = TRUE /\ r.text = <<>> /\ r.why = "budget"
    BY NoneIsNoEntry DEF Failure
  <2>2. <<>> \in Seq(Chars) /\ Size(<<>>) = 0
    BY SizeSteps
  <2>3. budget = 0
    BY <1>3, <1>s DEF Refuse, Spent, Types
  <2>4. InLoop /\ results[Path] = None /\ Frame /\ results' = [results EXCEPT ![Path] = r] /\ budget' = budget
    BY <1>3 DEF Refuse
  <2> HIDE DEF r
  <2>6. Size(r.text) = 0
    BY <2>1, <2>2, Zenon
  <2>7. r.text \in Seq(Chars) /\ r.error \in BOOLEAN
    BY <2>1, <2>2, Zenon
  <2>5. /\ r.error \in BOOLEAN /\ r.text \in Seq(Chars) /\ Size(r.text) <= budget
        /\ budget' = budget - Size(r.text)
    BY <1>s, <2>3, <2>4, <2>6, <2>7 DEF Types
  <2> QED
    BY <1>2, <2>1, <2>3, <2>4, <2>5
<1>4. CASE ReadOne
  <2>1. PICK r \in Reads(Path) :
          results' = [results EXCEPT ![Path] = r] /\ budget' = budget - Size(r.text)
    BY <1>4 DEF ReadOne, Charge
  <2>2. InLoop /\ results[Path] = None /\ Frame /\ budget # 0
    BY <1>4 DEF ReadOne, Spent
  <2>3. /\ r # None /\ r.error \in BOOLEAN
        /\ r.error => r.text = <<>> /\ r.why = "file"
        /\ r.text \in Seq(Chars) /\ Size(r.text) \in Nat /\ Size(r.text) <= budget
    BY <1>s, <2>1, <2>2, ReadGives, PathIsAsked DEF Types
  <2> QED
    BY <1>2, <2>1, <2>2, <2>3
<1>5. CASE Answer
  <2>1. UNCHANGED <<Entries, Good, Count, Returned>> /\ Asked(next)' = Asked(next)
    BY <1>5, EntriesStay DEF Answer, Asked
  <2>2. Types'
    BY <1>5, <1>s, <2>1 DEF Answer, Types
  <2> QED
    BY <1>5, <1>s, <2>1, <2>2 DEF IInv, EntryInv, BudgetInv, AnswerInv, Answer
<1>6. ASSUME NEW p \in Paths, Change(p) PROVE IInv'
  <2>1. UNCHANGED <<Entries, Good, Count, Returned>> /\ Asked(next)' = Asked(next)
    BY <1>6, EntriesStay DEF Change, Asked
  <2>2. file' \in [Paths -> Texts \cup {None}]
    BY <1>6, <1>s DEF Change, Types
  <2>3. Types'
    BY <1>6, <1>s, <2>1, <2>2 DEF Change, Types
  <2> QED
    BY <1>6, <1>s, <2>1, <2>3 DEF IInv, EntryInv, BudgetInv, AnswerInv, Change
<1>7. CASE UNCHANGED vars
  <2>1. UNCHANGED <<Entries, Good, Count, Returned>> /\ Asked(next)' = Asked(next)
    BY <1>7, EntriesStay DEF vars, Asked
  <2>2. Types'
    BY <1>7, <1>s, <2>1 DEF vars, Types
  <2> QED
    BY <1>7, <1>s, <2>1, <2>2 DEF IInv, EntryInv, BudgetInv, AnswerInv, vars
<1> QED
  BY <1>1, <1>3, <1>4, <1>5, <1>6, <1>7 DEF Next

\* The invariant of the specification.
LEMMA InvHolds == Spec => []IInv
BY InitInv, StepInv, PTL DEF Spec

-----------------------------------------------------------------------------
(* The theorems. *)

\* read_multiple_files: however many files are asked for and whatever bytes they hold,
\* what the call returns fits in one budget.
THEOREM BudgetIsOne == Spec => []OneBudget
<1>1. IInv => OneBudget
  <2> SUFFICES ASSUME IInv PROVE OneBudget
    OBVIOUS
  <2>1. budget + Returned = limit /\ budget \in Nat /\ Returned \in Nat
    BY GoodOnes DEF IInv, BudgetInv, Types
  <2> QED
    BY <2>1 DEF OneBudget
<1> QED
  BY <1>1, InvHolds, PTL

\* No byte that could have been returned is kept back from a path that is refused.
THEOREM NothingIsKeptBack == Spec => []RefusedMeansSpent
<1>1. IInv => RefusedMeansSpent
  <2> SUFFICES ASSUME IInv, NEW p \in Entries, results[p].error, results[p].why = "budget"
               PROVE  Returned = limit
    BY DEF RefusedMeansSpent
  <2>1. budget = 0 /\ budget + Returned = limit /\ Returned \in Nat
    BY GoodOnes DEF IInv, BudgetInv
  <2> QED
    BY <2>1
<1> QED
  BY <1>1, InvHolds, PTL

\* Every path asked for has one entry, and the counts are of the entries: a path that is
\* asked for twice is read and counted once.
THEOREM CountsAreTrue == Spec => []CountsAreOfPaths
<1>1. IInv => CountsAreOfPaths
  <2> SUFFICES ASSUME IInv PROVE CountsAreOfPaths
    OBVIOUS
  <2>1. Entries = Asked(next) /\ IsFiniteSet(Entries)
    BY DEF IInv, EntryInv
  <2>2. ASSUME pc = "done"
        PROVE  /\ answer.count = Cardinality(Asked(Len(asked)))
               /\ answer.ok + answer.failed = answer.count
               /\ answer.failed = Cardinality({p \in Entries : results[p].error})
    <3> DEFINE Bad == {p \in Entries : results[p].error}
    <3>1. /\ next = Len(asked)
          /\ answer.count = Cardinality(Entries) /\ answer.ok = Cardinality(Good)
          /\ answer.failed = Cardinality(Entries) - Cardinality(Good)
      BY <2>2 DEF IInv, AnswerInv, Count
    <3>2. Good \subseteq Entries /\ Bad = Entries \ Good
      BY DEF Good
    <3>3. /\ Cardinality(Good) \in Nat /\ Cardinality(Entries) \in Nat
          /\ Cardinality(Bad) = Cardinality(Entries) - Cardinality(Good)
      <4>1. IsFiniteSet(Good) /\ Entries \cap Good = Good
        BY <2>1, <3>2, FS_Subset
      <4>2. Cardinality(Entries \ Good) = Cardinality(Entries) - Cardinality(Entries \cap Good)
        BY <2>1, FS_Difference
      <4> QED
        BY <2>1, <3>2, <4>1, <4>2, FS_CardinalityType
    <3> QED
      BY <2>1, <3>1, <3>3
  <2> QED
    BY <2>1, <2>2 DEF CountsAreOfPaths
<1> QED
  BY <1>1, InvHolds, PTL

=============================================================================
