----------------------------- MODULE ReadFiles ------------------------------
(***************************************************************************)
(* read_multiple_files of server.py: one path at a time, all on one byte   *)
(* budget, while other processes rewrite the files.  What one read returns *)
(* is what ReadLines shows _read_lines_capped to return for a whole file.  *)
(***************************************************************************)
EXTENDS Utf8Text, FiniteSets

CONSTANTS
  Paths,    \* paths of files
  Lists,    \* the lists of paths clients may ask for
  Texts,    \* what a file may hold
  Limits,   \* values of _output_limit()
  Changes,  \* bound: how often a file is rewritten or removed
  None

ASSUME ConstantsOK ==
  /\ Lists \subseteq Seq(Paths)
  /\ Texts \subseteq Seq(Chars) /\ None \notin Texts
  /\ Limits \subseteq Nat \ {0} /\ Changes \in Nat

VARIABLES
  pc,        \* "loop" or "done"
  asked,     \* the argument
  next,      \* how many of its paths the loop is through
  limit,     \* the budget it starts with
  budget,    \* what is left of it
  results,   \* each path's entry; None while it has none
  answer,    \* count, ok and failed
  file,      \* what each file holds; None if it is not there
  changes    \* changes that may still happen

vars == <<pc, asked, next, limit, budget, results, answer, file, changes>>

Content(t, cut) == [error |-> FALSE, text |-> t, cut |-> cut]
Failure(why) == [error |-> TRUE, text |-> <<>>, why |-> why]

\* None is no path's entry.
ASSUME NoneIsNoEntry ==
  /\ None \notin {Failure("file"), Failure("budget")}
  /\ \A t \in Texts, cut \in BOOLEAN :
       \A k \in 0..Len(t) : None # Content(SubSeq(t, 1, k), cut)

-----------------------------------------------------------------------------
\* Mutant of Spent: the last byte is never used.
SpentEarly == budget <= 1

\* Nothing of the budget is left.
Spent == budget <= 0

\* _read_file with no range and the budget: the file may be missing or refused.
Reads(p) ==
  {Failure("file")} \cup
    IF file[p] = None THEN {}
    ELSE {Content(CutTo(file[p], budget), Size(file[p]) > budget)}

\* Mutant of Charge: characters are charged for, not bytes.
ChargeChars(text) == Len(text)

\* What an entry takes from the budget.
Charge(text) == Size(text)

Path == asked[next + 1]
InLoop == pc = "loop" /\ next < Len(asked)
Frame == next' = next + 1 /\ UNCHANGED <<pc, asked, limit, answer, file, changes>>

\* A path that has its entry is not read again.
Again ==
  /\ InLoop /\ results[Path] # None
  /\ Frame /\ UNCHANGED <<budget, results>>

Refuse ==
  /\ InLoop /\ results[Path] = None /\ Spent
  /\ results' = [results EXCEPT ![Path] = Failure("budget")]
  /\ Frame /\ UNCHANGED budget

ReadOne ==
  /\ InLoop /\ results[Path] = None /\ ~Spent
  /\ \E r \in Reads(Path) :
       /\ results' = [results EXCEPT ![Path] = r]
       /\ budget' = budget - Charge(r.text)
  /\ Frame

Entries == {p \in Paths : results[p] # None}
Good == {p \in Entries : ~results[p].error}

\* Mutant of Count: a repeated path counts twice.
CountAsked == Len(asked)

\* Counted over the paths that have an entry.
Count == Cardinality(Entries)

Answer ==
  /\ pc = "loop" /\ next = Len(asked)
  /\ answer' = [count |-> Count, ok |-> Cardinality(Good), failed |-> Count - Cardinality(Good)]
  /\ pc' = "done"
  /\ UNCHANGED <<asked, next, limit, budget, results, file, changes>>

\* Another process rewrites, makes or removes a file.
Change(p) ==
  /\ changes > 0 /\ pc = "loop"
  /\ \E t \in Texts \cup {None} : file' = [file EXCEPT ![p] = t]
  /\ changes' = changes - 1
  /\ UNCHANGED <<pc, asked, next, limit, budget, results, answer>>

-----------------------------------------------------------------------------
Init ==
  /\ pc = "loop" /\ next = 0 /\ answer = None
  /\ asked \in Lists /\ limit \in Limits
  /\ budget = limit
  /\ results = [p \in Paths |-> None]
  /\ file \in [Paths -> Texts \cup {None}]
  /\ changes = Changes

Next == Again \/ Refuse \/ ReadOne \/ Answer \/ \E p \in Paths : Change(p)

Spec == Init /\ [][Next]_vars

-----------------------------------------------------------------------------
(* Properties. *)

Asked(n) == {asked[i] : i \in 1..n}
Returned == FoldSet(LAMBDA p, n : n + Size(results[p].text), 0, Good)

\* However many files are asked for and whatever bytes they hold, what the call
\* returns fits in one budget ("asking for more files does not multiply what is
\* returned").
OneBudget == Returned <= limit

\* A path is refused for the budget only if what came before it used up all of
\* it: no byte that could have been returned is kept back.
RefusedMeansSpent ==
  \A p \in Entries : results[p].error /\ results[p].why = "budget" => Returned = limit

\* Every path asked for has one entry and no other path has, and the counts are
\* of those, so that a repeated path makes no phantom failure.
CountsAreOfPaths ==
  /\ Entries = Asked(next)
  /\ pc = "done" =>
       /\ answer.count = Cardinality(Asked(Len(asked)))
       /\ answer.ok + answer.failed = answer.count
       /\ answer.failed = Cardinality({p \in Entries : results[p].error})

=============================================================================
