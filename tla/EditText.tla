------------------------------ MODULE EditText ------------------------------
(***************************************************************************)
(* The text of edit_file, _edit and _closest_match of server.py: which     *)
(* span old_str matches, what the file becomes, and the hint if nothing    *)
(* matches.  Texts are sequences of "x", which stands for any character,   *)
(* "cr" and "lf".                                                          *)
(***************************************************************************)
EXTENDS Sequences, Naturals, Integers, FiniteSets, SequencesExt

CONSTANTS
  MaxOld   \* _CLOSEST_MATCH_MAX_OLD

ASSUME MaxOldOK == MaxOld \in Nat

VARIABLE call   \* the tool that is called, and its arguments

OccursAt(s, t, i) == SubSeq(t, i, i + Len(s) - 1) = s
Places(s, t) == {i \in 1..(Len(t) - Len(s) + 1) : OccursAt(s, t, i)}

\* str.count: from the left, each occurrence after the end of the one before; width
\* is old_str's length, and next where the next occurrence may be.
CountAt(places, width, r, i) ==
  IF i \in places /\ i >= r.next THEN [count |-> r.count + 1, next |-> i + width] ELSE r
Count(s, t) ==
  LET places == Places(s, t)
      width == IF s = <<>> THEN 1 ELSE Len(s)
  IN FoldLeft(LAMBDA r, i : CountAt(places, width, r, i), [count |-> 0, next |-> 1],
              [i \in 1..(Len(t) + 1) |-> i]).count

\* str.replace(s, r, 1).
ReplaceFirst(s, r, t) ==
  LET i == CHOOSE k \in Places(s, t) : \A j \in Places(s, t) : k <= j
  IN SubSeq(t, 1, i - 1) \o r \o SubSeq(t, i + Len(s), Len(t))

\* s.replace("\n", "\r\n").
CrlfOf(c) == IF c = "lf" THEN <<"cr", "lf">> ELSE <<c>>
ToCrlf(s) == FoldLeft(LAMBDA r, c : r \o CrlfOf(c), <<>>, s)

\* Mutant of NewFor: new_str is put in as it is given.
NewForAsGiven(new) == new

\* What goes in where the CRLF form of old_str matched.
NewFor(new) == IF Contains(new, "cr") THEN new ELSE ToCrlf(new)

\* Mutant of MatchesOnce: the first of several matches is taken.
MatchesOnceOrMore(count) == count >= 1

\* "Must match exactly once".
MatchesOnce(count) == count = 1

\* _edit: old_str as given or, if that is nowhere in a CRLF file, its CRLF form.
Edit(text, old, new) ==
  LET again == /\ Count(old, text) = 0 /\ Places(<<"cr", "lf">>, text) # {}
               /\ Contains(old, "lf") /\ ~Contains(old, "cr")
      crlf == again /\ Count(ToCrlf(old), text) > 0
      what == IF crlf THEN ToCrlf(old) ELSE old
      ok == MatchesOnce(Count(what, text))
  IN [ok |-> ok, crlf |-> crlf, count |-> Count(what, text),
      text |-> IF ok THEN ReplaceFirst(what, IF crlf THEN NewFor(new) ELSE new, text) ELSE text]

-----------------------------------------------------------------------------
(* The hint.  A window of as many lines as old_str has is [len, common,    *)
(* bound]: its length, the characters difflib matches, and quick_ratio's   *)
(* bound on these.  A similarity is a pair <<matched, length of both>>.    *)

More(r, s) == r[1] * s[2] > s[1] * r[2]

\* Mutant of MaxWindow: a window of three times old_str's length is skipped.
MaxWindowTight(old) == 2 * old

\* Longer windows score below a half.
MaxWindow(old) == 3 * old

\* Mutant of GoodEnough: half is noise.
GoodEnoughAbove(r) == 4 * r[1] > r[2]

\* _CLOSEST_MATCH_MIN_RATIO is a half.
GoodEnough(r) == 4 * r[1] >= r[2]

Similarity(old, w) == <<w.common, old + w.len>>

\* One window more: it becomes the best if it is not too long, and neither the quick
\* bound nor the similarity is too low.
Better(old, windows, best, i) ==
  LET w == windows[i]
      known == IF best = 0 THEN <<0, 1>> ELSE Similarity(old, windows[best])
  IN IF /\ w.len <= MaxWindow(old)
        /\ More(<<w.bound, old + w.len>>, known)
        /\ More(Similarity(old, w), known)
     THEN i ELSE best

\* _closest_match: the window the hint quotes, 0 for none.  old is old_str's
\* length; the deadline is met before window late.
Closest(old, windows, late) ==
  LET best == FoldLeft(LAMBDA b, i : Better(old, windows, b, i), 0, [i \in DOMAIN windows |-> i])
  IN IF old > MaxOld \/ late <= Len(windows) \/ best = 0 THEN 0
     ELSE IF GoodEnough(Similarity(old, windows[best])) THEN best ELSE 0

-----------------------------------------------------------------------------
(* What these promise. *)

Disjoint(s, i, j) == i + Len(s) <= j \/ j + Len(s) <= i
Twice(s, t) == \E i, j \in Places(s, t) : i # j /\ Disjoint(s, i, j)

\* An edit that succeeds changes one span, which is old_str up to its line ends,
\* and no other place that matches is apart from it; an edit that fails had nothing
\* to match, or two places apart, and changes nothing.
OneSpan(text, old, new) ==
  LET e == Edit(text, old, new)
      what == IF e.crlf THEN ToCrlf(old) ELSE old
  IN IF e.ok
     THEN \E i \in Places(what, text) :
            /\ e.text = SubSeq(text, 1, i - 1) \o (IF e.crlf THEN NewFor(new) ELSE new)
                          \o SubSeq(text, i + Len(what), Len(text))
            /\ \A j \in Places(what, text) : j # i => ~Disjoint(what, i, j)
            /\ e.crlf => Places(old, text) = {}
     ELSE /\ e.text = text
          /\ \/ Twice(what, text)
             \/ Places(old, text) = {} /\ (Contains(old, "cr") \/ Places(ToCrlf(old), text) = {})

Crlf(t) == \A i \in DOMAIN t :
  /\ t[i] = "lf" => i > 1 /\ t[i - 1] = "cr"
  /\ t[i] = "cr" => i < Len(t) /\ t[i + 1] = "lf"

\* An edit written with LF breaks leaves a CRLF file one.  old_str must have a break
\* after its first character: one that only begins with LF matches the second half
\* of a CRLF as it stands.
StaysCrlf(text, old, new) ==
  (/\ Crlf(text) /\ \E i \in 2..Len(old) : old[i] = "lf"
   /\ ~Contains(old, "cr") /\ ~Contains(new, "cr"))
    => Crlf(Edit(text, old, new).text)

\* The hint quotes the most similar of all windows, the first of these, and there is
\* one whenever a window is at least half alike and time and size allow it: nothing
\* that is skipped could have been quoted.
BestHint(old, windows, late) ==
  LET hint == Closest(old, windows, late)
      s(i) == Similarity(old, windows[i])
      inTime == old <= MaxOld /\ late > Len(windows)
  IN IF hint = 0
     THEN ~inTime \/ \A i \in DOMAIN windows : ~GoodEnough(s(i))
     ELSE /\ inTime /\ GoodEnough(s(hint))
          /\ \A i \in DOMAIN windows : ~More(s(i), s(hint)) /\ (i < hint => More(s(hint), s(i)))

\* edit_file: one span changes, and it is the only one that matches (_edit).
OnlySpanChanges == call.tool = "edit" => OneSpan(call.text, call.old, call.new)

\* edit_file: "In a CRLF file, an old_str written with plain LF line breaks is
\* matched against the CRLF form", and the file stays one of CRLF.
CrlfKept == call.tool = "edit" => StaysCrlf(call.text, call.old, call.new)

\* _closest_match: what is skipped, by length or by the quick bound, is never the
\* best window.
HintIsBest == call.tool = "hint" => BestHint(call.old, call.windows, call.late)

=============================================================================
