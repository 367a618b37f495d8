----------------------------- MODULE ReadLines ------------------------------
(***************************************************************************)
(* read_file of server.py: _read_file's arguments, and the loop of         *)
(* _read_lines_capped, one step per chunk that readline returns.           *)
(*                                                                         *)
(* A byte of a file is one of four kinds: ascii, newline, the lead byte of *)
(* a two-byte character, a continuation byte.                              *)
(***************************************************************************)
EXTENDS Utf8Text, FiniteSets

CONSTANTS
  Files,    \* the files there may be
  Starts,   \* values of start_line, None if not given
  Ends,     \* values of end_line, None if not given
  Limits,   \* byte budgets
  Chunk,    \* _READ_CHUNK
  None

Bytes == {"ascii", "newline", "lead", "cont"}

ASSUME ConstantsOK ==
  /\ Files \subseteq Seq(Bytes)
  /\ Starts \subseteq Int \cup {None} /\ Ends \subseteq Int \cup {None} /\ None \notin Int
  /\ Limits \subseteq Nat /\ Chunk \in Nat \ {0}

VARIABLES
  pc,        \* "start", "loop", "tail", "done" or "error"
  file, startLine, endLine, limit,   \* the arguments
  first,     \* the first line asked for
  pos,       \* bytes read so far
  held,      \* the decoder holds a lead byte whose character is not complete
  content, used, truncated, complete,
  returnedFirst, returnedLast,
  lineNo, pending

args == <<file, startLine, endLine, limit>>
vars == <<pc, args, first, pos, held, content, used, truncated, complete,
          returnedFirst, returnedLast, lineNo, pending>>

-----------------------------------------------------------------------------
(* Bytes and characters. *)

\* One byte through the incremental decoder with errors="replace".
Feed(d, b) ==
  LET t == IF d.held /\ b # "cont" THEN Append(d.text, "r") ELSE d.text
  IN CASE b = "ascii"   -> [text |-> Append(t, "a"), held |-> FALSE]
       [] b = "newline" -> [text |-> Append(t, "n"), held |-> FALSE]
       [] b = "lead"    -> [text |-> t, held |-> TRUE]
       [] b = "cont"    -> [text |-> Append(t, IF d.held THEN "e" ELSE "r"), held |-> FALSE]

Decode(h, bytes) == FoldLeft(Feed, [text |-> <<>>, held |-> h], bytes)

\* f.readline(Chunk): up to and with the next newline, at most Chunk bytes.
NextChunk ==
  LET ends == {i \in pos + 1 .. Len(file) :
                 file[i] = "newline" \/ i = pos + Chunk \/ i = Len(file)}
  IN IF ends = {} THEN <<>>
     ELSE SubSeq(file, pos + 1, CHOOSE i \in ends : \A j \in ends : i <= j)

-----------------------------------------------------------------------------
\* _read_file: start_line below 1 is 1; end_line must be a line, not before it.
Start ==
  /\ pc = "start"
  /\ LET f == IF startLine = None \/ startLine < 1 THEN 1 ELSE startLine
     IN /\ first' = f
        /\ pc' = IF endLine # None /\ (endLine < 1 \/ endLine < f) THEN "error" ELSE "loop"
  /\ UNCHANGED <<args, pos, held, content, used, truncated, complete, returnedFirst,
                 returnedLast, lineNo, pending>>

\* Mutant of Enough: the line after the last one is read too.
EnoughLate == truncated \/ (endLine # None /\ lineNo > endLine + 1)

\* Nothing more is wanted, though there is more.
Enough == truncated \/ (endLine # None /\ lineNo > endLine)

Stop ==
  /\ pc = "loop" /\ NextChunk # <<>> /\ Enough
  /\ complete' = FALSE
  /\ pos' = pos + Len(NextChunk)
  /\ pc' = "tail"
  /\ UNCHANGED <<args, first, held, content, used, truncated, returnedFirst, returnedLast,
                 lineNo, pending>>

\* The end of the loop's body: what line the next chunk belongs to.
CountLine(chunk) ==
  /\ lineNo' = IF Last(chunk) = "newline" THEN lineNo + 1 ELSE lineNo
  /\ pending' = (Last(chunk) # "newline")

\* A chunk before the first line asked for.
Skip ==
  /\ pc = "loop" /\ NextChunk # <<>> /\ ~Enough /\ lineNo < first
  /\ pos' = pos + Len(NextChunk)
  /\ CountLine(NextChunk)
  /\ UNCHANGED <<pc, args, first, held, content, used, truncated, complete, returnedFirst,
                 returnedLast>>

\* Mutant of Counts: a line is returned once it is met.
CountsAlways(text) == TRUE

\* A line counts as returned only if some of it was.
Counts(text) == text # <<>>

\* A chunk of a line asked for.
Take ==
  /\ pc = "loop" /\ NextChunk # <<>> /\ ~Enough /\ lineNo >= first
  /\ LET d == Decode(held, NextChunk)
         room == limit - used
         text == IF Size(d.text) > room THEN CutTo(d.text, room) ELSE d.text
     IN /\ held' = d.held
        /\ truncated' = (Size(d.text) > room)
        /\ content' = content \o text
        /\ used' = used + Size(text)
        /\ IF Counts(text)
             THEN /\ returnedFirst' = IF returnedFirst = None THEN lineNo ELSE returnedFirst
                  /\ returnedLast' = lineNo
             ELSE UNCHANGED <<returnedFirst, returnedLast>>
  /\ pos' = pos + Len(NextChunk)
  /\ CountLine(NextChunk)
  /\ UNCHANGED <<pc, args, first, complete>>

EndOfFile ==
  /\ pc = "loop" /\ NextChunk = <<>>
  /\ pc' = "tail"
  /\ UNCHANGED <<args, first, pos, held, content, used, truncated, complete, returnedFirst,
                 returnedLast, lineNo, pending>>

TailFits == Width["r"] <= limit - used

\* The decoder's last word, and the answer: a held byte comes out as U+FFFD.
Flush ==
  /\ pc = "tail"
  /\ IF ~truncated /\ held
       THEN IF TailFits
              THEN content' = Append(content, "r") /\ UNCHANGED truncated
              ELSE truncated' = TRUE /\ UNCHANGED content
       ELSE UNCHANGED <<content, truncated>>
  /\ pc' = "done"
  /\ UNCHANGED <<args, first, pos, held, used, complete, returnedFirst, returnedLast, lineNo,
                 pending>>

\* Mutant of TotalLines: a last line without a newline is not counted.
TotalLinesEnded == IF complete THEN lineNo - 1 ELSE None

\* total_lines of the answer.
TotalLines == IF ~complete THEN None ELSE IF pending THEN lineNo ELSE lineNo - 1

-----------------------------------------------------------------------------
Init ==
  /\ pc = "start"
  /\ file \in Files /\ startLine \in Starts /\ endLine \in Ends /\ limit \in Limits
  /\ first = 1 /\ pos = 0 /\ held = FALSE /\ content = <<>> /\ used = 0
  /\ truncated = FALSE /\ complete = TRUE
  /\ returnedFirst = None /\ returnedLast = None
  /\ lineNo = 1 /\ pending = FALSE

Next == Start \/ Stop \/ Skip \/ Take \/ EndOfFile \/ Flush

Spec == Init /\ [][Next]_vars

-----------------------------------------------------------------------------
(* Properties. *)

\* The line each byte of the file is on.
LineOf(i) == 1 + Cardinality({j \in 1..(i - 1) : file[j] = "newline"})
FileLines == IF file = <<>> THEN 0 ELSE LineOf(Len(file))
Asked(n) == n >= first /\ (endLine = None \/ n <= endLine)
AskedBytes ==
  LET at == {i \in 1..Len(file) : Asked(LineOf(i))}
      lo == CHOOSE i \in at : \A j \in at : i <= j
  IN IF at = {} THEN <<>> ELSE SubSeq(file, lo, lo + Cardinality(at) - 1)
AskedText ==
  LET d == Decode(FALSE, AskedBytes) IN IF d.held THEN Append(d.text, "r") ELSE d.text

\* However the chunks fall, the content is the text of the lines asked for,
\* decoded as a whole and cut after the last whole character that fits, and
\* truncated says whether anything was cut (_read_lines_capped).
ContentIsRange ==
  pc = "done" => content = CutTo(AskedText, limit) /\ truncated = (Size(AskedText) > limit)

\* total_lines is the file's own number of lines or null, and null only if there
\* was more file than was wanted.
TotalIsTrue ==
  pc = "done" =>
    \/ TotalLines = FileLines
    \/ TotalLines = None /\ (truncated \/ (endLine # None /\ endLine < FileLines))

Newlines(t) == Cardinality({i \in DOMAIN t : t[i] = "n"})

\* Each line returned_lines names has text in the content, all of it unless it is
\* the last one: "a caller resuming at last + 1 must not skip" a line none of
\* which was returned.
NamedLinesAreThere ==
  pc = "done" /\ returnedLast # None =>
    /\ returnedFirst = first
    /\ content # <<>>
    /\ returnedLast <= first + Newlines(content) - (IF Last(content) = "n" THEN 1 ELSE 0)

=============================================================================
