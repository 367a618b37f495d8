------------------------------ MODULE Utf8Text ------------------------------
(***************************************************************************)
(* Decoded text, as the read tools of server.py measure and cut it: a      *)
(* character is "a", "n" (newline), "e" (two bytes of UTF-8) or "r"        *)
(* (U+FFFD, three bytes).                                                  *)
(***************************************************************************)
EXTENDS Integers, SequencesExt

Width == [a |-> 1, n |-> 1, e |-> 2, r |-> 3]
Chars == DOMAIN Width

\* The text's length in UTF-8.
Size(t) == FoldLeft(LAMBDA n, c : n + Width[c], 0, t)

\* encoded[:room].decode(errors="ignore"): the whole characters that fit.
CutTo(t, room) ==
  LET n == CHOOSE k \in 0..Len(t) :
             /\ Size(SubSeq(t, 1, k)) <= room
             /\ k = Len(t) \/ Size(SubSeq(t, 1, k + 1)) > room
  IN SubSeq(t, 1, n)

=============================================================================
