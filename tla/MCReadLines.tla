---------------------------- MODULE MCReadLines -----------------------------
(* Every file of up to MaxLen bytes. *)
EXTENDS ReadLines
CONSTANTS MaxLen
AllFiles == UNION {[1..k -> Bytes] : k \in 0..MaxLen}
SomeStarts == {None, 0, 1, 2, 3}
SomeEnds == {None, 0, 1, 2}
=============================================================================
