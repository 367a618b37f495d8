---------------------------- MODULE MCReadFiles -----------------------------
(* Every list of up to MaxPaths paths, over every small text. *)
EXTENDS ReadFiles, TLC
CONSTANTS p1, p2, p3, MaxPaths
MCPaths == {p1, p2, p3}
MCLists == UNION {[1..k -> MCPaths] : k \in 0..MaxPaths}
MCTexts == {<<>>, <<"a">>, <<"r">>, <<"a", "e">>, <<"e", "r">>}
PathsAlike == Permutations(MCPaths)
=============================================================================
