---------------------------- MODULE MCRunCommand ----------------------------
(* Small instances of RunCommand. *)
EXTENDS RunCommand
CONSTANTS bash, child
OneChild == {child}
BothStreams == {"out", "err"}
\* Whole, cut, broken and stray sequences on one stream; the other is plain.
MCWrites == [out |-> {"lead2", "lead3", "cont"}, err |-> {"ascii"}]
=============================================================================
