---------------------------- MODULE MCTelemetry -----------------------------
(* Small instances of Telemetry. *)
EXTENDS Telemetry, TLC
CONSTANTS c1, c2
MCCalls == {c1, c2}
BothSinks == {Sinks}
EitherSink == {{"influx"}, {"nats"}}
CallsAlike == Permutations(MCCalls)
=============================================================================
