---------------------------- MODULE MCTraceIndex ----------------------------
(* TraceIndex on small sets. *)
EXTENDS TraceIndex, TLC

Interchangeable == Permutations(Traces)
=============================================================================
