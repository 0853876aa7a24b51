--------------------------- MODULE MCModelTracker ---------------------------
(* ModelTracker on small sets. *)
EXTENDS ModelTracker, TLC

Interchangeable == Permutations(Requests) \cup Permutations(Models)
=============================================================================
