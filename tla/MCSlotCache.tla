----------------------------- MODULE MCSlotCache -----------------------------
(* SlotCache on small sets. *)
EXTENDS SlotCache, TLC

OneInstance == [m \in Models |-> CHOOSE n \in Instances : TRUE]

Interchangeable == Permutations(Requests) \cup Permutations(Sessions)
=============================================================================
