------------------------- MODULE DistinctSequences -------------------------
(* Sequences that repeat nothing, as ordered dicts and lock queues are. *)
EXTENDS Naturals, Sequences, SequencesExt

Distinct(q) == \A k, l \in 1..Len(q) : q[k] = q[l] => k = l

\* q without x, which it holds at most once.
Without(q, x) ==
  IF Contains(q, x) THEN RemoveAt(q, CHOOSE k \in 1..Len(q) : q[k] = x) ELSE q

\* q with x at its end, wherever it was before: pop(x), then q[x] = ...
MovedToEnd(q, x) == Append(Without(q, x), x)
=============================================================================
