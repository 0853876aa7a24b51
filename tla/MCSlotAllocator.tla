--------------------------- MODULE MCSlotAllocator ---------------------------
(* SlotAllocator on small sets. *)
EXTENDS SlotAllocator, TLC

OneInstance == [m \in Models |-> CHOOSE n \in Instances : TRUE]

\* States have the same behaviours and satisfy the same properties if they differ
\* only in the identities of state objects, in what is left in objects that nothing
\* refers to, in last_session, which no step of the allocator reads, or in when a
\* state that is no longer consulted was probed.
Shown(p) == IF p = None THEN None
            ELSE <<conf[p].count, sessions[p], slotOf[p], owner[p], waiters[p]>>
Registered(p) == IF p = None THEN None
                 ELSE <<conf[p].override, conf[p].override = 0 /\ conf[p].fresh>>

SharedView ==
  <<override, pc, job, slot,
    [m \in Models |-> <<Shown(current[m]), Registered(current[m])>>],
    [r \in Requests |-> Shown(pool[r])],
    {rs \in Requests \X Requests : pool[rs[1]] = pool[rs[2]]},
    {rm \in Requests \X Models : pool[rm[1]] = current[rm[2]]}>>

Interchangeable == Permutations(Requests) \cup Permutations(Sessions)
=============================================================================
