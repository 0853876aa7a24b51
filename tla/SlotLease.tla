------------------------------ MODULE SlotLease ------------------------------
(***************************************************************************)
(* What SlotAllocator promises its users (its docstring): a lease gives    *)
(* one request one slot of a server, nobody else is given that slot before *)
(* the lease is over, and meanwhile only its holder changes what the slot  *)
(* holds.  How the slot is chosen, and who is next, is not part of it.     *)
(***************************************************************************)
CONSTANTS Requests, Places, Sessions, None, Lost

VARIABLES
  holder,   \* place -> the request leasing it, None, or Lost: never again leased
  content   \* place -> the conversation whose tokens it holds

vars == <<holder, content>>

Init ==
  /\ holder = [l \in Places |-> None]
  /\ content = [l \in Places |-> None]

Grant(r, l) ==
  /\ holder[l] = None
  /\ \A k \in Places : holder[k] # r
  /\ holder' = [holder EXCEPT ![l] = r]
  /\ UNCHANGED content

Use(l, s) ==
  /\ holder[l] \in Requests
  /\ content' = [content EXCEPT ![l] = s]
  /\ UNCHANGED holder

\* The lease ends; the slot is free, or its lock was left behind for good.
Finish(l, end) ==
  /\ holder[l] \in Requests
  /\ holder' = [holder EXCEPT ![l] = end]
  /\ UNCHANGED content

Next ==
  \E l \in Places :
    \/ \E r \in Requests : Grant(r, l)
    \/ \E s \in Sessions \cup {None} : Use(l, s)
    \/ \E end \in {None, Lost} : Finish(l, end)

Spec == Init /\ [][Next]_vars
=============================================================================
