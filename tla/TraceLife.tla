----------------------------- MODULE TraceLife ------------------------------
(***************************************************************************)
(* What tracing promises for one upstream call after another (README:      *)
(* "Traces every request/response pair to disk"): a request half is        *)
(* written once, its response half once and later, the validation comes    *)
(* after both, and when the work is over no request half is left alone,    *)
(* except where an excuse was recorded.  Work may have parts (the calls of *)
(* a map-reduce), and is not over before they are.                         *)
(***************************************************************************)
CONSTANTS
  Traces,     \* everything that may be traced
  PartOf(_)   \* trace -> the traces of its parts

VARIABLES
  trace,      \* trace -> its files: none, open (a request half), settled (both), rewritten
  validated,  \* traces handed to the ledger
  excused,    \* traces that may stay open, or have their response half replaced
  over        \* traces whose work is over

vars == <<trace, validated, excused, over>>

Init ==
  /\ trace = [t \in Traces |-> "none"]
  /\ validated = {} /\ excused = {} /\ over = {}

Moves(t, from, to) ==
  /\ trace[t] = from
  /\ trace' = [trace EXCEPT ![t] = to]
  /\ UNCHANGED <<validated, over>>

Begin(t) ==
  /\ t \notin over /\ \A u \in Traces : t \in PartOf(u) => u \notin over
  /\ Moves(t, "none", "open") /\ UNCHANGED excused

Settle(t) ==
  /\ t \notin over /\ Moves(t, "open", "settled")
  /\ excused' \in {excused, excused \cup {t}}

\* Only what is excused has its response half replaced.
Rewrite(t) ==
  /\ t \in excused \ over /\ Moves(t, "settled", "rewritten")
  /\ UNCHANGED excused

Validate(t) ==
  /\ trace[t] = "settled" /\ t \notin validated \cup over
  /\ validated' = validated \cup {t}
  /\ UNCHANGED <<trace, excused, over>>

\* Traces are excused, end, or both at once.
Retire ==
  /\ excused' \in SUBSET Traces /\ excused \subseteq excused'
  /\ over' \in SUBSET Traces /\ over \subseteq over'
  /\ \A t \in over' \ over :
       /\ trace[t] = "open" => t \in excused'
       /\ PartOf(t) \subseteq over'
  /\ UNCHANGED <<trace, validated>>

Next == Retire \/ \E t \in Traces : Begin(t) \/ Settle(t) \/ Rewrite(t) \/ Validate(t)

Spec == Init /\ [][Next]_vars
=============================================================================
