------------------------------ MODULE LiveView ------------------------------
(***************************************************************************)
(* The page of the ledger in the web interface (src/frontend/app.js): every*)
(* two seconds it asks for the revision tokens (services/                  *)
(* revision_service.py), and loads the listing again when the token has    *)
(* changed.  Polls and loads do not wait for each other and may be         *)
(* answered in any order.                                                  *)
(*                                                                         *)
(* What is shown is named by the writes it includes; a load reads when it  *)
(* is sent.                                                                *)
(***************************************************************************)
EXTENDS Ledger, Integers

CONSTANTS
  Few,        \* bound: the traces that come while a page is open
  MaxPolls,   \* bound: polls under way
  MaxTurns    \* bound: how often indexing, or editing, begins

ASSUME FewAssumption == Few \subseteq Traces
ASSUME TurnsAssumption == MaxTurns \in Nat

Never == -1

VARIABLES
  opened,     \* the page is open; a client that reads page by page is looked at by itself
  indexing,   \* the server builds its index
  editing,    \* the user is in a field
  turns,
  polls,      \* answers to polls, under way
  loads,      \* listings under way
  known,      \* revisions
  wasIndexing,
  shown,
  slipped     \* a change was noticed and not shown

serverVars == <<opened, indexing, turns>>
pageVars == <<editing, polls, loads, known, wasIndexing, shown, slipped>>
viewVars == <<ledgerVars, serverVars, pageVars>>

Poll == [token : Nat, indexing : BOOLEAN]

\* Opening the page loads the listing; revisions may be known from another page.
ViewInit ==
  /\ LedgerInit
  /\ opened \in BOOLEAN /\ pending = IF opened THEN Few ELSE Traces
  /\ indexing \in {FALSE, opened} /\ editing = FALSE /\ turns = 0
  /\ polls = {} /\ loads = IF opened THEN {0} ELSE {}
  /\ known \in {Never, 0} /\ wasIndexing = FALSE /\ shown = Never /\ slipped = FALSE

Ask ==
  /\ opened /\ Cardinality(polls) < MaxPolls
  /\ polls' = polls \cup {[token |-> writes, indexing |-> indexing]}
  /\ UNCHANGED <<ledgerVars, serverVars, editing, loads, known, wasIndexing, shown, slipped>>

\* For a mutant: that indexing has finished goes unnoticed.
PollAnsweredBlind(p) ==
  /\ p \in polls /\ polls' = polls \ {p}
  /\ known' = p.token
  /\ loads' = IF known # Never /\ ~p.indexing /\ known # p.token /\ ~editing
              THEN loads \cup {writes} ELSE loads
  /\ slipped' = CASE known = Never -> \A l \in loads \cup {shown} : l < p.token
                  [] known # Never /\ ~p.indexing /\ known # p.token /\ editing -> TRUE
                  [] OTHER -> slipped
  /\ UNCHANGED <<ledgerVars, serverVars, editing, wasIndexing, shown>>

\* pollRevision, from the answer on.  While the server is indexing nothing is loaded, but when it
\* has finished; while the user is editing nothing is, and the token counts as known all the same.
PollAnswered(p) ==
  LET changed == known # p.token \/ (wasIndexing /\ ~p.indexing)
  IN  /\ p \in polls /\ polls' = polls \ {p}
      /\ known' = p.token
      /\ wasIndexing' = IF known = Never THEN wasIndexing ELSE p.indexing
      /\ loads' = IF known # Never /\ ~p.indexing /\ changed /\ ~editing
                  THEN loads \cup {writes} ELSE loads
      /\ slipped' = CASE known = Never -> \A l \in loads \cup {shown} : l < p.token
                      [] known # Never /\ ~p.indexing /\ changed /\ editing -> TRUE
                      [] OTHER -> slipped
      /\ UNCHANGED <<ledgerVars, serverVars, editing, shown>>

PollLost(p) ==
  /\ p \in polls /\ polls' = polls \ {p}
  /\ UNCHANGED <<ledgerVars, serverVars, editing, loads, known, wasIndexing, shown, slipped>>

\* A listing is shown, also when it is older than the one it replaces.
LoadAnswered(l) ==
  /\ l \in loads /\ (mangled = 0 \/ l < mangled) /\ loads' = loads \ {l}
  /\ shown' = l
  /\ slipped' = (l < known /\ (slipped \/ l < shown))
  /\ UNCHANGED <<ledgerVars, serverVars, editing, polls, known, wasIndexing>>

\* "Failed to load ledger": nothing is tried again.
LoadFails(l) ==
  /\ l \in loads /\ loads' = loads \ {l}
  /\ slipped' = (slipped \/ shown < known)
  /\ UNCHANGED <<ledgerVars, serverVars, editing, polls, known, wasIndexing, shown>>

Focus ==
  /\ opened
  /\ \/ ~editing /\ turns < MaxTurns /\ turns' = turns + 1
     \/ editing /\ UNCHANGED turns
  /\ editing' = ~editing
  /\ UNCHANGED <<ledgerVars, opened, indexing, polls, loads, known, wasIndexing, shown, slipped>>

IndexingBegins ==
  /\ opened /\ ~indexing /\ turns < MaxTurns
  /\ indexing' = TRUE /\ turns' = turns + 1
  /\ UNCHANGED <<ledgerVars, opened, pageVars>>

IndexingEnds ==
  /\ indexing /\ indexing' = FALSE
  /\ UNCHANGED <<ledgerVars, opened, turns, pageVars>>

ViewNext ==
  \/ (Validate \/ (~opened /\ Turn)) /\ UNCHANGED <<serverVars, pageVars>>
  \/ Ask \/ Focus \/ IndexingBegins \/ IndexingEnds
  \/ \E p \in polls : PollAnswered(p) \/ PollLost(p)
  \/ \E l \in loads : LoadAnswered(l) \/ LoadFails(l)

ViewSpec == ViewInit /\ [][ViewNext]_viewVars

\* The timer goes on, not every poll is lost, every load is answered or fails, and indexing ends
\* (EventuallyReady of TraceIndex).
FairViewSpec ==
  /\ ViewSpec
  /\ WF_viewVars(Ask) /\ SF_viewVars(\E p \in polls : PollAnswered(p))
  /\ \A l \in 0..Cardinality(Traces) : WF_viewVars(LoadAnswered(l) \/ LoadFails(l))
  /\ WF_viewVars(IndexingEnds)

-----------------------------------------------------------------------------
ViewTypeOK ==
  /\ LedgerTypeOK
  /\ indexing \in BOOLEAN /\ editing \in BOOLEAN /\ turns \in 0..MaxTurns
  /\ polls \subseteq Poll /\ loads \subseteq Nat
  /\ known \in Nat \cup {Never} /\ shown \in Nat \cup {Never}
  /\ wasIndexing \in BOOLEAN /\ slipped \in BOOLEAN

(* The page shows the ledger as it is in the end, in whatever order polls  *)
(* and loads are answered and whatever was indexed meanwhile               *)
(* (pollRevision, loadLedger).  The code loses a change for good, until    *)
(* there is another, when it is noticed while the user is in a field, or   *)
(* came before the first poll, when its load fails, or is answered before  *)
(* an older one.                                                           *)
ViewCatchesUp == opened => <>[](shown = writes \/ slipped)
=============================================================================
