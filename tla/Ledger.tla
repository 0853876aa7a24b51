------------------------------- MODULE Ledger -------------------------------
(***************************************************************************)
(* The validation ledger: a file to which one line is appended for every   *)
(* trace with issues, and which is read as a whole for every listing       *)
(* (services/ledger_service.py, filesystem/fs_ledger_repository.py).       *)
(*                                                                         *)
(* A lock lets one thread at a time append or read.  A write can still     *)
(* fail half way, with a full disk or the end of the process; what it left *)
(* has no newline, and the next entry goes to the same line.  Such an      *)
(* exception is logged and forgotten, as all that happens here.            *)
(***************************************************************************)
EXTENDS Validation

CONSTANTS
  Traces,
  AnswerOf,  \* trace -> the answer that is validated
  Odd,       \* those whose entry has a character in it that splitlines() takes for a line's end
             \* (no part of such a line is taken to be JSON by itself)
  Wanted,    \* those a listing is to show: its model, since, and not "/models"
  Limit,     \* entries on a page
  MaxTears   \* bound: writes that fail half way

ASSUME OddAssumption == Odd \subseteq Traces
ASSUME AnswerOfAssumption == AnswerOf \in [Traces -> Answers]
ASSUME TracesAssumption == IsFiniteSet(Traces)
ASSUME MaxTearsAssumption == MaxTears \in Nat
ASSUME LimitAssumption == Limit \in Nat \ {0}

VARIABLES
  pending,   \* traces that are yet to be validated
  lines,     \* its lines: the entry that begins it, and whether it is one JSON object
  torn,      \* the last line has no newline
  mangled,   \* the write that ended within a character, from which on the file cannot be decoded; 0 if none
  writes,    \* how often the file was written to; its mtime and size change with it
  recorded,  \* traces whose entry was written
  tears,
  vanished,  \* an entry that could be read was spoilt by one that followed
  pager      \* a client that reads the listing page by page

fileVars == <<pending, lines, torn, mangled, writes, recorded, tears, vanished>>
ledgerVars == <<fileVars, pager>>

Line == [of : Traces, sound : BOOLEAN]
Pager == [phase : {"idle", "paging", "over", "failed"}, offset : Nat,
          start : SUBSET Traces, seen : SUBSET Traces]

LedgerInit ==
  /\ pending \in SUBSET Traces
  /\ lines = <<>> /\ torn = FALSE /\ mangled = 0 /\ writes = 0
  /\ recorded = {} /\ tears = 0 /\ vanished = FALSE
  /\ pager = [phase |-> "idle", offset |-> 0, start |-> {}, seen |-> {}]

-----------------------------------------------------------------------------
(* validate_and_record, in a thread.                                       *)

\* There is no issue, or the validation itself raises.
Pass(t) ==
  /\ t \in pending /\ pending' = pending \ {t}
  /\ UNCHANGED <<lines, torn, mangled, writes, recorded, tears, vanished, pager>>

\* Text goes to the end of the file: on a line of its own, unless the last one has no end.
Extend(t, sound) ==
  /\ lines' = IF torn THEN [lines EXCEPT ![Len(lines)].sound = FALSE]
             ELSE Append(lines, [of |-> t, sound |-> sound])
  /\ vanished' = (vanished \/ (torn /\ lines[Len(lines)].sound))
  /\ writes' = writes + 1
  /\ pending' = pending \ {t}
  /\ UNCHANGED pager

\* For a mutant: the line is written without its newline.
RecordUnended(t) ==
  /\ t \in pending
  /\ Extend(t, t \notin Odd)
  /\ torn' = TRUE
  /\ recorded' = recorded \cup {t}
  /\ UNCHANGED <<mangled, tears>>

Record(t) ==
  /\ t \in pending
  /\ Extend(t, t \notin Odd)
  /\ torn' = FALSE
  /\ recorded' = recorded \cup {t}
  /\ UNCHANGED <<mangled, tears>>

\* The write fails before the end of the entry, within a character, or before the newline.
Tear(t, place) ==
  /\ t \in pending /\ tears < MaxTears
  /\ Extend(t, place = "newline" /\ t \notin Odd)
  /\ torn' = TRUE
  /\ mangled' = IF place = "character" /\ mangled = 0 THEN writes + 1 ELSE mangled
  /\ tears' = tears + 1
  /\ UNCHANGED recorded

-----------------------------------------------------------------------------
(* Listing: newest first.  A file that cannot be decoded raises, and the   *)
(* request fails.                                                          *)

Listed == {lines[i].of : i \in {i \in DOMAIN lines : lines[i].sound}}

\* The lines list_entries goes through, and how many entries of them it lists before one.
Shown == {i \in DOMAIN lines : lines[i].sound /\ lines[i].of \in Wanted}
Newer(i, among) == Cardinality({j \in among : j > i})

\* For a mutant: the page is cut out first, and filtered then.
PageUnfiltered(offset) ==
  {i \in Shown : Newer(i, {j \in DOMAIN lines : lines[j].sound}) \in offset..(offset + Limit - 1)}

\* The lines that make up the page from offset on.
Page(offset) == {i \in Shown : Newer(i, Shown) \in offset..(offset + Limit - 1)}

\* A client asks for the next page, until one is not full.
Turn ==
  /\ pager.phase \in {"idle", "paging"}
  /\ LET page == Page(pager.offset)
     IN  pager' = IF mangled # 0 THEN [pager EXCEPT !.phase = "failed"]
                  ELSE [phase  |-> IF Cardinality(page) < Limit THEN "over" ELSE "paging",
                        offset |-> pager.offset + Cardinality(page),
                        start  |-> IF pager.phase = "idle" THEN Listed \cap Wanted ELSE pager.start,
                        seen   |-> pager.seen \cup {lines[i].of : i \in page}]
  /\ UNCHANGED fileVars

Validate ==
  \E t \in Traces :
    \/ Pass(t) \/ Record(t)
    \/ \E place \in {"entry", "character", "newline"} : Tear(t, place)

LedgerNext == Validate \/ Turn

LedgerSpec == LedgerInit /\ [][LedgerNext]_ledgerVars

-----------------------------------------------------------------------------
LedgerTypeOK ==
  /\ pending \subseteq Traces /\ recorded \subseteq Traces \ pending
  /\ lines \in Seq(Line) /\ torn \in BOOLEAN /\ (torn => lines # <<>>)
  /\ mangled \in 0..writes /\ vanished \in BOOLEAN
  /\ writes \in Nat /\ tears \in 0..MaxTears
  /\ pager \in Pager

(* A write that fails half way costs, of the entries written in full, at   *)
(* most one that follows it (append, _iter_entries); unless it makes the   *)
(* file undecodable.                                                       *)
Unreadable == {t \in recorded \ Odd : t \notin Listed}
LossBounded == Cardinality(Unreadable) <= tears

(* The ledger says the same of a chat whether it was streamed or not       *)
(* (validate_trace), in whatever order the pieces of its calls came, but   *)
(* for calls without arguments.  Wherever the network's deliveries end,    *)
(* and whether or not they decode, that changes only what is said of the   *)
(* calls, the text and the finish_reason of which a line was lost by it.   *)
(* Of a /messages that was translated this holds for nothing: streamed, no *)
(* issue of its answer is ever found.                                      *)
IssuesAlike == \A t \in recorded : AnswerOf[t] \in Alike

(* Whoever reads the listing page by page while entries are added sees all *)
(* that were listed when it began (list_entries): what is added comes in   *)
(* front, and shows some twice.  Unless an entry vanished in between.      *)
PagesMissNothing ==
  pager.phase = "over" /\ ~vanished => pager.start \subseteq pager.seen
=============================================================================
