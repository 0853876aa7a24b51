----------------------------- MODULE MapReduce ------------------------------
(***************************************************************************)
(* A search result that is too long is cut into chunks, the model is asked *)
(* about each of them at the same time, and about the answers once more    *)
(* (ResponsesService._map_reduce_search_result).  Every one of these calls *)
(* has a trace of its own.  The calls run as tasks of one group: a step is *)
(* what one of them does between two awaits.                               *)
(***************************************************************************)
EXTENDS Naturals, Sequences

CONSTANTS
  Requests,
  Texts,      \* search results: sequences of Letters
  Budgets,    \* lengths a chunk may have at most
  MaxCalls    \* bound: chunks of a text, and the reducing call

Letters == {"word", "space", "newline"}

ASSUME TextsAssumption == Texts \subseteq Seq(Letters)
ASSUME BudgetsAssumption == Budgets \subseteq Nat \ {0}

VARIABLES
  logged,   \* request -> should_log, once its endpoint is chosen
  trace,    \* (request, number) -> the files of that trace; 0 is the request's own
  search,   \* request -> the search result being worked on
  calls     \* request -> its calls

Traces == Requests \X (0..MaxCalls)

Search == [phase : {"none", "mapping", "reducing", "found"},
           text : Seq(Letters), budget : Nat,
           parts : Seq(Nat \X Nat),         \* chunks, as first and last position
           reduce : BOOLEAN,                \* map_reduce_reduce
           results : Seq(0..MaxCalls),      \* chunk -> whose answer, 0 for ""
           kind : {"raw", "parts", "digest", "nothing"}]   \* what is returned in the end

Call == [stage : {"none", "ready", "sent", "unread", "over"}, got : {"none", "text", "empty", "garbage"}]

NoSearch == [phase |-> "none", text |-> <<>>, budget |-> 0, parts |-> <<>>, reduce |-> FALSE,
             results |-> <<>>, kind |-> "nothing"]
NoCall == [stage |-> "none", got |-> "none"]

InitMapReduce ==
  /\ logged = [r \in Requests |-> FALSE]
  /\ trace = [t \in Traces |-> "none"]
  /\ search = [r \in Requests |-> NoSearch]
  /\ calls = [r \in Requests |-> [i \in 1..MaxCalls |-> NoCall]]

Write(t, half) == IF logged[t[1]] THEN [trace EXCEPT ![t] = half] ELSE trace

-----------------------------------------------------------------------------
(* _chunk_text.  A space is the finest of its boundaries and always the    *)
(* last within reach; paragraphs end in two newlines.  A boundary goes to  *)
(* the chunk it ends, and one at the very start of a chunk is no progress. *)

Boundary(text, p, last) ==
  \/ text[p] = "space"
  \/ p < last /\ text[p] = "newline" /\ text[p + 1] = "newline"

Cut(text, start, budget) ==
  LET last == start + budget - 1
      boundaries == {p \in (start + 1)..last : Boundary(text, p, last)}
  IN  IF last >= Len(text) THEN Len(text)
      ELSE IF boundaries = {} THEN last
      ELSE CHOOSE p \in boundaries : \A q \in boundaries : q <= p

HasWord(text, from, to) == \E p \in from..to : text[p] = "word"

\* The chunks from start on, given those of the rest.
ChunksFrom(text, budget, rest, start) ==
  IF start > Len(text) THEN <<>>
  ELSE LET cut == Cut(text, start, budget)
       IN  (IF HasWord(text, start, cut) THEN << <<start, cut>> >> ELSE <<>>) \o rest[cut + 1]

ChunksOf(text, budget) ==
  LET from[start \in 1..(Len(text) + 1)] == ChunksFrom(text, budget, from, start)
  IN  from[1]

ASSUME MaxCallsAssumption ==
  /\ MaxCalls \in Nat \ {0}
  /\ \A text \in Texts, budget \in Budgets : Len(ChunksOf(text, budget)) < MaxCalls

-----------------------------------------------------------------------------
Busy(r) == search[r].phase \in {"mapping", "reducing"}
Mapped(r) == DOMAIN search[r].parts
Reducing(r) == Len(search[r].parts) + 1   \* the number of the reducing call

\* The conversation leaves no room: the result is returned as it is.
ReturnRaw(r, text) ==
  /\ search' = [search EXCEPT ![r] =
        [phase |-> "found", text |-> text, budget |-> 0, parts |-> <<>>, reduce |-> FALSE,
         results |-> <<>>, kind |-> "raw"]]
  /\ UNCHANGED <<logged, trace, calls>>

StartMapping(r, text, budget, reduce) ==
  LET parts == ChunksOf(text, budget)
  IN  /\ search' = [search EXCEPT ![r] =
            [phase |-> "mapping", text |-> text, budget |-> budget, parts |-> parts,
             reduce |-> reduce, results |-> [i \in DOMAIN parts |-> 0], kind |-> "nothing"]]
      /\ calls' = [calls EXCEPT ![r] = [i \in 1..MaxCalls |->
            IF i \in DOMAIN parts THEN [NoCall EXCEPT !.stage = "ready"] ELSE NoCall]]
      /\ UNCHANGED <<logged, trace>>

Calling(r, i, stage) == Busy(r) /\ calls[r][i].stage = stage

\* save_request_trace, then the call
SendCall(r, i) ==
  /\ Calling(r, i, "ready")
  /\ trace' = Write(<<r, i>>, "open")
  /\ calls' = [calls EXCEPT ![r][i].stage = "sent"]
  /\ UNCHANGED <<logged, search>>

\* The call fails, or is answered: either way there is a response half.
CallFails(r, i) ==
  /\ Calling(r, i, "sent")
  /\ trace' = Write(<<r, i>>, "settled")
  /\ calls' = [calls EXCEPT ![r][i].stage = "over"]
  /\ UNCHANGED <<logged, search>>

\* For a mutant: answers in the order they come.
PlacedNext(results, i) ==
  [results EXCEPT ![CHOOSE k \in DOMAIN results :
      results[k] = 0 /\ \A j \in 1..(k - 1) : results[j] # 0] = i]

Placed(results, i) == [results EXCEPT ![i] = i]

CallAnswered(r, i, got) ==
  /\ Calling(r, i, "sent")
  /\ trace' = Write(<<r, i>>, "settled")
  /\ calls' = [calls EXCEPT ![r][i] = [stage |-> "over", got |-> got]]
  /\ IF got = "text" /\ search[r].phase = "mapping"
     THEN search' = [search EXCEPT ![r].results = Placed(@, i)]
     ELSE UNCHANGED search
  /\ UNCHANGED logged

\* Status 200 and no JSON, or JSON without what is looked for: this raises after the response half
\* was written, and the handler of the exception writes it again.
CallUnreadable(r, i) ==
  /\ Calling(r, i, "sent")
  /\ trace' = Write(<<r, i>>, "settled")
  /\ calls' = [calls EXCEPT ![r][i] = [stage |-> "unread", got |-> "garbage"]]
  /\ UNCHANGED <<logged, search>>

CallRewritten(r, i) ==
  /\ Calling(r, i, "unread")
  /\ trace' = Write(<<r, i>>, "rewritten")
  /\ calls' = [calls EXCEPT ![r][i].stage = "over"]
  /\ UNCHANGED <<logged, search>>

\* For a mutant: every chunk is waited for until it has an answer.
EachAnswered(r) == \A i \in Mapped(r) : calls[r][i].got # "none"

\* The task group has ended.
CallsOver(r) == \A i \in Mapped(r) : calls[r][i].stage = "over"

Found(s, kind) == [s EXCEPT !.phase = "found", !.kind = kind]

\* Without anything to combine there is no reducing call.
Combine(r) ==
  /\ search[r].phase = "mapping" /\ CallsOver(r)
  /\ LET nothing == \A i \in Mapped(r) : search[r].results[i] = 0
     IN  IF nothing \/ ~search[r].reduce
         THEN /\ search' = [search EXCEPT ![r] = Found(@, IF nothing THEN "nothing" ELSE "parts")]
              /\ UNCHANGED calls
         ELSE /\ search' = [search EXCEPT ![r].phase = "reducing"]
              /\ calls' = [calls EXCEPT ![r][Reducing(r)].stage = "ready"]
  /\ UNCHANGED <<logged, trace>>

\* An answer of the reducing call counts even if it is empty; otherwise the parts are returned.
Reduced(r) ==
  /\ search[r].phase = "reducing"
  /\ calls[r][Reducing(r)].stage = "over"
  /\ LET got == calls[r][Reducing(r)].got
     IN  search' = [search EXCEPT ![r] =
           Found(@, CASE got = "text" -> "digest" [] got = "empty" -> "nothing" [] OTHER -> "parts")]
  /\ UNCHANGED <<logged, trace, calls>>

CallSteps(r, i) ==
  \/ SendCall(r, i) \/ CallFails(r, i) \/ CallUnreadable(r, i) \/ CallRewritten(r, i)
  \/ \E got \in {"text", "empty"} : CallAnswered(r, i, got)

Searching(r) == Combine(r) \/ Reduced(r) \/ \E i \in 1..MaxCalls : CallSteps(r, i)

-----------------------------------------------------------------------------
(* The chunks cover every word of the text once, in order, and none is     *)
(* longer than the budget (_chunk_text).                                   *)
Covers(s) ==
  /\ \A i \in DOMAIN s.parts : s.parts[i][2] - s.parts[i][1] \in 0..(s.budget - 1)
  /\ \A i, j \in DOMAIN s.parts : i < j => s.parts[i][2] < s.parts[j][1]
  /\ \A p \in DOMAIN s.text : s.text[p] = "word" =>
       \E i \in DOMAIN s.parts : p \in s.parts[i][1]..s.parts[i][2]

\* What is returned says what the calls answered, in the order of the text, whatever the order in
\* which they were answered; and nothing is only returned when they answered nothing, or the
\* reducing call did.
SummaryFaithful ==
  \A r \in Requests : search[r].phase = "found" =>
    LET s == search[r]
        told == {i \in DOMAIN s.parts : calls[r][i].got = "text"}
    IN  /\ \A i \in DOMAIN s.parts : s.results[i] = IF i \in told THEN i ELSE 0
        /\ s.kind \in {"parts", "digest"} => told # {}
        /\ s.kind = "nothing" =>
             \/ told = {}
             \/ s.reduce /\ calls[r][Reducing(r)].got = "empty"
        /\ s.kind # "raw" => Covers(s)
=============================================================================
