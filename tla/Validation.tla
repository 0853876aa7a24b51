----------------------------- MODULE Validation -----------------------------
(***************************************************************************)
(* The rules of the ledger that read an answer (services/                  *)
(* validation_service.py), written twice in the code: for a body, and for  *)
(* the log of a stream, whose lines they put together again.  What that    *)
(* log holds depends on the way of the request (proxy_service.py,          *)
(* anthropic_service.py): what the network delivered, what a translator    *)
(* made of it, or the events that a client of /messages gets.              *)
(*                                                                         *)
(* (Of answers to /responses and /embeddings, streamed or not, nothing is  *)
(* ever said: they have no "choices".  Nor is a /messages that is handed   *)
(* on to an Anthropic server ever validated.)                              *)
(***************************************************************************)
EXTENDS Naturals, Sequences, SequencesExt, FiniteSets

CONSTANTS
  Answers,   \* [way, tag, calls, reason]: how it is sent, and the message, its tag none, closed or unclosed
  MaxCuts    \* bound: ends of deliveries in a stream

\* What json.loads makes of the arguments of a call; "absent" if there are none.
Arguments == {"object", "null_arg", "not_object", "invalid", "absent"}

Ways == {"forwarded", "bridged", "translated"}   \* as in Gateway

ASSUME AnswersAssumption ==
  Answers \subseteq [way : Ways, tag : {"none", "closed", "unclosed"}, calls : Seq(Arguments), reason : STRING]

\* autolink_arg and stringified_array are found exactly as null_arg is.
IssueOf(arguments) ==
  CASE arguments = "invalid"    -> {"invalid_json"}
    [] arguments = "not_object" -> {"args_not_object"}
    [] arguments = "null_arg"   -> {"null_arg"}
    [] OTHER                    -> {}

\* An issue is a place and a code: place 0 is the content, calls count from 1, and the finish_reason
\* comes after them.
ReasonOf(answer) == Len(answer.calls) + 1

InCalls(calls) == UNION {{i} \X IssueOf(calls[i]) : i \in DOMAIN calls}

InReason(answer) == IF answer.reason = "length" THEN {<<ReasonOf(answer), "truncated">>} ELSE {}

\* The body is a chat on all of these ways: also of /messages the server's own is read.
IssuesOfBody(answer) ==
  InCalls(answer.calls)
  \cup (IF answer.tag = "unclosed" THEN {<<0, "unclosed_tag">>} ELSE {})
  \cup InReason(answer)

-----------------------------------------------------------------------------
(* A stream sends the text in two pieces (a tag opens in the first and is  *)
(* closed, if at all, in the second) and the arguments of each call in     *)
(* two, a line each; the last line has the reason.  Pieces of different    *)
(* calls may alternate.                                                    *)

Piece == [of : Nat, part : {1, 2}, lost : BOOLEAN]
Pieces(answer) == (0..Len(answer.calls)) \X {1, 2}
LastLine(answer) == 2 * (Len(answer.calls) + 1) + 1

\* The orders of an answer's pieces: all that keep those of each part in order.
Orders(answer) ==
  {o \in [1..(LastLine(answer) - 1) -> Pieces(answer)] :
     \A i, j \in DOMAIN o : i < j => o[i] # o[j] /\ (o[i][1] = o[j][1] => o[i][2] = 1)}

\* Deliveries end within a line k, at 2k - 1, or between it and the next, at 2k; some of those
\* within a line end within a character.  (A second end within a line does what one beside it does.)
Networks(last) ==
  UNION {{[ends |-> ends, split |-> split] : split \in SUBSET {e \in ends : e % 2 = 1}} :
           ends \in {ends \in SUBSET (1..(2 * last)) : Cardinality(ends) <= MaxCuts}}

Between(d, a, b) == (a < d /\ d < b) \/ (b < d /\ d < a)

\* The lines that splitlines() does not find in the log: those that an end cut in two, and all of
\* the two deliveries on both sides of a torn character, which do not decode and are logged as str().
LostIn(last, network) ==
  {k \in 1..last :
     \/ 2 * k - 1 \in network.ends
     \/ \E e \in network.split : \A d \in network.ends : ~Between(d, 2 * k - 1, e)}

\* Which lines can be lost: what a translator sends is logged line by line.
Losses(answer) ==
  IF answer.way = "forwarded"
  THEN {LostIn(LastLine(answer), network) : network \in Networks(LastLine(answer))}
  ELSE {{}}

Logged(order, lost) ==
  [k \in DOMAIN order |-> [of |-> order[k][1], part |-> order[k][2], lost |-> k \in lost]]

\* For a mutant: joined as they come, to the call that was opened last.
JoinedAsTheyCome(log, i) ==
  FlattenSeq([k \in DOMAIN log |->
    IF ~log[k].lost /\ (log[k].of = i \/ (log[k].part = 2 /\ log[k].of > 0 /\ i > 0))
    THEN <<log[k]>> ELSE <<>>])

\* Joined by the index of the call, as far as it was found; acc["arguments"] of a call that came
\* with nothing is "".
Joined(log, i) ==
  FlattenSeq([k \in DOMAIN log |-> IF log[k].of = i /\ ~log[k].lost THEN <<log[k]>> ELSE <<>>])

\* Half of the arguments is taken to be no JSON.
Parsed(answer, log, i) ==
  LET parts == Joined(log, i)
  IN  IF answer.calls[i] = "absent" \/ parts # <<[of |-> i, part |-> 1, lost |-> FALSE],
                                                 [of |-> i, part |-> 2, lost |-> FALSE]>>
      THEN "invalid" ELSE answer.calls[i]

CallIssues(answer, log) ==
  UNION {{i} \X IssueOf(Parsed(answer, log, i)) : i \in {i \in DOMAIN answer.calls : Joined(log, i) # <<>>}}

ContentIssues(answer, log) ==
  IF /\ [of |-> 0, part |-> 1, lost |-> FALSE] \in {log[k] : k \in DOMAIN log}
     /\ \/ answer.tag = "unclosed"
        \/ answer.tag = "closed" /\ [of |-> 0, part |-> 2, lost |-> TRUE] \in {log[k] : k \in DOMAIN log}
  THEN {<<0, "unclosed_tag">>} ELSE {}

\* The events of a streamed /messages have no "choices" either.
IssuesOfStream(answer, order, lost) ==
  IF answer.way = "translated" THEN {}
  ELSE CallIssues(answer, Logged(order, lost)) \cup ContentIssues(answer, Logged(order, lost))
       \cup (IF LastLine(answer) \in lost THEN {} ELSE InReason(answer))

\* The places of which a line was lost.
Hit(answer, order, lost) ==
  {order[k][1] : k \in lost \cap DOMAIN order}
  \cup (IF LastLine(answer) \in lost THEN {ReasonOf(answer)} ELSE {})

\* Answers of which body and stream say the same.  What one says and the other does not is of a call
\* without arguments, which is reported when streamed; of a place of which lines were lost; or of a
\* streamed /messages, of which nothing is said.
Alike == {answer \in Answers :
  \A order \in Orders(answer), lost \in Losses(answer) :
    LET streamed == IssuesOfStream(answer, order, lost)
        whole == IssuesOfBody(answer)
    IN  \A issue \in (streamed \cup whole) \ (streamed \cap whole) :
          \/ issue[1] \in DOMAIN answer.calls /\ answer.calls[issue[1]] = "absent"
          \/ issue[1] \in Hit(answer, order, lost)
          \/ answer.way = "translated" /\ issue \in whole}
=============================================================================
