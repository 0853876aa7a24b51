--------------------------- MODULE ResponseStream ---------------------------
(***************************************************************************)
(* ResponsesService._stream_inner: one streamed /responses request, the    *)
(* second copy of the tool loop.  The answer of the model arrives in       *)
(* chunks, and each of them is turned into events at once: an item is      *)
(* announced (output_item.added) under the current output_index, followed  *)
(* by deltas, and closed (output_item.done), which moves the index on.     *)
(*                                                                         *)
(* A step handles what arrives at one await.  A client that goes away      *)
(* stops the generator for good, which no property here notices; what the  *)
(* finally clause does then is in SlotCache.                               *)
(***************************************************************************)
EXTENDS ToolLoop

CONSTANTS
  MaxThoughts,   \* bound: reasoning items in one answer
  None

ASSUME NoneAssumption == None \notin Nat

VARIABLES
  conf, pc, turns, chat, left, searches, output, status,   \* as in ResponseLoop
  index,    \* output_index
  open,     \* kind of item -> the index it was announced under, None if not open
  calls,    \* tool_calls_acc
  mixed     \* history: a thought arrived while a message was open

loopVars == <<conf, pc, turns, chat, left, searches, status>>
feedVars == <<output, index, open>>
vars == <<loopVars, feedVars, calls, mixed>>

ItemKinds == {"reasoning", "message", "search"}

-----------------------------------------------------------------------------
(* The client's feed: a record of output, index and open.                  *)

Feed == [output |-> output, index |-> index, open |-> open]

Become(f) == output' = f.output /\ index' = f.index /\ open' = f.open

\* output_item.added, unless an item of that kind is open.
Opened(f, kind) ==
  IF f.open[kind] # None THEN f ELSE [f EXCEPT !.open[kind] = f.index]

\* Mutant: the index stays.
ClosedInPlace(f, kind) ==
  IF f.open[kind] = None THEN f
  ELSE [f EXCEPT !.output = Append(@, Item(kind, turns)), !.open[kind] = None]

\* output_item.done: close_reasoning, close_message, and the end of a search.
Closed(f, kind) ==
  IF f.open[kind] = None THEN f
  ELSE [output |-> Append(f.output, Item(kind, turns)), index |-> f.index + 1,
        open |-> [f.open EXCEPT ![kind] = None]]

\* Items that are announced and closed in one go.
Extended(f, items) ==
  [output |-> f.output \o items, index |-> f.index + Len(items), open |-> f.open]

-----------------------------------------------------------------------------
Init ==
  /\ conf \in Settings
  /\ pc = "post" /\ turns = 0
  /\ chat \in Openings(conf)
  /\ left = 0 /\ searches = 0
  /\ output = <<>> /\ status = "in_progress"
  /\ index = 0
  /\ open = [kind \in ItemKinds |-> None]
  /\ calls = <<>>
  /\ mixed = FALSE

\* The request is sent, with nothing left over from the turn before.
Post ==
  /\ pc = "post"
  /\ pc' = "await" /\ turns' = turns + 1
  /\ open' = [open EXCEPT !["reasoning"] = None, !["message"] = None]
  /\ calls' = <<>>
  /\ UNCHANGED <<conf, chat, left, searches, status, output, index, mixed>>

Accept ==
  /\ pc = "await"
  /\ pc' = "read"
  /\ UNCHANGED <<conf, turns, chat, left, searches, status, feedVars, calls, mixed>>

Thoughts == Cardinality({i \in DOMAIN output : output[i] = Item("reasoning", turns)})

\* One chunk: its reasoning, its content and a tool call that begins with it.
Spoken(f, think, text) ==
  LET thought == IF think THEN Opened(f, "reasoning") ELSE f
  IN  IF text THEN Opened(Closed(thought, "reasoning"), "message") ELSE thought

Chunk(think, text, begun) ==
  /\ pc = "read"
  /\ think /\ open["reasoning"] = None => Thoughts < MaxThoughts
  /\ Len(calls) + Len(begun) <= MaxCalls
  /\ Become(Spoken(Feed, think, text))
  /\ calls' = calls \o begun
  /\ mixed' = (mixed \/ (think /\ open["message"] # None))
  /\ UNCHANGED loopVars

\* What is open is closed when the stream of the model ends.
Settled == Closed(Closed(Feed, "reasoning"), "message")

\* Mutant: a search beside calls of the client is run as well.
SearchAny ==
  /\ pc = "read" /\ conf.active /\ \E i \in DOMAIN calls : calls[i] = "search"
  /\ Become(Settled)
  /\ chat' = Requested(chat, calls)
  /\ left' = Len(calls)
  /\ pc' = "search"
  /\ UNCHANGED <<conf, turns, searches, status, calls, mixed>>

Search ==
  /\ pc = "read" /\ AllSearches(conf, calls)
  /\ Become(Settled)
  /\ chat' = Requested(chat, calls)
  /\ left' = Len(calls)
  /\ pc' = "search"
  /\ UNCHANGED <<conf, turns, searches, status, calls, mixed>>

Ends(s) == pc' = "over" /\ status' = s

Conclude(cut) ==
  /\ pc = "read" /\ ~AllSearches(conf, calls)
  /\ Become(Extended(Settled, HandedOver(conf, calls, turns)))
  /\ Ends(IF cut THEN "incomplete" ELSE "completed")
  /\ UNCHANGED <<conf, turns, chat, left, searches, calls, mixed>>

\* response.failed: an error status, or an exception at any await.
Fail ==
  /\ pc \in {"await", "read", "searching"}
  /\ Ends("failed")
  /\ UNCHANGED <<conf, turns, chat, left, searches, feedVars, calls, mixed>>

RunSearch ==
  /\ pc = "search" /\ left > 0 /\ ~Spent(conf, searches)
  /\ searches' = searches + 1
  /\ Become(Opened(Feed, "search"))
  /\ pc' = "searching"
  /\ UNCHANGED <<conf, turns, chat, left, status, calls, mixed>>

TakeResult ==
  /\ pc = "searching"
  /\ chat' = Answered(chat) /\ left' = left - 1
  /\ Become(Closed(Feed, "search"))
  /\ pc' = "search"
  /\ UNCHANGED <<conf, turns, searches, status, calls, mixed>>

\* Mutant: a call over the budget is passed over in silence.
DeclineSilently ==
  /\ pc = "search" /\ left > 0 /\ Spent(conf, searches)
  /\ left' = left - 1
  /\ UNCHANGED <<conf, pc, turns, chat, searches, status, feedVars, calls, mixed>>

Decline ==
  /\ pc = "search" /\ left > 0 /\ Spent(conf, searches)
  /\ chat' = Answered(chat) /\ left' = left - 1
  /\ UNCHANGED <<conf, pc, turns, searches, status, feedVars, calls, mixed>>

Report ==
  /\ pc = "search" /\ left = 0 /\ ~conf.agent
  /\ Become(Extended(Feed, <<Item("message", turns)>>))
  /\ Ends("completed")
  /\ UNCHANGED <<conf, turns, chat, left, searches, calls, mixed>>

\* Mutant: nobody counts the turns.
NextTurnAlways ==
  /\ pc = "search" /\ left = 0 /\ conf.agent
  /\ chat' = Prepared(conf, searches, chat)
  /\ pc' = "post" /\ turns' = 0
  /\ UNCHANGED <<conf, left, searches, status, feedVars, calls, mixed>>

\* Mutant: the loop runs once more.
NextTurnOnceMore ==
  /\ pc = "search" /\ left = 0 /\ conf.agent
  /\ chat' = Prepared(conf, searches, chat)
  /\ IF turns <= MaxTurns THEN pc' = "post" /\ UNCHANGED status ELSE Ends("incomplete")
  /\ UNCHANGED <<conf, turns, left, searches, feedVars, calls, mixed>>

NextTurn ==
  /\ pc = "search" /\ left = 0 /\ conf.agent
  /\ chat' = Prepared(conf, searches, chat)
  /\ IF turns < MaxTurns THEN pc' = "post" /\ UNCHANGED status ELSE Ends("incomplete")
  /\ UNCHANGED <<conf, turns, left, searches, feedVars, calls, mixed>>

-----------------------------------------------------------------------------
\* The first choice of a chunk may carry any of the three.
Read ==
  \/ \E think, text \in BOOLEAN, begun \in {<<>>} \cup {<<c>> : c \in CallKinds} :
       Chunk(think, text, begun)
  \/ Search
  \/ \E cut \in BOOLEAN : Conclude(cut)

Next ==
  \/ Post \/ Accept \/ Read \/ Fail
  \/ RunSearch \/ TakeResult \/ Decline \/ Report \/ NextTurn

Spec == Init /\ [][Next]_vars

\* Calls upstream time out, and a model does not talk for ever (max_tokens).
FairSpec == Spec /\ WF_vars(Next) /\ WF_vars(Search \/ \E cut \in BOOLEAN : Conclude(cut))

-----------------------------------------------------------------------------
(* Properties.                                                             *)

TypeOK ==
  /\ conf \in Settings
  /\ pc \in {"post", "await", "read", "search", "searching", "over"}
  /\ turns \in 0..MaxTurns
  /\ chat \in Chats
  /\ left \in 0..MaxCalls
  /\ searches \in Nat
  /\ output \in Seq([kind : Kinds, turn : 1..MaxTurns])
  /\ status \in {"in_progress", "completed", "incomplete", "failed"}
  /\ index \in Nat
  /\ open \in [ItemKinds -> Nat \cup {None}]
  /\ calls \in Calls
  /\ mixed \in BOOLEAN

\* Every event about an item carries the index that the item was announced under,
\* and has in the final output: an open item is the only one, and stands where
\* output_index points, after everything that is in the output already.  It takes
\* a model that thinks on after it began to answer to break this.
ItemsInPlace ==
  /\ index = Len(output)
  /\ ~mixed =>
       /\ \A kind \in ItemKinds : open[kind] \in {index, None}
       /\ \A k1, k2 \in ItemKinds : open[k1] # None /\ open[k2] # None => k1 = k2

\* A chat request that goes upstream is one that chat backends accept: every tool
\* call in it has its tool message, whether the search ran, failed or was declined.
CallsAnswered == pc \in {"post", "await", "read"} => chat.unanswered = 0

\* Searching comes to an end: a model is forced to use a tool at most once, and
\* offered no tools when the budget is spent, which it never exceeds.
SearchingSubsides ==
  /\ pc = "post" /\ turns > 0 => ~chat.forced /\ ~(Spent(conf, searches) /\ chat.tools)
  /\ conf.budget > 0 => searches <= conf.budget

-----------------------------------------------------------------------------
(* The response that is not streamed.                                      *)

\* The items up to the nth of the turns up to last, given those up to the one before.
\* Several stretches of reasoning in one answer count as one, as they do in the
\* message a model gives when it is not streamed.
CondensedTo(items, last, before, n) ==
  IF n = 0 THEN <<>>
  ELSE IF \/ items[n].turn > last
          \/ n > 1 /\ items[n] = items[n - 1] /\ items[n].kind = "reasoning"
  THEN before[n - 1]
  ELSE Append(before[n - 1], items[n])

Condensed(items, last) ==
  LET upTo[n \in 0..Len(items)] == CondensedTo(items, last, upTo, n)
  IN  upTo[Len(items)]

\* The output a request that is not streamed has at this point: of an answer that
\* is still arriving nothing, and of a failed response nothing.
UnstreamedOutput ==
  IF status = "failed" THEN <<>>
  ELSE Condensed(output, IF pc = "read" THEN turns - 1 ELSE turns)

Unstreamed == INSTANCE ResponseLoop WITH
                pc <- IF pc = "read" THEN "await" ELSE pc,
                calls <- IF pc = "read" \/ status = "failed" THEN <<>> ELSE calls,
                output <- UnstreamedOutput

\* Streaming changes nothing: the items of the response, their order, the searches
\* that are run, the calls upstream and the status are those of _complete_inner for
\* the same answers.
ImplementsLoop == Unstreamed!Spec

\* A response ends.
ResponseEnds == <>(pc = "over")
=============================================================================
