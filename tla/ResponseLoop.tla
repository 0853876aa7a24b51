---------------------------- MODULE ResponseLoop ----------------------------
(***************************************************************************)
(* ResponsesService._complete_inner: one /responses request that is not    *)
(* streamed.  Up to MaxTurns times the model is asked; as long as all it   *)
(* wants is searches, they are run and it is asked again with the results. *)
(* One action is what happens between two awaits.                          *)
(***************************************************************************)
EXTENDS ToolLoop

VARIABLES
  conf,      \* the settings of the request
  pc, turns, \* progress, and the calls upstream so far
  chat,      \* chat_payload
  calls,     \* tool_calls of the answer
  left,      \* those of them that remain to be handled
  searches,  \* searches_done
  output, status

vars == <<conf, pc, turns, chat, calls, left, searches, output, status>>

Init ==
  /\ conf \in Settings
  /\ pc = "post" /\ turns = 0
  /\ chat \in Openings(conf)
  /\ calls = <<>> /\ left = 0 /\ searches = 0
  /\ output = <<>> /\ status = "in_progress"

Post ==
  /\ pc = "post"
  /\ pc' = "await" /\ turns' = turns + 1
  /\ calls' = <<>>
  /\ UNCHANGED <<conf, chat, left, searches, output, status>>

\* What an answer puts into the output before its calls are looked at.
Said(think, text) ==
  (IF think THEN <<Item("reasoning", turns)>> ELSE <<>>)
    \o (IF text THEN <<Item("message", turns)>> ELSE <<>>)

Ends(s) == pc' = "over" /\ status' = s

Search(think, text, tools) ==
  /\ pc = "await" /\ AllSearches(conf, tools)
  /\ pc' = "search" /\ calls' = tools
  /\ chat' = Requested(chat, tools) /\ left' = Len(tools)
  /\ output' = output \o Said(think, text)
  /\ UNCHANGED <<conf, turns, searches, status>>

\* No calls, or calls for the client: whatever else was called is left undone.
Conclude(think, text, tools, cut) ==
  /\ pc = "await" /\ ~AllSearches(conf, tools)
  /\ Ends(IF cut THEN "incomplete" ELSE "completed") /\ calls' = tools
  /\ output' = output \o Said(think, text) \o HandedOver(conf, tools, turns)
  /\ UNCHANGED <<conf, turns, chat, left, searches>>

\* A connection error, an error status, or an exception: nothing is returned.
Fail ==
  /\ pc \in {"await", "searching"}
  /\ Ends("failed")
  /\ output' = <<>> /\ calls' = <<>>
  /\ UNCHANGED <<conf, turns, chat, left, searches>>

RunSearch ==
  /\ pc = "search" /\ left > 0 /\ ~Spent(conf, searches)
  /\ searches' = searches + 1
  /\ pc' = "searching"
  /\ UNCHANGED <<conf, turns, chat, calls, left, output, status>>

\* The result, condensed by map-reduce calls when it is large.
TakeResult ==
  /\ pc = "searching"
  /\ output' = Append(output, Item("search", turns))
  /\ chat' = Answered(chat) /\ left' = left - 1
  /\ pc' = "search"
  /\ UNCHANGED <<conf, turns, calls, searches, status>>

Decline ==
  /\ pc = "search" /\ left > 0 /\ Spent(conf, searches)
  /\ chat' = Answered(chat) /\ left' = left - 1
  /\ UNCHANGED <<conf, pc, turns, calls, searches, output, status>>

\* Without agent_loop the results themselves are the answer.
Report ==
  /\ pc = "search" /\ left = 0 /\ ~conf.agent
  /\ output' = Append(output, Item("message", turns))
  /\ Ends("completed")
  /\ UNCHANGED <<conf, turns, chat, calls, left, searches>>

NextTurn ==
  /\ pc = "search" /\ left = 0 /\ conf.agent
  /\ chat' = Prepared(conf, searches, chat)
  /\ IF turns < MaxTurns THEN pc' = "post" /\ UNCHANGED status ELSE Ends("incomplete")
  /\ UNCHANGED <<conf, turns, calls, left, searches, output>>

Next ==
  \/ Post \/ Fail \/ RunSearch \/ TakeResult \/ Decline \/ Report \/ NextTurn
  \/ \E tools \in Calls, think, text \in BOOLEAN : Search(think, text, tools)
  \/ \E tools \in Calls, think, text, cut \in BOOLEAN : Conclude(think, text, tools, cut)

Spec == Init /\ [][Next]_vars
=============================================================================
