------------------------------ MODULE ToolLoop ------------------------------
(***************************************************************************)
(* What the two copies of the tool loop of ResponsesService have in common *)
(* (_complete_inner and _stream_inner of services/responses_service.py):   *)
(* the settings they run under, the answers a model may give, and the part *)
(* of chat_payload that steers the next call upstream.                     *)
(***************************************************************************)
EXTENDS Integers, Sequences, FiniteSets

CONSTANTS
  MaxTurns,   \* MAX_TOOL_ITERATIONS
  MaxCalls,   \* bound: tool calls in one answer
  Budgets     \* values of max_searches; 0 is unlimited

ASSUME LoopAssumption ==
  MaxTurns \in Nat \ {0} /\ MaxCalls \in Nat /\ Budgets \subseteq Nat

\* agent_loop, and web_search_active: the request asked for searches and may.
Settings == [budget : Budgets, active : BOOLEAN, agent : BOOLEAN]

\* A tool call names one of the proxy's tools, or one of the client's.
CallKinds == {"search", "client"}
Calls == UNION {[1..n -> CallKinds] : n \in 0..MaxCalls}

\* web_search_calls and not client_calls
AllSearches(conf, calls) ==
  conf.active /\ calls # <<>> /\ \A i \in DOMAIN calls : calls[i] = "search"

\* client_calls, by their places: without web search, every call is the client's.
ClientCalls(conf, calls) == {i \in DOMAIN calls : conf.active => calls[i] = "client"}

\* Items of the response's output, and the turn of the loop that made them.
Kinds == {"reasoning", "message", "search", "call"}
Item(kind, turn) == [kind |-> kind, turn |-> turn]

\* function_call items for what is left to the client.
HandedOver(conf, calls, turn) ==
  [k \in 1..Cardinality(ClientCalls(conf, calls)) |-> Item("call", turn)]

-----------------------------------------------------------------------------
(* chat_payload: tool calls without a tool message yet, whether tools are  *)
(* offered, and whether tool_choice forces one.                            *)

Chats == [unanswered : 0..MaxCalls, tools : BOOLEAN, forced : BOOLEAN]

Openings(conf) ==
  {chat \in Chats : chat.unanswered = 0 /\ (conf.active => chat.tools) /\ (chat.forced => chat.tools)}

\* The assistant message is appended, with all of its tool calls.
Requested(chat, calls) == [chat EXCEPT !.unanswered = Len(calls)]

\* A tool message is appended: a result, or SEARCH_BUDGET_MESSAGE.
Answered(chat) == [chat EXCEPT !.unanswered = @ - 1]

Spent(conf, searches) == conf.budget > 0 /\ searches >= conf.budget

\* Mutant: tools stay on offer when the budget is spent.
PreparedOffering(conf, searches, chat) == [chat EXCEPT !.forced = FALSE]

\* _strip_tools once the budget is spent, else _reset_forced_tool_choice.
Prepared(conf, searches, chat) ==
  [unanswered |-> chat.unanswered, tools |-> chat.tools /\ ~Spent(conf, searches), forced |-> FALSE]
=============================================================================
