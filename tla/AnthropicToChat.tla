--------------------------- MODULE AnthropicToChat ---------------------------
(***************************************************************************)
(* AnthropicToChatStream of services/anthropic_translation.py: what one    *)
(* translator makes of the events of an Anthropic message. The other half  *)
(* of ChatToAnthropic, whose events it reads.                              *)
(***************************************************************************)
EXTENDS ChatToAnthropic

\* What it puts out: the beginning, a piece of the message (the tool it belongs to),
\* the beginning of a tool call, a finish_reason, usage, an error, and [DONE].
Said(type, value, tool) == [type |-> type, value |-> value, tool |-> tool]
RoleSaid == Said("role", None, None)
FinishSaid(reason) == Said("finish", reason, None)
UsageSaid(usage) == Said("usage", usage, None)
ErrorSaid == Said("error", None, None)
DoneSaid == Said("done", None, None)

NewAnthropicToChat ==
  [role |-> FALSE, tools |-> <<>>, next |-> 0, finish |-> None, usage |-> FALSE,
   done |-> FALSE, out |-> <<>>]

Say(t, chunk) == [t EXCEPT !.out = Append(@, chunk)]

\* _role_chunk
Introduced(t) == IF t.role THEN t ELSE [Say(t, RoleSaid) EXCEPT !.role = TRUE]

\* Tools are numbered in the order in which their blocks start.
BlockStarts(t, event) ==
  IF event.kind # "tool_use" THEN Introduced(t)
  ELSE [Say(Introduced(t), Said("tool", None, t.next))
          EXCEPT !.next = t.next + 1,
                 !.tools = [b \in DOMAIN @ \cup {event.index} |-> IF b = event.index THEN t.next ELSE @[b]]]

\* Mutant: the newest tool is meant.
ToolOfNewest(t, block) == IF t.next = 0 THEN 0 ELSE t.next - 1

\* _block_to_tool_index.get(index, 0)
ToolOf(t, block) == IF block \in DOMAIN t.tools THEN t.tools[block] ELSE 0

BlockGrows(t, event) ==
  Say(Introduced(t), Said(event.kind, event.piece, IF event.kind = "tool_use" THEN ToolOf(t, event.index) ELSE None))

MessageEnds(t, event) ==
  [Say(t, FinishSaid(FinishReason(event.kind)))
     EXCEPT !.finish = FinishReason(event.kind), !.usage = @ \/ event.piece]

\* finalize
HangUp(t) ==
  LET told == IF t.finish = None THEN Say(t, FinishSaid("stop")) ELSE t
  IN  IF t.done THEN t ELSE [Say(Say(told, UsageSaid(t.usage)), DoneSaid) EXCEPT !.done = TRUE]

\* Mutant: an error is all there is to say.
ExcuseBare(t) == Say(t, ErrorSaid)

\* The handler of an exception says so without asking whether the stream was done.
Excuse(t) == Say(Say(t, ErrorSaid), DoneSaid)

\* process_event
ProcessEvent(t, event) ==
  CASE event.type = "message_start" -> Introduced(t)
    [] event.type = "block_start"   -> BlockStarts(t, event)
    [] event.type = "block_delta"   -> BlockGrows(t, event)
    [] event.type = "block_stop"    -> t
    [] event.type = "message_delta" -> MessageEnds(t, event)
    [] event.type = "message_stop"  -> HangUp(t)
    [] event.type = "error"         -> [Excuse(t) EXCEPT !.done = TRUE]
=============================================================================
