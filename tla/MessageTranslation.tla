-------------------------- MODULE MessageTranslation --------------------------
(***************************************************************************)
(* The translators of whole requests and responses between the Anthropic   *)
(* Messages API and the chat completions API, in                           *)
(* services/anthropic_translation.py.                                      *)
(*                                                                         *)
(* A text is the sequence of the pieces it was joined from; a tool call, a *)
(* result or an image is known by its id. The parameters that are copied   *)
(* from one request to the other are left out.                             *)
(***************************************************************************)
EXTENDS Integers, Sequences, SequencesExt, FinishReasons

\* Blocks of an Anthropic message; texts and images are parts of a chat message, too.
Block(type, text, id) == [type |-> type, text |-> text, id |-> id]
Text(text) == Block("text", text, None)
Thinking(text) == Block("thinking", text, None)
Image(id) == Block("image", <<>>, id)
ToolUse(id) == Block("tool_use", <<>>, id)
ToolResult(id) == Block("tool_result", <<>>, id)

\* The content of an Anthropic message is a sequence of blocks, or a string, here a
\* plain one: a single text.
Message(role, content) == [role |-> role, content |-> content, plain |-> FALSE]
PlainMessage(role, text) == [role |-> role, content |-> <<Text(text)>>, plain |-> TRUE]

\* Chat messages: parts, tool calls of an assistant, the call a tool message answers.
ChatMessage(role, parts, calls, answers) ==
  [role |-> role, parts |-> parts, calls |-> calls, answers |-> answers]
Response(reasoning, text, calls, finish) ==
  [reasoning |-> reasoning, text |-> text, calls |-> calls, finish |-> finish]
AnthropicResponse(content, stop) == [content |-> content, stop |-> stop]

\* The blocks of some types, in their order.
OfType(blocks, types) ==
  FlattenSeq([i \in DOMAIN blocks |-> IF blocks[i].type \in types THEN <<blocks[i]>> ELSE <<>>])

\* Mutant: calls are numbered.
IdsByPosition(blocks) == [i \in DOMAIN blocks |-> i]

Ids(blocks) == [i \in DOMAIN blocks |-> blocks[i].id]
Joined(blocks) == FlattenSeq([i \in DOMAIN blocks |-> blocks[i].text])
TextOf(blocks) == Joined(OfType(blocks, {"text"}))
Optional(text) == IF text = <<>> THEN <<>> ELSE <<Text(text)>>

-----------------------------------------------------------------------------
(* Anthropic to chat                                                       *)

\* An assistant message that has nothing but thoughts is left out.
AssistantToChat(content) ==
  LET calls == Ids(OfType(content, {"tool_use"}))
  IN  IF TextOf(content) = <<>> /\ calls = <<>> THEN <<>>
      ELSE <<ChatMessage("assistant", Optional(TextOf(content)), calls, None)>>

ToolMessages(content) ==
  LET results == OfType(content, {"tool_result"})
  IN  [i \in DOMAIN results |-> ChatMessage("tool", <<>>, <<>>, results[i].id)]

\* Mutant: the blocks of a user message are translated in the order they are in.
UserToChatInOrder(content) ==
  FlattenSeq([i \in DOMAIN content |->
    IF content[i].type = "tool_result" THEN ToolMessages(<<content[i]>>)
    ELSE <<ChatMessage("user", <<content[i]>>, <<>>, None)>>])

\* Results become tool messages, which come first; the rest is one user message, whose
\* texts are joined unless there is an image among them.
UserToChat(content) ==
  LET parts == OfType(content, {"text", "image"})
      rest == IF parts = <<>> THEN <<>>
              ELSE IF OfType(parts, {"image"}) = <<>>
              THEN <<ChatMessage("user", <<Text(Joined(parts))>>, <<>>, None)>>
              ELSE <<ChatMessage("user", parts, <<>>, None)>>
  IN  ToolMessages(content) \o rest

\* _anthropic_message_to_chat
MessageToChat(message) ==
  IF message.plain THEN <<ChatMessage(message.role, message.content, <<>>, None)>>
  ELSE IF message.role = "assistant" THEN AssistantToChat(message.content)
  ELSE UserToChat(message.content)

\* anthropic_request_to_chat
RequestToChat(system, messages) ==
  (IF system = <<>> THEN <<>> ELSE <<ChatMessage("system", <<Text(system)>>, <<>>, None)>>)
    \o FlattenSeq([i \in DOMAIN messages |-> MessageToChat(messages[i])])

\* anthropic_response_to_chat
ResponseToChat(response) ==
  Response(Joined(OfType(response.content, {"thinking"})), TextOf(response.content),
           Ids(OfType(response.content, {"tool_use"})), FinishReason(response.stop))

-----------------------------------------------------------------------------
(* Chat to Anthropic                                                       *)

\* Mutant: every message is a turn of its own.
AppendBlocksApart(messages, role, blocks) ==
  IF blocks = <<>> THEN messages ELSE Append(messages, Message(role, blocks))

\* _append_blocks
AppendBlocks(messages, role, blocks) ==
  IF blocks = <<>> THEN messages
  ELSE IF messages # <<>> /\ Last(messages).role = role
  THEN [messages EXCEPT ![Len(messages)].content = @ \o blocks]
  ELSE Append(messages, Message(role, blocks))

\* Empty texts are left out.
Filled(parts) ==
  FlattenSeq([i \in DOMAIN parts |->
    IF parts[i].type = "image" \/ parts[i].text # <<>> THEN <<parts[i]>> ELSE <<>>])

\* Mutant: an assistant that calls tools has nothing to say.
BlocksOfCalls(m) ==
  CASE m.role = "tool"      -> <<ToolResult(m.answers)>>
    [] m.role = "assistant" -> IF m.calls = <<>> THEN Optional(TextOf(m.parts))
                               ELSE [i \in DOMAIN m.calls |-> ToolUse(m.calls[i])]
    [] m.role = "user"      -> Filled(m.parts)

\* The blocks of one chat message: an assistant's text before its calls.
BlocksOf(m) ==
  CASE m.role = "tool"      -> <<ToolResult(m.answers)>>
    [] m.role = "assistant" -> Optional(TextOf(m.parts)) \o [i \in DOMAIN m.calls |-> ToolUse(m.calls[i])]
    [] m.role = "user"      -> Filled(m.parts)

TurnOf(m) == IF m.role = "assistant" THEN "assistant" ELSE "user"

IsSystem(m) == m.role \in {"system", "developer"}

Placeholder == Message("user", <<Text(<<0>>)>>)

\* Mutant: only an empty conversation gets a user turn.
BegunIfEmpty(messages) == IF messages = <<>> THEN <<Placeholder>> ELSE messages

\* A conversation that does not begin with the user gets a turn that does.
Begun(messages) ==
  IF messages = <<>> \/ Head(messages).role # "user" THEN <<Placeholder>> \o messages ELSE messages

\* A message more; those of the system are kept apart.
WithMessage(messages, m) ==
  IF IsSystem(m) THEN messages ELSE AppendBlocks(messages, TurnOf(m), BlocksOf(m))

Turns(chat) ==
  LET turns[n \in 0..Len(chat)] == IF n = 0 THEN <<>> ELSE WithMessage(turns[n - 1], chat[n])
  IN  turns[Len(chat)]

SystemOf(chat) ==
  FlattenSeq([i \in DOMAIN chat |-> IF IsSystem(chat[i]) THEN TextOf(chat[i].parts) ELSE <<>>])

\* chat_request_to_anthropic
RequestToAnthropic(chat) == [system |-> SystemOf(chat), messages |-> Begun(Turns(chat))]

\* Mutant: the reason is translated, and that is all.
StopOfReported(response) == StopReason(response.finish)

\* Some servers report "stop" although they call tools.
StopOf(response) ==
  IF StopReason(response.finish) = "end_turn" /\ response.calls # <<>> THEN "tool_use"
  ELSE StopReason(response.finish)

\* chat_response_to_anthropic
ResponseToAnthropic(response) ==
  AnthropicResponse(
    (IF response.reasoning = <<>> THEN <<>> ELSE <<Thinking(response.reasoning)>>)
      \o Optional(response.text)
      \o [i \in DOMAIN response.calls |-> ToolUse(response.calls[i])],
    StopOf(response))
=============================================================================
