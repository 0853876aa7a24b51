----------------------------- MODULE Conversation -----------------------------
(***************************************************************************)
(* A conversation through the translators: a client of one API talks to a  *)
(* server of the other, in requests that carry all that was said, and      *)
(* calls the tools the server asks for. The messages are those the client  *)
(* keeps, in the terms of its own API.                                     *)
(***************************************************************************)
EXTENDS MessageTranslation, FiniteSets

CONSTANTS
  MaxMessages,  \* bound: messages the client keeps
  MaxCalls      \* bound: tool calls in one answer

ASSUME ConversationAssumption == MaxMessages \in Nat /\ MaxCalls \in Nat

VARIABLES
  api,       \* the client's API, "anthropic" or "chat"
  system,    \* the system prompt of an Anthropic client
  messages,  \* what the client keeps
  turn,      \* whose turn it is, "client" or "server"; "cut" after an answer that was cut
             \* short in its calls, "stuck" after one whose calls the client does not see
  open,      \* tool calls the client is going to answer
  named,     \* ids and pieces used so far
  said       \* history: everything that was said, in order

talkVars == <<api, system, messages, turn, open, named, said>>

TalkInit ==
  /\ api \in {"anthropic", "chat"}
  /\ system \in IF api = "anthropic" THEN {<<>>, <<1>>} ELSE {<<>>}
  /\ messages = <<>>
  /\ turn = "client"
  /\ open = <<>>
  /\ named = 1
  /\ said = IF system = <<>> THEN <<>> ELSE << <<"system", "text", 1>> >>

-----------------------------------------------------------------------------
(* What blocks and messages say; thoughts are not part of it.              *)

Atoms(role, block) ==
  IF block.type = "text" THEN [i \in DOMAIN block.text |-> <<role, "text", block.text[i]>>]
  ELSE IF block.type = "thinking" THEN <<>>
  ELSE << <<role, block.type, block.id>> >>

\* Results are said before what comes with them, and texts before calls.
InOrder(blocks) ==
  OfType(blocks, {"tool_result"}) \o OfType(blocks, {"text", "image"}) \o OfType(blocks, {"tool_use"})

SaidIn(role, blocks) ==
  FlattenSeq([i \in DOMAIN InOrder(blocks) |-> Atoms(role, InOrder(blocks)[i])])

Spoken(request) ==
  [i \in DOMAIN request.system |-> <<"system", "text", request.system[i]>>]
    \o FlattenSeq([i \in DOMAIN request.messages |-> SaidIn(request.messages[i].role, request.messages[i].content)])

ChatBlocks(m) ==
  m.parts \o [i \in DOMAIN m.calls |-> ToolUse(m.calls[i])]
    \o (IF m.role = "tool" THEN <<ToolResult(m.answers)>> ELSE <<>>)

SpokenInChat(chat) ==
  FlattenSeq([i \in DOMAIN chat |-> SaidIn(IF chat[i].role = "tool" THEN "user" ELSE chat[i].role, ChatBlocks(chat[i]))])

\* The request as the server gets it, and as it would be after the way back.
Anthropic == IF api = "chat" THEN RequestToAnthropic(messages)
             ELSE RequestToAnthropic(RequestToChat(system, messages))
Chat == IF api = "anthropic" THEN RequestToChat(system, messages)
        ELSE RequestToChat(Anthropic.system, Anthropic.messages)

-----------------------------------------------------------------------------
(* The two clients.                                                        *)

Keep(more, atoms) ==
  /\ Len(messages) + Len(more) <= MaxMessages
  /\ messages' = messages \o more
  /\ said' = said \o atoms

\* An Anthropic client answers all calls in one message, in any order, and may say
\* something before the results, between or after them; or it just says something.
AnthropicSpeaks(content) ==
  /\ api = "anthropic" /\ turn = "client"
  /\ Keep(<<Message("user", content)>>, SaidIn("user", content))
  /\ open' = <<>> /\ turn' = "server" /\ named' = named + 2
  /\ UNCHANGED <<api, system>>

Utterances(n) == {Text(<<n>>), Text(<<>>), Image(n)}

Shuffled == {[i \in DOMAIN open |-> ToolResult(open[p[i]])] :
               p \in {q \in [DOMAIN open -> DOMAIN open] : IsInjective(q)}}

Contents(n) ==
  IF open = <<>>
  THEN {<<u>> : u \in Utterances(n)} \cup {<<u, Text(<<n + 1>>)>> : u \in Utterances(n)}
  ELSE Shuffled \cup {InsertAt(r, i, u) : r \in Shuffled, i \in 1..(Len(open) + 1), u \in Utterances(n)}

AnthropicSpeaksPlainly ==
  /\ api = "anthropic" /\ turn = "client" /\ open = <<>>
  /\ Keep(<<PlainMessage("user", <<named + 1>>)>>, << <<"user", "text", named + 1>> >>)
  /\ turn' = "server" /\ named' = named + 1
  /\ UNCHANGED <<api, system, open>>

\* A chat client answers each call in a message of its own.
ChatAnswersCalls ==
  /\ api = "chat" /\ turn = "client" /\ open # <<>>
  /\ Keep([i \in DOMAIN open |-> ChatMessage("tool", <<>>, <<>>, open[i])],
          [i \in DOMAIN open |-> <<"user", "tool_result", open[i]>>])
  /\ open' = <<>>
  /\ UNCHANGED <<api, system, turn, named>>

\* Its other messages come in any order: several of the user, system prompts in between,
\* assistant messages of its own making.
ChatSpeaks(role, part) ==
  /\ api = "chat" /\ turn = "client" /\ open = <<>>
  /\ role # "user" => part.type = "text"
  /\ Keep(<<ChatMessage(role, <<part>>, <<>>, None)>>, SaidIn(role, <<part>>))
  /\ named' = named + 1
  /\ UNCHANGED <<api, system, turn, open>>

ChatSends ==
  /\ api = "chat" /\ turn = "client" /\ open = <<>> /\ messages # <<>>
  /\ Last(messages).role # "assistant"
  /\ turn' = "server"
  /\ UNCHANGED <<api, system, messages, open, named, said>>

-----------------------------------------------------------------------------
(* The two servers.                                                        *)

NewIds(k) == [i \in 1..k |-> named + 1 + i]

\* A client calls tools if it is told that the answer ended with that.
After(calls, told, cut) ==
  IF calls = <<>> \/ told THEN "client" ELSE IF cut THEN "cut" ELSE "stuck"

\* A chat server answers an Anthropic client.
ChatServerAnswers(reasoning, text, k, finish) ==
  /\ api = "anthropic" /\ turn = "server"
  /\ finish = "tool_calls" => k > 0
  /\ LET response == Response(reasoning, text, NewIds(k), finish)
         answer == ResponseToAnthropic(response)
         calls == Ids(OfType(answer.content, {"tool_use"}))
     IN  /\ Keep(<<Message("assistant", answer.content)>>,
                 SaidIn("assistant", Optional(text) \o [i \in 1..k |-> ToolUse(NewIds(k)[i])]))
         /\ open' = calls
         /\ turn' = After(calls, answer.stop = "tool_use", finish = "length")
  /\ named' = named + 1 + k
  /\ UNCHANGED <<api, system>>

\* An Anthropic server answers a chat client, with blocks in any order.
AnthropicServerAnswers(content, stop) ==
  /\ api = "chat" /\ turn = "server"
  /\ LET response == ResponseToChat(AnthropicResponse(content, stop))
     IN  /\ Keep(<<ChatMessage("assistant", Optional(response.text), response.calls, None)>>,
                 SaidIn("assistant", content))
         /\ open' = response.calls
         /\ turn' = After(response.calls, response.finish = "tool_calls", stop = "max_tokens")
  /\ named' = named + 1 + MaxCalls
  /\ UNCHANGED <<api, system>>

CallingBlocks(k, n) ==
  LET calls == [i \in 1..k |-> ToolUse(n + 1 + i)]
      text == Text(<<n + 1>>)
      thought == Thinking(<<n + 1>>)
  IN  {calls, <<text>> \o calls, calls \o <<text>>, <<thought>> \o calls, <<thought, text>> \o calls}

ServerBlocks(n) == UNION {CallingBlocks(k, n) : k \in 0..MaxCalls}

TalkNext ==
  \/ \E content \in Contents(named + 1) : AnthropicSpeaks(content)
  \/ AnthropicSpeaksPlainly
  \/ ChatAnswersCalls
  \/ \E role \in {"system", "user", "assistant"}, part \in Utterances(named + 1) : ChatSpeaks(role, part)
  \/ ChatSends
  \/ \E reasoning, text \in {<<>>, <<named + 1>>}, k \in 0..MaxCalls, finish \in {"stop", "length", "tool_calls"} :
       ChatServerAnswers(reasoning, text, k, finish)
  \/ \E content \in ServerBlocks(named) :
       \E stop \in IF OfType(content, {"tool_use"}) = <<>> THEN {"end_turn", "max_tokens"} ELSE {"tool_use", "max_tokens"} :
         AnthropicServerAnswers(content, stop)

TalkSpec == TalkInit /\ [][TalkNext]_talkVars

-----------------------------------------------------------------------------
(* Properties                                                              *)

\* Types; the calls that are open are those of the last message, and all are answered
\* by the time the server is asked.
TalkTypeOK ==
  /\ api \in {"anthropic", "chat"} /\ turn \in {"client", "server", "cut", "stuck"}
  /\ Len(messages) <= MaxMessages
  /\ IsInjective(open)
  /\ turn = "server" => open = <<>>
  /\ open # <<>> => Last(messages).role = "assistant" /\ \E i \in DOMAIN said : said[i] = <<"assistant", "tool_use", Last(open)>>

\* A client that is asked to call tools sees it, also when a chat server gives stop for the
\* reason its answer ends with; unless the answer was cut short by its length.
CallsSeen == turn # "stuck"

\* What goes to a chat server is well formed: the messages after an assistant's calls are
\* the answers to them, one for each, and there are no other answers.
Answers(chat, i) == {j \in DOMAIN chat : j > i /\ j <= i + Len(chat[i].calls)}

ChatWellFormed ==
  open = <<>> =>
    /\ \A i \in DOMAIN Chat :
         Chat[i].calls # <<>> =>
           /\ {Chat[j].answers : j \in Answers(Chat, i)} = ToSet(Chat[i].calls)
           /\ \A j \in Answers(Chat, i) : Chat[j].role = "tool"
    /\ \A j \in DOMAIN Chat : Chat[j].role = "tool" => \E i \in DOMAIN Chat : j \in Answers(Chat, i)

\* What goes to an Anthropic server is well formed: user and assistant take turns, the user
\* begins, nobody's turn is empty; a turn's calls are answered in the next turn, which
\* begins with the results and has no others.
CallsIn(message) == ToSet(Ids(OfType(message.content, {"tool_use"})))
ResultsIn(message) == ToSet(Ids(OfType(message.content, {"tool_result"})))

AnthropicWellFormed ==
  LET turns == Anthropic.messages
      Before(i) == IF i = 1 THEN {} ELSE CallsIn(turns[i - 1])
  IN  /\ turns # <<>>
      /\ \A i \in DOMAIN turns :
           /\ turns[i].role = (IF i % 2 = 1 THEN "user" ELSE "assistant")
           /\ turns[i].content # <<>>
           /\ ResultsIn(turns[i]) = Before(i)
           /\ \A k \in 1..Cardinality(Before(i)) : turns[i].content[k].type = "tool_result"
      /\ open = <<>> => CallsIn(Last(turns)) = {}

\* Nothing that was said is lost, repeated, or put into another's mouth, on the way there,
\* on the way there and back, and in the answers, which are in the client's messages. System
\* prompts go before the rest; the placeholder, whose text is 0, is nobody's.
Heard(atoms, roles) ==
  FlattenSeq([i \in DOMAIN atoms |->
    IF atoms[i][1] \in roles /\ atoms[i][3] # 0 THEN <<atoms[i]>> ELSE <<>>])

TranscriptKept ==
  \A roles \in {{"system"}, {"user", "assistant"}} :
    /\ Heard(SpokenInChat(Chat), roles) = Heard(said, roles)
    /\ Heard(Spoken(Anthropic), roles) = Heard(said, roles)
=============================================================================
