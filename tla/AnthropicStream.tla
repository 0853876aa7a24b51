--------------------------- MODULE AnthropicStream ---------------------------
(***************************************************************************)
(* A streamed answer on its way through both translators: a chat server    *)
(* streams it to AnthropicService._translated_stream, which serves it as   *)
(* an Anthropic stream; ProxyService._anthropic_chat_stream reads that and *)
(* serves it as a chat stream to a client. Each connection may break.      *)
(* Every translator is thereby checked against one that is to undo it, and *)
(* an Anthropic client, the reader, looks at the events between them.      *)
(***************************************************************************)
EXTENDS AnthropicToChat, FiniteSets, SequencesExt

CONSTANTS
  MaxChunks,    \* bound: chunks of the answer that bear something
  MaxWire,      \* bound: events under way
  ToolIndices,  \* indices a server gives its tool calls
  Finishes      \* finish_reasons it gives

ASSUME StreamAssumption ==
  /\ MaxChunks \in Nat /\ MaxWire \in Nat /\ ToolIndices \subseteq Nat
  /\ Finishes \subseteq DOMAIN FinishToStop

VARIABLES
  server,   \* the server's answer, and whether it is still answering
  up,       \* the translator of _translated_stream
  upState,  \* whether its generator is "running" or "done"
  wire,     \* events on the way from one to the other
  down,     \* the translator of _anthropic_chat_stream
  downState, \* whether its generator is "running" or "done"
  client,   \* the message as the client assembles it
  reader    \* history: the events seen so far, as an Anthropic client reads them

vars == <<server, up, upState, wire, down, downState, client, reader>>

NoPieces == [thinking |-> <<>>, text |-> <<>>, tools |-> <<>>]

Init ==
  /\ server = [state |-> "answering", sent |-> 0, order |-> <<>>, message |-> NoPieces,
               finish |-> None, usage |-> FALSE, complained |-> FALSE]
  /\ up = NewChatToAnthropic
  /\ upState = "running"
  /\ wire = <<>>
  /\ down = NewAnthropicToChat
  /\ downState = "running"
  /\ client = [message |-> NoPieces, finish |-> None, usage |-> FALSE,
               error |-> FALSE, done |-> FALSE]
  /\ reader = [phase |-> "none", blocks |-> <<>>, open |-> None]

-----------------------------------------------------------------------------
(* The chat server. Its nth chunk bears the piece n, and may be the last.  *)

Shapes(n, reason) ==
  {Chunk(n, None, <<>>, reason, FALSE), Chunk(None, n, <<>>, reason, FALSE)}
    \cup {Chunk(None, None, <<delta>>, reason, FALSE) : delta \in [index : ToolIndices, arguments : {n, None}]}
    \cup {Chunk(None, n, <<ToolDelta(pair[1], n), ToolDelta(pair[2], n)>>, reason, FALSE) :
            pair \in ToolIndices \X ToolIndices}

Grown(pieces, piece) == IF piece = None THEN pieces ELSE Append(pieces, piece)

\* The tool calls so far: the indices of the tools in the order in which they appear, and
\* their pieces, in that order.
CallsWith(calls, delta) ==
  LET known == delta.index \in ToSet(calls.order)
      order == IF known THEN calls.order ELSE Append(calls.order, delta.index)
      tools == IF known THEN calls.tools ELSE Append(calls.tools, <<>>)
  IN  [order |-> order,
       tools |-> [k \in DOMAIN tools |->
                    IF order[k] = delta.index THEN Grown(tools[k], delta.arguments) ELSE tools[k]]]

AllCalls(calls, deltas) ==
  LET told[n \in 0..Len(deltas)] == IF n = 0 THEN calls ELSE CallsWith(told[n - 1], deltas[n])
  IN  told[Len(deltas)]

\* A chunk reaches _translated_stream, which yields what it translates to.
Deliver(chunk) ==
  LET next == ProcessChunk(up, chunk)
  IN  /\ up' = [next EXCEPT !.out = <<>>]
      /\ wire' = wire \o next.out
      /\ UNCHANGED <<upState, down, downState, client, reader>>

Answering ==
  /\ server.state = "answering" /\ ~server.complained
  /\ upState = "running" /\ Len(wire) < MaxWire

ServerSpeaks(chunk) ==
  /\ Answering /\ server.finish = None /\ server.sent < MaxChunks
  /\ LET calls == AllCalls([order |-> server.order, tools |-> server.message.tools], chunk.tools)
     IN  server' = [server EXCEPT !.sent = @ + 1, !.finish = chunk.finish, !.order = calls.order,
                                  !.message = [thinking |-> Grown(@.thinking, chunk.reasoning),
                                               text     |-> Grown(@.text, chunk.content),
                                               tools    |-> calls.tools]]
  /\ Deliver(chunk)

ServerFinishes(reason) ==
  /\ Answering /\ server.finish = None
  /\ server' = [server EXCEPT !.finish = reason]
  /\ Deliver(Chunk(None, None, <<>>, reason, FALSE))

\* stream_options.include_usage: a chunk without choices.
ServerReports ==
  /\ Answering /\ ~server.usage /\ server.finish # None
  /\ server' = [server EXCEPT !.usage = TRUE]
  /\ Deliver(Chunk(None, None, <<>>, None, TRUE))

\* A server that fails half way says so in a chunk, and then ends its stream; neither
\* translator passes it on.
ServerComplains ==
  /\ Answering
  /\ server' = [server EXCEPT !.complained = TRUE]
  /\ Deliver(ErrorChunk)

\* [DONE], or the end of the stream: finalize.
UpEnds ==
  LET next == Finalize(up)
  IN  /\ upState' = "done"
      /\ up' = [next EXCEPT !.out = <<>>]
      /\ wire' = wire \o next.out

ServerEnds ==
  /\ server.state = "answering" /\ upState = "running"
  /\ server' = [server EXCEPT !.state = "ended"]
  /\ UpEnds
  /\ UNCHANGED <<down, downState, client, reader>>

\* Mutant: a broken connection ends the stream like any other end.
UpBreaksQuietly == UpEnds

\* An exception, or a status that is not 200: the error event is all that follows.
UpBreaks ==
  /\ upState' = "done"
  /\ wire' = wire \o Failed(up).out
  /\ UNCHANGED up

ServerBreaks ==
  /\ server.state = "answering" /\ upState = "running"
  /\ server' = [server EXCEPT !.state = "broken"]
  /\ UpBreaks
  /\ UNCHANGED <<down, downState, client, reader>>

-----------------------------------------------------------------------------
(* The client, which reads chat chunks up to [DONE].                       *)

Receives(c, chunk) ==
  IF c.done THEN c
  ELSE CASE chunk.type \in {"thinking", "text"} -> [c EXCEPT !.message[chunk.type] = Append(@, chunk.value)]
         [] chunk.type = "role"     -> c
         [] chunk.type = "tool"     -> [c EXCEPT !.message.tools = Append(@, <<>>)]
         [] chunk.type = "tool_use" -> [c EXCEPT !.message.tools[chunk.tool + 1] = Append(@, chunk.value)]
         [] chunk.type = "finish"   -> [c EXCEPT !.finish = chunk.value]
         [] chunk.type = "usage"    -> [c EXCEPT !.usage = chunk.value]
         [] chunk.type = "error"    -> [c EXCEPT !.error = TRUE]
         [] chunk.type = "done"     -> [c EXCEPT !.done = TRUE]

Hears(c, said) ==
  LET heard[n \in 0..Len(said)] == IF n = 0 THEN c ELSE Receives(heard[n - 1], said[n])
  IN  heard[Len(said)]

\* The translator's output reaches the client.
Serve(next) ==
  /\ down' = [next EXCEPT !.out = <<>>]
  /\ client' = Hears(client, next.out)

\* What an Anthropic client makes of an event: the blocks so far, and the open one.
Reads(r, event) ==
  CASE event.type = "message_start" -> [r EXCEPT !.phase = "content"]
    [] event.type = "block_start"   -> [r EXCEPT !.blocks = Append(@, event.kind), !.open = event.index]
    [] event.type = "block_delta"   -> r
    [] event.type = "block_stop"    -> [r EXCEPT !.open = None]
    [] event.type = "message_delta" -> [r EXCEPT !.phase = "ending"]
    [] event.type \in {"message_stop", "error"} -> [r EXCEPT !.phase = "over"]

\* The next event arrives in _anthropic_chat_stream.
DownReads ==
  /\ downState = "running" /\ wire # <<>>
  /\ Serve(ProcessEvent(down, Head(wire)))
  /\ reader' = Reads(reader, Head(wire))
  /\ wire' = Tail(wire)
  /\ UNCHANGED <<server, up, upState, downState>>

\* The stream of events is at its end.
DownEnds ==
  /\ downState = "running" /\ wire = <<>> /\ upState = "done"
  /\ downState' = "done"
  /\ Serve(HangUp(down))
  /\ UNCHANGED <<server, up, upState, wire, reader>>

\* The connection between the two is lost, or refused, with whatever is on it.
DownBreaks ==
  /\ downState = "running"
  /\ downState' = "done"
  /\ Serve(Excuse(down))
  /\ UNCHANGED <<server, up, upState, wire, reader>>

ServerSteps ==
  \/ \E reason \in Finishes \cup {None} : \E chunk \in Shapes(server.sent + 1, reason) : ServerSpeaks(chunk)
  \/ \E reason \in Finishes : ServerFinishes(reason)
  \/ ServerReports \/ ServerComplains \/ ServerEnds \/ ServerBreaks

DownSteps == DownReads \/ DownEnds

Next == ServerSteps \/ DownSteps \/ DownBreaks

Spec == Init /\ [][Next]_vars

\* The server's stream ends or the call times out, and what is read is translated.
FairSpec == Spec /\ WF_vars(ServerEnds \/ ServerBreaks) /\ WF_vars(DownSteps)

-----------------------------------------------------------------------------
(* Properties                                                              *)

Piecewise(P(_, _), c, s) ==
  /\ P(c.thinking, s.thinking)
  /\ P(c.text, s.text)
  /\ Len(c.tools) <= Len(s.tools)
  /\ \A k \in DOMAIN c.tools : P(c.tools[k], s.tools[k])

\* The states of the two ends and of the translators agree with one another: nothing
\* is kept for later, blocks are counted as they are opened, and the flags of the
\* translators say what was sent (_started, _block_index, _finalized, _role_sent).
TypeOK ==
  /\ server.state \in {"answering", "ended", "broken"}
  /\ upState \in {"running", "done"} /\ (upState = "running" <=> server.state = "answering")
  /\ downState \in {"running", "done"}
  /\ up.out = <<>> /\ down.out = <<>>
  /\ up.block \in -1..(3 * MaxChunks - 1)
  /\ \A i \in DOMAIN up.toolBlock : i \in ToolIndices /\ up.toolBlock[i] \in 0..up.block
  /\ up.kind # None => up.started /\ up.block >= 0
  /\ up.finalized => up.kind = None /\ server.state = "ended"
  /\ Len(reader.blocks) <= up.block + 1
  /\ DOMAIN down.tools \subseteq 0..up.block /\ down.next <= Cardinality(DOMAIN up.toolBlock)
  /\ client.finish \in {None} \cup {StopToFinish[s] : s \in DOMAIN StopToFinish}
  /\ client.done <=> down.done \/ downState = "done"

\* A client of the Anthropic API accepts every event: the message starts once and
\* first, one block is open at a time, blocks are numbered as they come, deltas are of
\* their block's kind and go to the open block, except that the arguments of a tool may
\* come late; the message ends once and last, with no block open.
Acceptable(r, event) ==
  CASE event.type = "message_start" -> r.phase = "none"
    [] event.type = "block_start"   -> r.phase = "content" /\ r.open = None /\ event.index = Len(r.blocks)
    [] event.type = "block_delta"   -> /\ r.phase = "content"
                                       /\ event.index < Len(r.blocks)
                                       /\ r.blocks[event.index + 1] = event.kind
                                       /\ event.kind = "tool_use" \/ event.index = r.open
    [] event.type = "block_stop"    -> r.phase = "content" /\ r.open = event.index
    [] event.type = "message_delta" -> r.phase = "content" /\ r.open = None
    [] event.type = "message_stop"  -> r.phase = "ending"
    [] event.type = "error"         -> r.phase # "over"

BlocksInOrder == downState = "running" /\ wire # <<>> => Acceptable(reader, Head(wire))

\* What the client has is the beginning of what the server sent, piece by piece and tool
\* by tool, and all of it if the stream ends without an error.
MessageArrives ==
  /\ Piecewise(IsPrefix, client.message, server.message)
  /\ client.done /\ ~client.error => client.message = server.message

\* A stream that ends without an error ends with the server's finish_reason, where tools
\* turn "stop" into "tool_calls", and with its usage.
FinishArrives ==
  client.done /\ ~client.error =>
    /\ client.usage = server.usage
    /\ client.finish =
         IF server.finish \in {"length", "content_filter"} THEN server.finish
         ELSE IF server.finish \in {"tool_calls", "function_call"} \/ server.order # <<>> THEN "tool_calls"
         ELSE "stop"

\* A connection that breaks is not taken for the end of the answer, wherever it breaks.
BreakTold == server.state = "broken" /\ client.done => client.error

\* The client gets its [DONE].
StreamEnds == <>client.done
=============================================================================
