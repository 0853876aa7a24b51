--------------------------- MODULE ChatToAnthropic ---------------------------
(***************************************************************************)
(* ChatToAnthropicStream of services/anthropic_translation.py: what one    *)
(* translator makes of the chunks of a chat completion. A translator is a  *)
(* record of the fields of the object, with the events it has put out; an  *)
(* operation takes a translator to what it is afterwards.                  *)
(*                                                                         *)
(* A chunk has an optional piece of reasoning and of content, a sequence   *)
(* of tool call deltas, an optional finish_reason, and may report usage.   *)
(* An error that a server sends in place of a chunk has none of these.     *)
(***************************************************************************)
EXTENDS Integers, Sequences, FinishReasons

ASSUME NoneAssumption ==
  None \notin Nat \cup {"thinking", "text", "tool_use"} \cup DOMAIN FinishToStop \cup DOMAIN StopToFinish

\* Events. A block's index counts from 0, and its kind is that of its deltas.
Event(type, index, kind, piece) == [type |-> type, index |-> index, kind |-> kind, piece |-> piece]
MessageStart == Event("message_start", None, None, None)
MessageDelta(reason, usage) == Event("message_delta", None, reason, usage)
MessageStop == Event("message_stop", None, None, None)
ErrorEvent == Event("error", None, None, None)

Chunk(reasoning, content, tools, finish, usage) ==
  [reasoning |-> reasoning, content |-> content, tools |-> tools, finish |-> finish, usage |-> usage]
ErrorChunk == Chunk(None, None, <<>>, None, FALSE)
ToolDelta(index, arguments) == [index |-> index, arguments |-> arguments]

NewChatToAnthropic ==
  [started |-> FALSE, block |-> -1, kind |-> None, toolBlock |-> <<>>,
   finish |-> None, usage |-> FALSE, finalized |-> FALSE, out |-> <<>>]

Emit(t, event) == [t EXCEPT !.out = Append(@, event)]

\* _start_events
Started(t) == IF t.started THEN t ELSE [Emit(t, MessageStart) EXCEPT !.started = TRUE]

\* Mutant: the block that is open stays open when another one starts.
CloseBlockNever(t) == [t EXCEPT !.kind = None]

\* _close_block
CloseBlock(t) ==
  IF t.kind = None THEN t
  ELSE [Emit(t, Event("block_stop", t.block, None, None)) EXCEPT !.kind = None]

\* _open_block
OpenBlock(t, kind) ==
  [Emit(CloseBlock(t), Event("block_start", t.block + 1, kind, None))
     EXCEPT !.block = t.block + 1, !.kind = kind]

\* A piece of reasoning or of content goes into the open block, if it is of that kind.
Piece(t, kind, piece) ==
  IF piece = None THEN t
  ELSE LET opened == IF t.kind = kind THEN t ELSE OpenBlock(t, kind)
       IN  Emit(opened, Event("block_delta", opened.block, kind, piece))

\* A tool call delta opens a block the first time its index is seen.
ToolKnown(t, index) ==
  IF index \in DOMAIN t.toolBlock THEN t
  ELSE LET opened == OpenBlock(t, "tool_use")
       IN  [opened EXCEPT !.toolBlock =
              [i \in DOMAIN @ \cup {index} |-> IF i = index THEN opened.block ELSE @[i]]]

\* Mutant: arguments go to the block that is open.
ToolTargetOpen(t, index) == t.block

\* The block of a tool, which may not be open any more.
ToolTarget(t, index) == t.toolBlock[index]

Tool(t, delta) ==
  LET known == ToolKnown(t, delta.index)
  IN  IF delta.arguments = None THEN known
      ELSE Emit(known, Event("block_delta", ToolTarget(known, delta.index), "tool_use", delta.arguments))

\* Deltas are read one after the other.
ReadTools(t, deltas) ==
  LET read[n \in 0..Len(deltas)] == IF n = 0 THEN t ELSE Tool(read[n - 1], deltas[n])
  IN  read[Len(deltas)]

\* Mutant: a turn that ends with tool calls is an ordinary end of turn.
FinalReasonReported(t) == StopReason(t.finish)

\* Servers report "stop" although they called tools.
FinalReason(t) ==
  IF StopReason(t.finish) = "end_turn" /\ t.toolBlock # <<>> THEN "tool_use" ELSE StopReason(t.finish)

\* finalize
Finalize(t) ==
  LET ended == Emit(Emit(CloseBlock(Started(t)), MessageDelta(FinalReason(t), t.usage)), MessageStop)
  IN  IF t.finalized THEN t ELSE [ended EXCEPT !.finalized = TRUE]

\* process_chunk
ProcessChunk(t, chunk) ==
  LET heard == [Started(t) EXCEPT !.usage = @ \/ chunk.usage,
                                  !.finish = IF chunk.finish = None THEN @ ELSE chunk.finish]
      said == Piece(Piece(heard, "thinking", chunk.reasoning), "text", chunk.content)
  IN  ReadTools(said, chunk.tools)

\* error
Failed(t) == Emit(t, ErrorEvent)
=============================================================================
