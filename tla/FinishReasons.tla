---------------------------- MODULE FinishReasons ----------------------------
(***************************************************************************)
(* Why an answer ended, in the terms of the two APIs; from                 *)
(* services/anthropic_translation.py.                                      *)
(***************************************************************************)
CONSTANT None   \* a field that is None or missing

StopToFinish ==
  [end_turn |-> "stop", max_tokens |-> "length", stop_sequence |-> "stop",
   tool_use |-> "tool_calls", refusal |-> "content_filter"]

FinishToStop ==
  [stop |-> "end_turn", length |-> "max_tokens", tool_calls |-> "tool_use",
   function_call |-> "tool_use", content_filter |-> "refusal"]

\* stop_reason_to_finish_reason
FinishReason(stop) == IF stop \in DOMAIN StopToFinish THEN StopToFinish[stop] ELSE "stop"

\* finish_reason_to_stop_reason; a reason it has never heard of, or none, ends the turn.
StopReason(finish) == IF finish \in DOMAIN FinishToStop THEN FinishToStop[finish] ELSE "end_turn"
=============================================================================
