-------------------------- MODULE MCAnthropicStream --------------------------
(* AnthropicStream on short answers. *)
EXTENDS AnthropicStream

\* Every reason the code knows, but one of the two that mean tools were called.
MCFinishes == {"stop", "length", "tool_calls", "content_filter"}
=============================================================================
