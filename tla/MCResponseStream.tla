-------------------------- MODULE MCResponseStream --------------------------
(* ResponseStream on small sets. *)
EXTENDS ResponseStream
=============================================================================
