---------------------------- MODULE MCConfigStore ----------------------------
(* ConfigStore with an endpoint, a section and a price. *)
EXTENDS ConfigStore
=============================================================================
