----------------------------- MODULE MCGateway ------------------------------
(* Gateway with a handful of endpoints, alone and in pairs. *)
EXTENDS Gateway

CONSTANTS m1, m2

Endpoints(models, renamed) ==
  [models |-> models, aliases |-> renamed, enabled |-> TRUE, local |-> FALSE, anthropic |-> FALSE,
   log |-> TRUE, roles |-> FALSE, cache |-> FALSE, slots |-> FALSE]

NoAliases == [m \in {} |-> m]

Plain == [Endpoints({m1}, [m \in {m2} |-> m1]) EXCEPT !.roles = TRUE]
Llama == [Endpoints({m1, m2}, NoAliases) EXCEPT !.roles = TRUE, !.cache = TRUE, !.slots = TRUE]
Caching == [Llama EXCEPT !.slots = FALSE]
Claude == [Endpoints({AnyModel}, [m \in {m1} |-> m2]) EXCEPT !.anthropic = TRUE]
InProcess == [Endpoints({m1}, NoAliases) EXCEPT !.local = TRUE]
Secret == [Endpoints({AnyModel}, NoAliases) EXCEPT !.log = FALSE, !.roles = TRUE]
Off == [Llama EXCEPT !.enabled = FALSE]

SmallConfigs ==
  {<<>>, <<InProcess>>, <<Plain>>, <<Llama, Claude>>, <<Claude, Plain>>, <<InProcess, Secret>>,
   <<Off, InProcess, Caching>>}

\* Nothing to ask about; and three chunks, one of them blank.
SmallTexts == {<<"newline", "space">>,
               <<"word", "word", "space", "newline", "newline", "newline", "word">>}
=============================================================================
