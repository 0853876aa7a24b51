------------------------------ MODULE Routing -------------------------------
(***************************************************************************)
(* Which endpoint of the configuration a request goes to, and under which  *)
(* model name.  The search through the endpoints is written five times;    *)
(* each copy is a definition here.                                         *)
(***************************************************************************)
EXTENDS Naturals, Sequences

CONSTANTS
  NoModel,     \* the request names no model
  NoEndpoint,
  AnyModel     \* the entry "*" of an endpoint's models

\* endpoint: [models, aliases, enabled, local, ...]; aliases is a function on the names it renames
Names(e) == e.models \cup DOMAIN e.aliases

Enabled(config) == {i \in DOMAIN config : config[i].enabled}
Remote(config) == {i \in Enabled(config) : ~config[i].local}

FirstOf(config, I) ==
  IF I = {} THEN NoEndpoint ELSE config[CHOOSE i \in I : \A j \in I : i <= j]

\* For a mutant: the wildcard is taken where it stands in the order.
ChoiceInOrder(config, I, model) ==
  FirstOf(config, {i \in I : \/ model # NoModel /\ model \in Names(config[i])
                             \/ AnyModel \in config[i].models})

\* Whoever lists the model, under its own name or an alias; then whoever takes anything.
Choice(config, I, model) ==
  LET listing == {i \in I : model # NoModel /\ model \in Names(config[i])}
      taking  == {i \in I : AnyModel \in config[i].models}
  IN  FirstOf(config, IF listing # {} THEN listing ELSE taking)

ForProxy(config, model) == Choice(config, Remote(config), model)
ForMessages(config, model) == Choice(config, Remote(config), model)
ForResponses(config, model) == Choice(config, Remote(config), model)
ForEmbeddings(config, model) == Choice(config, Enabled(config), model)

\* ConfigService.resolve_route, which the interface shows.
ResolveRoute(config, model) ==
  LET listing == {i \in Enabled(config) : model \in Names(config[i])}
      taking  == {i \in Enabled(config) : AnyModel \in config[i].models}
  IN  FirstOf(config, IF listing # {} THEN listing ELSE taking)

Forwarded(e, model) == IF model \in DOMAIN e.aliases THEN e.aliases[model] ELSE model
=============================================================================
