------------------------------ MODULE Gateway -------------------------------
(***************************************************************************)
(* The way of a request through the proxy, for all of its APIs: routing,   *)
(* rewriting, admission, the request half of its trace, the upstream call  *)
(* (for /responses with searches in between), the response half, the       *)
(* ledger, the answer (services/proxy_service.py, anthropic_service.py,    *)
(* responses_service.py, embeddings_service.py).                           *)
(*                                                                         *)
(* Requests share nothing here but the configuration, which an             *)
(* administrator changes at any time.  What they share elsewhere is in     *)
(* ModelTracker, SlotCache, TraceIndex and Ledger.  A step is what a       *)
(* handler, or the generator of a streamed response, does between awaits.  *)
(***************************************************************************)
EXTENDS MapReduce, Routing

CONSTANTS
  Configs,    \* configurations: sequences of endpoints
  Models,
  MaxEdits    \* bound: changes of the configuration

\* Endpoints are numbered, and none lists the name that is not given.
ASSUME ConfigsAssumption ==
  \A c \in Configs : /\ DOMAIN c \subseteq Nat
                     /\ \A i \in DOMAIN c : c[i].log \in BOOLEAN /\ NoModel \notin Names(c[i])

VARIABLES
  config,
  edits,
  req,        \* request -> what the client sent, and what became of it
  stage,      \* request -> what its handler does next
  payload,    \* request -> the rewrites applied to the payload
  body,       \* request -> those that body_to_forward, the encoded payload, has
  sent,       \* request -> those the server received
  validated   \* traces handed to the ledger

mapVars == <<logged, trace, search, calls>>
gateVars == <<config, edits, req, stage, payload, body, sent, validated>>
vars == <<mapVars, gateVars>>

\* "chat" stands for /chat/completions, "models" for the GET of /models; both are proxied.
Apis == {"chat", "models", "messages", "responses", "embeddings"}
Stages == {"route", "reject", "admit", "log", "send", "wait", "settle", "validate", "answer", "over"}
Fates == {"none", "malformed", "unrouted", "untranslatable", "raised", "refused", "unreadable", "misshapen",
          "answered", "left", "closed"}
Rewrites == {"alias", "roles", "cache", "usage", "slot"}

Wishes == {w \in [api : Apis, stream : BOOLEAN, object : BOOLEAN, usage : BOOLEAN,
                  model : Models \cup {NoModel}] :
             /\ w.api = "models" => ~w.stream /\ ~w.object
             /\ w.api = "embeddings" => ~w.stream
             /\ ~w.object => ~w.stream /\ w.model = NoModel
             /\ w.usage => w.stream /\ w.api = "chat"}

Arriving(w) == [wish |-> w, endpoint |-> NoEndpoint, fate |-> "none"]

Init ==
  /\ InitMapReduce
  /\ config \in Configs
  /\ edits = 0
  /\ req \in [Requests -> {Arriving(w) : w \in Wishes}]
  /\ stage = [r \in Requests |-> "route"]
  /\ payload = [r \in Requests |-> {}]
  /\ body = [r \in Requests |-> {}]
  /\ sent = [r \in Requests |-> {}]
  /\ validated = {}

Edit ==
  /\ edits < MaxEdits
  /\ config' \in Configs /\ edits' = edits + 1
  /\ UNCHANGED <<mapVars, req, stage, payload, body, sent, validated>>

-----------------------------------------------------------------------------
(* Where a request goes, and how.                                          *)

Wish(r) == req[r].wish
Endpoint(r) == req[r].endpoint
Own(r) == <<r, 0>>

Selected(w) ==
  CASE w.api \in {"chat", "models"} -> ForProxy(config, w.model)
    [] w.api = "messages"           -> ForMessages(config, w.model)
    [] w.api = "responses"          -> ForResponses(config, w.model)
    [] w.api = "embeddings"         -> ForEmbeddings(config, w.model)

Way(w, e) ==
  CASE w.api = "chat" /\ e.anthropic      -> "bridged"      \* _proxy_chat_via_anthropic
    [] w.api = "messages" /\ e.anthropic  -> "passed"       \* _passthrough
    [] w.api = "messages" /\ ~e.anthropic -> "translated"   \* _via_chat_completions
    [] w.api = "responses"                -> "looped"       \* _complete, _stream
    [] w.api = "embeddings" /\ e.local    -> "embedded"     \* _embed_locally
    [] w.api = "embeddings" /\ ~e.local   -> "posted"       \* _forward
    [] OTHER                              -> "forwarded"

WayOf(r) == Way(Wish(r), Endpoint(r))

Renames(w, e) == w.model # NoModel /\ Forwarded(e, w.model) # w.model

If(condition, rewrite) == IF condition THEN {rewrite} ELSE {}

\* The rewriting before the request is traced.  On the way of the proxy the payload is encoded
\* again after the alias and for cache_prompt, but not after the roles were substituted.
Rewritten(w, e) ==
  CASE w.api \in {"chat", "models"} ->
         If(Renames(w, e), "alias") \cup If(w.object /\ e.roles, "roles") \cup If(w.object /\ e.cache, "cache")
    [] Way(w, e) = "translated" -> If(Renames(w, e), "alias") \cup If(e.roles, "roles")
    [] Way(w, e) = "looped" ->
         If(Renames(w, e), "alias") \cup If(e.roles, "roles") \cup If(e.cache, "cache")
    [] OTHER -> If(Renames(w, e), "alias")

\* For a mutant: cache_prompt is set and the payload not encoded again.
EncodedForgetting(w, e) ==
  IF w.api \in {"chat", "models"} THEN If(Renames(w, e), "alias") ELSE Rewritten(w, e)

Encoded(w, e) ==
  IF w.api \in {"chat", "models"} /\ ~(w.object /\ e.cache)
  THEN If(Renames(w, e), "alias") ELSE Rewritten(w, e)

First(w, e) == IF w.api = "embeddings" THEN "log" ELSE "admit"

\* Before it is traced, what a request holds may be more than substitute_role or build_chat_payload
\* can take (a message without a role): they raise, and the server answers 500.
MayRaise(w, e) ==
  /\ e # NoEndpoint
  /\ \/ w.api = "chat" /\ (e.roles \/ ~w.object)
     \/ w.api = "responses"

Route(r) ==
  LET w == Wish(r)
      e == Selected(w)
  IN  /\ stage[r] = "route"
      /\ \/ /\ \/ ~w.object /\ w.api \in {"messages", "responses", "embeddings"}
               \/ MayRaise(w, e)
            /\ req' = [req EXCEPT ![r].fate = "malformed"]
            /\ stage' = [stage EXCEPT ![r] = "answer"]
            /\ UNCHANGED <<payload, body, logged>>
         \/ /\ w.object \/ w.api \in {"chat", "models"}
            /\ e = NoEndpoint
            /\ stage' = [stage EXCEPT ![r] = "reject"]
            /\ UNCHANGED <<req, payload, body, logged>>
         \/ /\ w.object \/ w.api \in {"chat", "models"}
            /\ e # NoEndpoint
            /\ req' = [req EXCEPT ![r].endpoint = e]
            /\ payload' = [payload EXCEPT ![r] = Rewritten(w, e)]
            /\ body' = [body EXCEPT ![r] = Encoded(w, e)]
            /\ logged' = [logged EXCEPT ![r] = e.log /\ w.api # "models"]
            /\ stage' = [stage EXCEPT ![r] = First(w, e)]
      /\ UNCHANGED <<trace, search, calls, config, edits, sent, validated>>

\* 404, or 500 if there are no endpoints at all, by a configuration that is loaded again.
Reject(r) ==
  /\ stage[r] = "reject"
  /\ req' = [req EXCEPT ![r].fate = "unrouted"]
  /\ stage' = [stage EXCEPT ![r] = "answer"]
  /\ UNCHANGED <<mapVars, config, edits, payload, body, sent, validated>>

-----------------------------------------------------------------------------
(* Before the call.                                                        *)

Goes(r, from, to) == stage[r] = from /\ stage' = [stage EXCEPT ![r] = to]

\* ensure_capacity, which is ModelTracker; on the way of embeddings after tracing.
Admit(r) ==
  /\ Goes(r, "admit", IF Wish(r).api = "embeddings" THEN "send" ELSE "log")
  /\ UNCHANGED <<mapVars, config, edits, req, payload, body, sent, validated>>

Log(r) ==
  /\ Goes(r, "log", IF WayOf(r) = "posted" THEN "admit" ELSE "send")
  /\ trace' = Write(Own(r), "open")
  /\ UNCHANGED <<logged, search, calls, config, edits, req, payload, body, sent, validated>>

\* What is added after tracing: stream_options, and the slot that was leased.  (An endpoint "has
\* slots" if its requests get a lease, which is SlotCache.)
Added(r) ==
  LET w == Wish(r)
      e == Endpoint(r)
  IN  If(/\ w.stream /\ w.object
         /\ \/ WayOf(r) = "forwarded" /\ ~w.usage
            \/ WayOf(r) \in {"translated", "looped"}, "usage")
      \cup If(WayOf(r) \in {"forwarded", "looped"} /\ w.object /\ e.slots, "slot")

Send(r) ==
  /\ Goes(r, "send", "wait")
  /\ LET full == payload[r] \cup Added(r)
     IN  /\ payload' = [payload EXCEPT ![r] = full]
         /\ body' = [body EXCEPT ![r] = IF Added(r) # {} THEN full ELSE @]
         /\ sent' = [sent EXCEPT ![r] =
              CASE WayOf(r) = "forwarded" -> IF Added(r) # {} THEN full ELSE body[r]
                [] WayOf(r) = "bridged"   -> full \ {"cache"}    \* translated: no such parameter
                [] WayOf(r) = "embedded"  -> {}                  \* no server
                [] OTHER -> full]
  /\ UNCHANGED <<mapVars, config, edits, req, validated>>

\* After it was traced, a request may be more than chat_request_to_anthropic, or
\* _build_chat_payload with anthropic_request_to_chat, can take: they raise outside any try, before
\* a stream has begun.
TranslationRaises(r) ==
  /\ Goes(r, "send", "answer")
  /\ WayOf(r) \in {"bridged", "translated"}
  /\ req' = [req EXCEPT ![r].fate = "untranslatable"]
  /\ UNCHANGED <<mapVars, config, edits, payload, body, sent, validated>>

-----------------------------------------------------------------------------
(* What each way does when its call has come to an end, streamed (s) or    *)
(* not: whether it writes the response half, and whether it hands the      *)
(* trace to the ledger.  An answer that is no JSON is returned as an error *)
(* and not traced, or raises; one of a shape the code does not expect      *)
(* raises.  Only streams have a finally that writes the half all the same. *)

Unfit == {"unreadable", "misshapen"}

ForwardedEnds(s, fate) == [settles |-> fate # "closed", validates |-> fate \in {"refused", "answered"}]
BridgedEnds(s, fate) == [settles |-> s \/ fate \notin Unfit, validates |-> s \/ fate = "answered"]
PassedEnds(s, fate) == [settles |-> TRUE, validates |-> FALSE]

\* For a mutant: an upstream error is returned and forgotten.
TranslatedEndsSilently(s, fate) ==
  [settles |-> s \/ fate = "answered", validates |-> s \/ fate = "answered"]

TranslatedEnds(s, fate) == [settles |-> s \/ fate \notin Unfit, validates |-> s \/ fate = "answered"]
LoopedEnds(s, fate) == [settles |-> s \/ fate \notin Unfit, validates |-> s \/ fate = "answered"]
PostedEnds(s, fate) == [settles |-> TRUE, validates |-> fate # "raised"]
EmbeddedEnds(s, fate) == [settles |-> TRUE, validates |-> TRUE]

Ends(r, fate) ==
  LET s == Wish(r).stream
  IN  CASE WayOf(r) = "forwarded"  -> ForwardedEnds(s, fate)
        [] WayOf(r) = "bridged"    -> BridgedEnds(s, fate)
        [] WayOf(r) = "passed"     -> PassedEnds(s, fate)
        [] WayOf(r) = "translated" -> TranslatedEnds(s, fate)
        [] WayOf(r) = "looped"     -> LoopedEnds(s, fate)
        [] WayOf(r) = "posted"     -> PostedEnds(s, fate)
        [] WayOf(r) = "embedded"   -> EmbeddedEnds(s, fate)

Ended(r, fate) ==
  /\ req' = [req EXCEPT ![r].fate = fate]
  /\ stage' = [stage EXCEPT ![r] = IF Ends(r, fate).settles THEN "settle" ELSE "answer"]
  /\ UNCHANGED <<mapVars, config, edits, payload, body, sent, validated>>

\* No call is under way: there is none, or those of a map-reduce have all been answered.
Quiet(r) == Busy(r) => search[r].phase = "mapping" /\ CallsOver(r)

Converting == {"bridged", "translated", "looped"}

\* The call raises, or is answered with an error, or with something that is no JSON, or with JSON
\* in which a converter or the loop does not find what it expects (an answer that is no object, a
\* text that is no string; of a map-reduce, when its answers are combined), or well.
CallEnds(r, fate) ==
  /\ stage[r] = "wait" /\ Quiet(r)
  /\ fate \in {"raised", "refused", "unreadable", "misshapen", "answered"}
  /\ fate = "unreadable" => ~Wish(r).stream /\ WayOf(r) # "embedded"
  /\ IF fate = "misshapen" THEN WayOf(r) \in Converting ELSE ~Busy(r)
  /\ Ended(r, fate)

\* The model asks for a search, whose result is mapped and reduced if it is too long.  (Bound: one
\* search of a request; the loop of searches is ResponseLoop.)
SearchFirst(r) ==
  /\ stage[r] = "wait" /\ WayOf(r) = "looped" /\ search[r].phase = "none"
  /\ \E text \in Texts :
       \/ ReturnRaw(r, text)
       \/ \E budget \in Budgets, reduce \in BOOLEAN : StartMapping(r, text, budget, reduce)
  /\ UNCHANGED gateVars

SearchGoesOn(r) ==
  /\ stage[r] = "wait"
  /\ Searching(r)
  /\ UNCHANGED gateVars

\* The client of a stream goes away.  A generator that has not begun, is cancelled at an await, or
\* is closed before its try (the first two events of _stream_inner) writes nothing more; one that
\* is closed at a later yield runs its finally, if it has one.
Leave(r) ==
  /\ Wish(r).stream
  /\ \/ /\ stage[r] \in {"send", "wait"}
        /\ req' = [req EXCEPT ![r].fate = "left"]
        /\ stage' = [stage EXCEPT ![r] = "over"]
        /\ UNCHANGED <<mapVars, config, edits, payload, body, sent, validated>>
     \/ /\ stage[r] = "wait" /\ ~Busy(r)
        /\ Ended(r, "closed")

Settle(r) ==
  /\ Goes(r, "settle", IF Ends(r, req[r].fate).validates /\ logged[r] THEN "validate" ELSE "answer")
  /\ trace' = Write(Own(r), "settled")
  /\ UNCHANGED <<logged, search, calls, config, edits, req, payload, body, sent, validated>>

\* validate_and_record, for requests that are traced.
Validate(r) ==
  /\ Goes(r, "validate", "answer")
  /\ validated' = validated \cup {Own(r)}
  /\ UNCHANGED <<mapVars, config, edits, req, payload, body, sent>>

Answer(r) ==
  /\ Goes(r, "answer", "over")
  /\ UNCHANGED <<mapVars, config, edits, req, payload, body, sent, validated>>

Steps(r) ==
  \/ Route(r) \/ Reject(r) \/ Admit(r) \/ Log(r) \/ Send(r) \/ TranslationRaises(r)
  \/ SearchFirst(r) \/ SearchGoesOn(r)
  \/ \E fate \in Fates : CallEnds(r, fate)
  \/ Settle(r) \/ Validate(r) \/ Answer(r)

Next == Edit \/ \E r \in Requests : Steps(r) \/ Leave(r)

Spec == Init /\ [][Next]_vars

\* Every await of a handler is on a thread, a lock of the tracker, or a call with a timeout.
FairSpec == Spec /\ \A r \in Requests : WF_vars(Steps(r))

-----------------------------------------------------------------------------
Hosts == {NoEndpoint} \cup UNION {{c[i] : i \in DOMAIN c} : c \in Configs}

TypeOK ==
  /\ logged \in [Requests -> BOOLEAN]
  /\ trace \in [Traces -> {"none", "open", "settled", "rewritten"}]
  /\ search \in [Requests -> Search]
  /\ calls \in [Requests -> [1..MaxCalls -> Call]]
  /\ config \in Configs
  /\ req \in [Requests -> [wish : Wishes, endpoint : Hosts, fate : Fates]]
  /\ stage \in [Requests -> Stages]
  /\ payload \in [Requests -> SUBSET Rewrites]
  /\ body \in [Requests -> SUBSET Rewrites]
  /\ sent \in [Requests -> SUBSET Rewrites]
  /\ validated \subseteq Traces

\* The requests whose response half the code never writes, and the calls where it replaces it:
\* clients that left, requests whose translation raised, and the answers, not streamed, that the
\* code cannot read or that raise where they are converted.
Excused(t) ==
  LET r == t[1]
  IN  \/ req[r].fate = "left"
      \/ /\ t[2] = 0
         /\ \/ req[r].fate = "closed" /\ WayOf(r) = "forwarded"
            \/ req[r].fate = "untranslatable"
            \/ req[r].fate \in Unfit /\ WayOf(r) \in Converting /\ ~Wish(r).stream
      \/ t[2] > 0 /\ calls[r][t[2]].got = "garbage"

\* A call of a map-reduce is over when the search has done with it.
Over(t) ==
  \/ stage[t[1]] = "over"
  \/ t[2] > 0 /\ \/ search[t[1]].phase = "found"
                 \/ search[t[1]].phase = "reducing" /\ t[2] # Reducing(t[1])

Life == INSTANCE TraceLife WITH
          PartOf <- LAMBDA t : IF t[2] = 0 THEN {t[1]} \X (1..MaxCalls) ELSE {},
          excused <- {t \in Traces : Excused(t)},
          over <- {t \in Traces : Over(t)}

(* Every request, and every call of a map-reduce, is traced as TraceLife   *)
(* promises (save_request_trace, save_response_trace and their callers):   *)
(* in pairs, the response half once, the validation last, the calls before *)
(* the request they belong to.  The code does not promise this to clients  *)
(* that leave, and it does not keep it, without meaning to, for requests   *)
(* that it cannot translate and for answers, not streamed, that it cannot  *)
(* read or convert: those are excused.  That a trace can be written is     *)
(* assumed.                                                                *)
ImplementsLife == Life!Spec

(* What the endpoint's configuration asks for is in the request that the   *)
(* server gets (ProxyService.proxy and its siblings).  Except for roles on *)
(* the way of the proxy, which are substituted in the payload after it was *)
(* encoded: they are lost unless something else has it encoded again.      *)
Asked(r) ==
  LET w == Wish(r)
      e == Endpoint(r)
      way == WayOf(r)
  IN  If(Renames(w, e) /\ way # "embedded", "alias")
      \cup If(w.object /\ e.roles /\ way \in {"forwarded", "bridged", "translated", "looped"}, "roles")
      \cup If(w.object /\ e.cache /\ way \in {"forwarded", "looped"}, "cache")
      \cup If(w.object /\ e.slots /\ way \in {"forwarded", "looped"}, "slot")

WasSent(r) == stage[r] \in {"wait", "settle", "validate"}

RewritesSent ==
  \A r \in Requests : WasSent(r) =>
    Asked(r) \ (IF WayOf(r) = "forwarded" /\ sent[r] \subseteq {"alias"} THEN {"roles"} ELSE {})
      \subseteq sent[r]

(* README: "substitute_role: # rewrite message roles".  The code does not  *)
(* keep this.                                                              *)
RolesRewritten ==
  \A r \in Requests : WasSent(r) => Asked(r) \cap {"roles"} \subseteq sent[r]

(* Where the interface says a model goes (ConfigService.resolve_route) is  *)
(* where the services send it, unless it names a local endpoint, which     *)
(* only embeddings can use.                                                *)
RouteAsShown ==
  [][\A r \in Requests :
       LET shown == ResolveRoute(config, Wish(r).model)
       IN  req'[r].endpoint # Endpoint(r) =>
             \/ req'[r].endpoint = shown
             \/ Wish(r).api # "embeddings" /\ shown.local]_vars

(* Every request is answered or given up by its client, also when servers  *)
(* fail in the middle of a search (proxy, handle, _stream_inner).          *)
RequestEnds == \A r \in Requests : <>(stage[r] = "over")
=============================================================================
