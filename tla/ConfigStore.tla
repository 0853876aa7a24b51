----------------------------- MODULE ConfigStore -----------------------------
(***************************************************************************)
(* The configuration: ConfigService of services/config_service.py over     *)
(* YAMLLLMProxyConfigRepository of yaml_repository/yaml_repository.py. The *)
(* handlers that update it are plain functions, which FastAPI runs in a    *)
(* pool of threads: each loads the file, changes what it read, writes the  *)
(* temporary file llmsnarf.yaml.tmp, of which there is one, and renames it. *)
(*                                                                         *)
(* A file is what it contains. A thread that has opened the temporary file *)
(* goes on writing to it under whatever name it then has.                  *)
(***************************************************************************)
EXTENDS Integers, Sequences, FiniteSets

CONSTANTS
  Handlers,     \* threads that run an update
  Endpoints,    \* names of endpoints
  Keys,         \* API keys
  Sections,     \* web_search and web_fetch
  Settings,     \* what is in a section
  Default,      \* the settings of a section that is missing
  Models,       \* models with a price
  Prices,
  MaxCrashes,   \* bound: ends of the process
  None,         \* no key; no file, no request
  Truncated,    \* the content of a file opened for writing, before anything is written
  Garbled       \* the content of a file that two threads wrote over each other

ASSUME StoreAssumption ==
  /\ None \notin Keys \cup Settings \cup Prices \cup {"done", "error", "temp", "file", "nowhere"}
  /\ Default \in Settings
  /\ MaxCrashes \in Nat

VARIABLES
  file,       \* llmsnarf.yaml
  temp,       \* llmsnarf.yaml.tmp
  pc,         \* handler -> progress
  request,    \* handler -> the update it was asked for
  updated,    \* handler -> the configuration it is going to save
  handle,     \* handler -> where the file is that it has opened
  answered,   \* handler -> how its last update was answered
  crashes,    \* ends of the process so far
  intended,   \* history: what the updates answered with success make of the configuration,
              \* one after the other, up to the first that overtakes another
  overtaken,  \* history: an update was saved between another's load and its save
  collided    \* history: two updates had the temporary file open at once

handlerVars == <<pc, request, updated, handle, answered>>
historyVars == <<intended, overtaken, collided>>
vars == <<file, temp, handlerVars, crashes, historyVars>>

\* Functions on part of a set.
Partial(S, T) == UNION {[D -> T] : D \in SUBSET S}

\* The endpoints and their keys, the sections, and the prices.
Configs == [endpoints : Partial(Endpoints, Keys \cup {None}),
            sections  : [Sections -> Settings],
            pricing   : Partial(Models, Prices)]

Contents == Configs \cup {Truncated, Garbled}

ASSUME ContentsAssumption ==
  /\ None \notin Contents
  /\ Truncated \notin Configs /\ Garbled \notin Configs \cup {Truncated}

\* What an empty file, or none, is read as.
Blank == [endpoints |-> <<>>, sections |-> [s \in Sections |-> Default], pricing |-> <<>>]

Updates ==
  [kind : {"endpoints"}, endpoints : Partial(Endpoints, Keys \cup {None})]
    \cup [kind : {"section"}, section : Sections, settings : Settings]
    \cup [kind : {"price"}, model : Models, price : Prices]
    \cup [kind : {"unprice"}, model : Models]

Init ==
  /\ file \in Configs \cup {None}
  /\ temp = None
  /\ pc = [h \in Handlers |-> "idle"]
  /\ request = [h \in Handlers |-> None]
  /\ updated = [h \in Handlers |-> None]
  /\ handle = [h \in Handlers |-> None]
  /\ answered = [h \in Handlers |-> None]
  /\ crashes = 0
  /\ intended = IF file = None THEN Blank ELSE file
  /\ overtaken = FALSE
  /\ collided = FALSE

-----------------------------------------------------------------------------
(* ConfigService                                                           *)

\* Mutant: an endpoint's key is the one in the request.
KeptKeySubmitted(old, name, key) == key

\* A request that leaves the key out, as the web interface does, means the stored one.
KeptKey(old, name, key) ==
  IF key = None /\ name \in DOMAIN old.endpoints THEN old.endpoints[name] ELSE key

\* What an update makes of the configuration it loaded.
Apply(update, old) ==
  CASE update.kind = "endpoints" ->
         [old EXCEPT !.endpoints =
            [name \in DOMAIN update.endpoints |-> KeptKey(old, name, update.endpoints[name])]]
    [] update.kind = "section" -> [old EXCEPT !.sections[update.section] = update.settings]
    [] update.kind = "price" ->
         [old EXCEPT !.pricing = [m \in DOMAIN @ \cup {update.model} |->
                                    IF m = update.model THEN update.price ELSE @[m]]]
    [] update.kind = "unprice" ->
         [old EXCEPT !.pricing = [m \in DOMAIN @ \ {update.model} |-> @[m]]]

\* Mutant: the condition is turned round.
IdleInverted(update, old) == update.kind = "unprice" /\ update.model \in DOMAIN old.pricing

\* remove_pricing of a model without a price saves nothing.
Idle(update, old) == update.kind = "unprice" /\ update.model \notin DOMAIN old.pricing

\* The configuration a thread loads from a file it can parse.
Loaded == IF file \in {None, Truncated} THEN Blank ELSE file

\* An update is answered with success.
Intend(update, late) == intended' = IF late THEN Blank ELSE Apply(update, intended)

\* Mutant: a handler whose file is gone tries to rename it again.
FinishRetrying(h, answer) ==
  /\ answered' = [answered EXCEPT ![h] = answer]
  /\ UNCHANGED <<pc, request, updated, handle>>

Finish(h, answer) ==
  /\ pc' = [pc EXCEPT ![h] = "idle"]
  /\ request' = [request EXCEPT ![h] = None]
  /\ updated' = [updated EXCEPT ![h] = None]
  /\ handle' = [handle EXCEPT ![h] = None]
  /\ answered' = [answered EXCEPT ![h] = answer]

\* A handler loads the file and computes the new configuration.
Load(h, update) ==
  /\ pc[h] = "idle"
  /\ IF file = Garbled THEN Finish(h, "error") /\ UNCHANGED intended
     ELSE IF Idle(update, Loaded) THEN Finish(h, "done") /\ Intend(update, overtaken)
     ELSE /\ pc' = [pc EXCEPT ![h] = "loaded"]
          /\ request' = [request EXCEPT ![h] = update]
          /\ updated' = [updated EXCEPT ![h] = Apply(update, Loaded)]
          /\ answered' = [answered EXCEPT ![h] = None]
          /\ UNCHANGED <<handle, intended>>
  /\ UNCHANGED <<file, temp, crashes, overtaken, collided>>

-----------------------------------------------------------------------------
(* save                                                                    *)

\* Mutant: the file is written in place.
OpenInPlace(h) ==
  /\ pc[h] = "loaded"
  /\ pc' = [pc EXCEPT ![h] = "open"]
  /\ handle' = [handle EXCEPT ![h] = "file"]
  /\ file' = Truncated
  /\ temp' = Truncated
  /\ UNCHANGED <<request, updated, answered, crashes, historyVars>>

\* open(tmp_path, "w"): one is created, or the one there is truncated.
Open(h) ==
  /\ pc[h] = "loaded"
  /\ pc' = [pc EXCEPT ![h] = "open"]
  /\ handle' = [handle EXCEPT ![h] = "temp"]
  /\ temp' = Truncated
  /\ collided' = (collided \/ \E g \in Handlers \ {h} : pc[g] \in {"open", "written"})
  /\ UNCHANGED <<file, request, updated, answered, crashes, intended, overtaken>>

\* What a file contains once a thread has written its text from the beginning of it: what
\* another wrote there may be longer.
Overwritten(content, config) ==
  IF content = Truncated THEN {config} ELSE {config, Garbled}

\* The text is written when the file is closed.
Write(h) ==
  /\ pc[h] = "open"
  /\ pc' = [pc EXCEPT ![h] = "written"]
  /\ IF handle[h] = "temp" THEN temp' \in Overwritten(temp, updated[h]) ELSE UNCHANGED temp
  /\ IF handle[h] = "file" THEN file' \in Overwritten(file, updated[h]) ELSE UNCHANGED file
  /\ UNCHANGED <<request, updated, handle, answered, crashes, historyVars>>

\* Mutant: every open file is taken for closed.
RenamedForgetting == [h \in Handlers |-> None]

\* Whoever has the temporary file open now has the configuration open, and whoever had
\* that has a file without a name.
Renamed ==
  [h \in Handlers |-> CASE handle[h] = "temp" -> "file"
                       [] handle[h] = "file" -> "nowhere"
                       [] OTHER -> handle[h]]

\* tmp_path.replace: FileNotFoundError if another thread was first.
Replace(h) ==
  /\ pc[h] = "written"
  /\ IF temp = None
     THEN /\ Finish(h, "error")
          /\ UNCHANGED <<file, temp, historyVars>>
     ELSE /\ file' = temp
          /\ temp' = None
          /\ pc' = [pc EXCEPT ![h] = "idle"]
          /\ request' = [request EXCEPT ![h] = None]
          /\ updated' = [updated EXCEPT ![h] = None]
          /\ handle' = [Renamed EXCEPT ![h] = None]
          /\ answered' = [answered EXCEPT ![h] = "done"]
          /\ overtaken' = (overtaken \/ \E g \in Handlers \ {h} : pc[g] # "idle")
          /\ Intend(request[h], overtaken')
          /\ UNCHANGED collided
  /\ UNCHANGED crashes

\* The process ends and is started again; the temporary file is still there.
Crash ==
  /\ crashes < MaxCrashes
  /\ crashes' = crashes + 1
  /\ pc' = [h \in Handlers |-> "idle"]
  /\ request' = [h \in Handlers |-> None]
  /\ updated' = [h \in Handlers |-> None]
  /\ handle' = [h \in Handlers |-> None]
  /\ answered' = [h \in Handlers |-> None]
  /\ UNCHANGED <<file, temp, historyVars>>

Save(h) == Open(h) \/ Write(h) \/ Replace(h)

Next ==
  \/ \E h \in Handlers : Save(h) \/ \E update \in Updates : Load(h, update)
  \/ Crash

Spec == Init /\ [][Next]_vars

\* A thread that runs gets on.
FairSpec == Spec /\ \A h \in Handlers : WF_vars(Save(h))

-----------------------------------------------------------------------------
(* Properties                                                              *)

\* Types; a handler has a file open from Open to Replace, and what it is about to save
\* contains what it was asked for.
TypeOK ==
  /\ file \in Contents \cup {None} /\ temp \in Contents \cup {None}
  /\ pc \in [Handlers -> {"idle", "loaded", "open", "written"}]
  /\ request \in [Handlers -> Updates \cup {None}]
  /\ updated \in [Handlers -> Configs \cup {None}]
  /\ handle \in [Handlers -> {"temp", "file", "nowhere", None}]
  /\ answered \in [Handlers -> {"done", "error", None}]
  /\ intended \in Configs
  /\ \A h \in Handlers :
       IF pc[h] = "idle" THEN request[h] = None /\ updated[h] = None /\ handle[h] = None
       ELSE /\ request[h] \in Updates /\ updated[h] \in Configs
            /\ Apply(request[h], updated[h]) = updated[h]
            /\ (handle[h] = None) <=> (pc[h] = "loaded")

\* Unless two updates had the temporary file open at once, saving is atomic: whoever
\* loads the configuration finds it whole, whenever the process ended before, and no
\* update is answered with an error.
FileWhole ==
  ~collided => /\ file \in Configs \cup {None}
               /\ \A h \in Handlers : answered[h] # "error"

\* The configuration is what the updates answered with success make of it, one after the
\* other; except after one of them was saved while another was under way.
NoUpdateLost == ~overtaken => Loaded = intended

\* An endpoint that stays in the configuration does not lose its key: the interface never
\* shows the key, so it sends none back.
KeysKept ==
  [][~overtaken /\ file \in Configs /\ file' \in Configs =>
       \A name \in DOMAIN file.endpoints \cap DOMAIN file'.endpoints :
         file.endpoints[name] # None => file'.endpoints[name] # None]_vars

\* Every update is answered.
UpdateEnds == \A h \in Handlers : pc[h] # "idle" ~> pc[h] = "idle"
=============================================================================
