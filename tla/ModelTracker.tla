---------------------------- MODULE ModelTracker ----------------------------
(***************************************************************************)
(* ModelTrackerService of services/model_tracker_service.py, for one       *)
(* endpoint, with the model server behind it: which models the proxy       *)
(* believes are loaded, which ones are, and the unloading of the least     *)
(* recently used model before another one is forwarded to.                 *)
(*                                                                         *)
(* A request passes ensure_capacity under the endpoint's asyncio.Lock, and *)
(* afterwards, with no lock, forwards to the server (a responses request   *)
(* does so several times), which loads the model it is asked for.          *)
(***************************************************************************)
EXTENDS FiniteSets, DistinctSequences

CONSTANTS
  Requests,   \* concurrent requests to the endpoint
  Models,     \* models the endpoint serves
  Limits,     \* values its max_models setting takes; 0 disables tracking
  None        \* no model, no request

ASSUME LimitsAssumption == Limits \subseteq Nat
ASSUME NoneAssumption == None \notin Models
ASSUME ModelsAssumption == IsFiniteSet(Models)

VARIABLES
  limit,        \* the configured max_models
  initialized,  \* endpoint name in _initialized
  loaded,       \* _loaded[endpoint], by last use, the least recent first
  turn,         \* the endpoint's lock: its holder, then whoever queues for it
  pc,           \* request -> progress
  job,          \* request -> its model, and max_models as it read it
  victim,       \* request -> lru_model
  resident,     \* the models the server has in memory
  lapsed,       \* history: the tracker was misinformed, or max_models changed
  raced         \* history: a request reached the server after its model was dropped

trackerVars == <<limit, initialized, loaded, turn, pc, job, victim>>
historyVars == <<lapsed, raced>>
vars == <<trackerVars, resident, historyVars>>

Jobs == [model : Models, limit : Limits]
Phases == {"idle", "queue", "init", "unload", "unloaded", "ready", "running"}

Tracked == ToSet(loaded)

Goto(r, label) == pc' = [pc EXCEPT ![r] = label]

Init ==
  /\ limit \in Limits
  /\ initialized = FALSE
  /\ loaded = <<>>
  /\ turn = <<>>
  /\ pc = [r \in Requests |-> "idle"]
  /\ job = [r \in Requests |-> None]
  /\ victim = [r \in Requests |-> None]
  /\ resident \in SUBSET Models
  /\ lapsed = FALSE
  /\ raced = FALSE

\* The operator edits max_models.
Reconfigure(n) ==
  /\ limit # n
  /\ limit' = n
  /\ lapsed' = TRUE
  /\ UNCHANGED <<initialized, loaded, turn, pc, job, victim, resident, raced>>

-----------------------------------------------------------------------------
(* ensure_capacity                                                         *)

\* With max_models below one the request goes ahead untracked.
Arrive(r, m) ==
  /\ pc[r] = "idle"
  /\ job' = [job EXCEPT ![r] = [model |-> m, limit |-> limit]]
  /\ IF limit < 1 THEN Goto(r, "ready") /\ UNCHANGED turn
     ELSE Goto(r, "queue") /\ turn' = Append(turn, r)
  /\ UNCHANGED <<limit, initialized, loaded, victim, resident, historyVars>>

\* Mutant: there is no lock.
HasTurnAlways(r) == TRUE

\* async with self._lock(endpoint.name)
HasTurn(r) == turn # <<>> /\ Head(turn) = r

\* Mutant: room for one more than max_models.
AdmitOneMore(r, q) ==
  /\ initialized' = TRUE
  /\ IF job[r].model \in ToSet(q) \/ Len(q) <= job[r].limit
     THEN /\ loaded' = MovedToEnd(q, job[r].model)
          /\ victim' = [victim EXCEPT ![r] = None]
          /\ Goto(r, "ready")
          /\ turn' = Without(turn, r)
     ELSE /\ loaded' = q
          /\ victim' = [victim EXCEPT ![r] = Head(q)]
          /\ Goto(r, "unload")
          /\ UNCHANGED turn

\* Mutant: a model that is used again is listed again.
AdmitListingTwice(r, q) ==
  /\ initialized' = TRUE
  /\ IF job[r].model \in ToSet(q) \/ Len(q) < job[r].limit
     THEN /\ loaded' = Append(q, job[r].model)
          /\ victim' = [victim EXCEPT ![r] = None]
          /\ Goto(r, "ready")
          /\ turn' = Without(turn, r)
     ELSE /\ loaded' = q
          /\ victim' = [victim EXCEPT ![r] = Head(q)]
          /\ Goto(r, "unload")
          /\ UNCHANGED turn

\* From the last await on, q being what is listed: go ahead when the model is
\* listed or there is room for it, else post an unload of the least recent.
Admit(r, q) ==
  /\ initialized' = TRUE
  /\ IF job[r].model \in ToSet(q) \/ Len(q) < job[r].limit
     THEN /\ loaded' = MovedToEnd(q, job[r].model)
          /\ victim' = [victim EXCEPT ![r] = None]
          /\ Goto(r, "ready")
          /\ turn' = Without(turn, r)
     ELSE /\ loaded' = q
          /\ victim' = [victim EXCEPT ![r] = Head(q)]
          /\ Goto(r, "unload")
          /\ UNCHANGED turn

\* It is r's turn.  The first one asks the server what is loaded.
Enter(r) ==
  /\ pc[r] = "queue"
  /\ HasTurn(r)
  /\ IF initialized THEN Admit(r, loaded)
     ELSE Goto(r, "init") /\ UNCHANGED <<initialized, loaded, victim, turn>>
  /\ UNCHANGED <<limit, job, resident, historyVars>>

\* _initialize: the models the server lists as loaded, in the order it lists them,
\* or, when the request fails, none.  More than max_models is a lapse
\* as well.
Initialize(r) ==
  /\ pc[r] = "init"
  /\ \/ \E q \in SetToSeqs(resident) :
          /\ Admit(r, q)
          /\ lapsed' = (lapsed \/ Len(q) > job[r].limit)
     \/ /\ Admit(r, <<>>)
        /\ lapsed' = (lapsed \/ resident # {})
  /\ UNCHANGED <<limit, job, resident, raced>>

\* The server carries out POST /models/unload, or the call fails, which is logged.
Unload(r) ==
  /\ pc[r] = "unload"
  /\ \/ /\ resident' = resident \ {victim[r]}
        /\ UNCHANGED lapsed
     \/ /\ lapsed' = TRUE
        /\ UNCHANGED resident
  /\ Goto(r, "unloaded")
  /\ UNCHANGED <<limit, initialized, loaded, turn, job, victim, raced>>

\* Mutant: the victim of a finished unload stays listed.
ResumeKeeping(r) ==
  /\ pc[r] = "unloaded"
  /\ Admit(r, loaded)
  /\ UNCHANGED <<limit, job, resident, historyVars>>

\* del loaded[lru_model], either way, and round the loop again.
Resume(r) ==
  /\ pc[r] = "unloaded"
  /\ Admit(r, Without(loaded, victim[r]))
  /\ UNCHANGED <<limit, job, resident, historyVars>>

-----------------------------------------------------------------------------
(* After ensure_capacity                                                   *)

\* A model that the tracker does not list, or is about to drop.
Dropped(m) == m \notin Tracked \/ \E r \in Requests : victim[r] = m

\* The request reaches the server, which loads the model if it has to.
Forward(r) ==
  /\ pc[r] = "ready"
  /\ resident' = resident \cup {job[r].model}
  /\ raced' = (raced \/ Dropped(job[r].model))
  /\ Goto(r, "running")
  /\ UNCHANGED <<limit, initialized, loaded, turn, job, victim, lapsed>>

\* The tool loop and the map-reduce of /responses forward again.
Again(r) ==
  /\ pc[r] = "running"
  /\ Goto(r, "ready")
  /\ UNCHANGED <<limit, initialized, loaded, turn, job, victim, resident, historyVars>>

\* Answered, failed, or the client went away.
Finish(r) ==
  /\ pc[r] \in {"ready", "running"}
  /\ Goto(r, "idle")
  /\ job' = [job EXCEPT ![r] = None]
  /\ UNCHANGED <<limit, initialized, loaded, turn, victim, resident, historyVars>>

-----------------------------------------------------------------------------
Ensure(r) == Enter(r) \/ Initialize(r) \/ Unload(r) \/ Resume(r)

Next ==
  \/ \E n \in Limits : Reconfigure(n)
  \/ \E r \in Requests :
       \/ \E m \in Models : Arrive(r, m)
       \/ Ensure(r) \/ Forward(r) \/ Again(r) \/ Finish(r)

Spec == Init /\ [][Next]_vars

\* Management calls return: the client gives each of them 60 seconds.
FairSpec == Spec /\ \A r \in Requests : WF_vars(Ensure(r))

-----------------------------------------------------------------------------
(* Properties.                                                             *)

InLock == {"queue", "init", "unload", "unloaded"}

\* Types; and the lock's queue is made of those inside ensure_capacity, each once,
\* of whom only the first is past the lock.
TypeOK ==
  /\ limit \in Limits
  /\ initialized \in BOOLEAN
  /\ loaded \in Seq(Models) /\ Distinct(loaded)
  /\ pc \in [Requests -> Phases]
  /\ job \in [Requests -> Jobs \cup {None}]
  /\ victim \in [Requests -> Models \cup {None}]
  /\ resident \subseteq Models
  /\ {lapsed, raced} \subseteq BOOLEAN
  /\ turn \in Seq(Requests) /\ Distinct(turn)
  /\ \A r \in Requests :
       /\ r \in ToSet(turn) <=> pc[r] \in InLock
       /\ pc[r] \in InLock \ {"queue"} => HasTurn(r)

\* lru_model, chosen before the unload call is awaited, is still listed when it is
\* deleted after it: "del loaded[lru_model]" never raises, and never drops a model
\* that was used meanwhile.
VictimStillLast ==
  \A r \in Requests :
    pc[r] \in {"unload", "unloaded"} => loaded # <<>> /\ victim[r] = Head(loaded)

\* What max_models promises does hold until a management call fails, the setting
\* is edited, or a request reaches the server after its model was dropped again.
CapUnlessRaced ==
  ~lapsed /\ ~raced /\ limit > 0 /\ initialized => Cardinality(resident) <= limit

\* "max_models: 0 = unlimited; >0 caps concurrent model slots" (README.md): from
\* the first admission on, as long as every management call succeeds and the
\* setting stays, the server holds no more models than that.
CapHolds == ~lapsed /\ limit > 0 /\ initialized => Cardinality(resident) <= limit

\* ensure_capacity returns, whatever the management calls do.
AdmissionEnds ==
  \A r \in Requests : pc[r] \in InLock ~> pc[r] \notin InLock
=============================================================================
