----------------------------- MODULE TraceIndex -----------------------------
(***************************************************************************)
(* The trace index: request handlers writing pairs of trace files          *)
(* (save_request_trace, save_response_trace of services/proxy_service.py), *)
(* the indexer thread of services/trace_index_service.py that mirrors them *)
(* into SQLite rows, POST /index/rebuild, a request that lists traces      *)
(* (list_traces of filesystem/indexed_trace_repository.py), and restarts   *)
(* of the proxy, which keep the files and the rows and nothing else.       *)
(*                                                                         *)
(* Handlers, the indexer, the rebuild call and the listing are threads of  *)
(* their own: one action is what a thread does between two accesses to     *)
(* files, rows or flags that another thread may change in between.  A row  *)
(* stands for what distinguishes it: whether it has the response's usage,  *)
(* and "complete".                                                         *)
(***************************************************************************)
EXTENDS Naturals, FiniteSets

CONSTANTS
  Traces,       \* trace ids
  BatchSize,    \* _BATCH_SIZE
  MaxDay,       \* bound: midnights
  MaxMishaps,   \* bound: rebuild calls, exceptions in the indexer, ends of the process
  None

ASSUME TracesAssumption == IsFiniteSet(Traces)
ASSUME BatchAssumption == BatchSize \in Nat \ {0}
ASSUME BoundsAssumption == MaxDay \in Nat /\ MaxMishaps \in Nat

VARIABLES
  day,        \* date.today()
  writer,     \* trace -> progress of its handler
  request,    \* trace -> its request file
  response,   \* trace -> its response file
  shard,      \* trace -> the day directory of its request file
  aside,      \* traces whose response file went to another directory
  expired,    \* traces older than _RESPONSE_GRACE
  rows,       \* trace -> its row in the index
  up,         \* the process runs
  ready, stopping, requested,   \* the service's events (requested: a rebuild)
  caller,     \* progress of a rebuild call
  reader,     \* progress of a listing; history: "overtaken", the index was emptied since
              \* it looked at ready
  due,        \* history: promised, when the listing looked at ready
  pc, mode, pass,               \* the indexer: where it is, doing what
  todo, chunk, batch,           \* paths to read, those of this batch, rows built
  at, seen,                     \* the path being read, whether its usage was found
  promised,   \* history: the traces on disk when the last full scan of a build began
  mishaps

fileVars == <<writer, request, response, shard, aside>>
flagVars == <<ready, stopping, requested>>
readerVars == <<reader, due>>
localVars == <<todo, chunk, batch, at, seen>>
vars == <<day, fileVars, expired, rows, up, flagVars, caller, readerVars, pc, mode,
          pass, localVars, promised, mishaps>>

Files == {"none", "partial", "whole"}
Row == [usage : BOOLEAN, complete : BOOLEAN]
Modes == {"rebuild", "catch up", "hot", "full"}
ASSUME NoneAssumption == None \notin Row \cup Modes
Indexed == {t \in Traces : rows[t] # None}

Init ==
  /\ day = 0
  /\ writer = [t \in Traces |-> "new"]
  /\ request = [t \in Traces |-> "none"]
  /\ response = [t \in Traces |-> "none"]
  /\ shard = [t \in Traces |-> 0]
  /\ aside = {} /\ expired = {}
  /\ rows = [t \in Traces |-> None]
  /\ up = TRUE
  /\ ready = FALSE /\ stopping = FALSE /\ requested = FALSE
  /\ caller = "idle"
  /\ reader = "idle" /\ due = {}
  /\ pc = "top" /\ mode = None /\ pass = None
  /\ todo = {} /\ chunk = {} /\ batch = {} /\ at = None /\ seen = FALSE
  /\ promised = {}
  /\ mishaps = 0

indexerVars == <<pc, mode, pass, localVars, promised>>

Mishap == mishaps < MaxMishaps /\ mishaps' = mishaps + 1

-----------------------------------------------------------------------------
(* Time.                                                                   *)

Midnight ==
  /\ day < MaxDay
  /\ day' = day + 1
  /\ UNCHANGED <<fileVars, expired, rows, up, flagVars, caller, readerVars, indexerVars, mishaps>>

GraceEnds(t) ==
  /\ request[t] # "none" /\ t \notin expired
  /\ expired' = expired \cup {t}
  /\ UNCHANGED <<day, fileVars, rows, up, flagVars, caller, readerVars, indexerVars, mishaps>>

-----------------------------------------------------------------------------
(* Request handlers.  open(..., "w") creates the file, json.dump fills it. *)

Handler(t, from, to) == up /\ writer[t] = from /\ writer' = [writer EXCEPT ![t] = to]
HandlerKeeps == UNCHANGED <<day, expired, rows, up, flagVars, caller, readerVars, indexerVars, mishaps>>

OpenRequest(t) ==
  /\ Handler(t, "new", "request")
  /\ request' = [request EXCEPT ![t] = "partial"]
  /\ shard' = [shard EXCEPT ![t] = day]
  /\ UNCHANGED <<response, aside>> /\ HandlerKeeps

CloseRequest(t) ==
  /\ Handler(t, "request", "upstream")
  /\ request' = [request EXCEPT ![t] = "whole"]
  /\ UNCHANGED <<response, shard, aside>> /\ HandlerKeeps

\* The directory of the response is worked out from the date it is written on.
OpenResponse(t) ==
  /\ Handler(t, "upstream", "response")
  /\ response' = [response EXCEPT ![t] = "partial"]
  /\ aside' = IF shard[t] = day THEN aside ELSE aside \cup {t}
  /\ UNCHANGED <<request, shard>> /\ HandlerKeeps

CloseResponse(t) ==
  /\ Handler(t, "response", "over")
  /\ response' = [response EXCEPT ![t] = "whole"]
  /\ UNCHANGED <<request, shard, aside>> /\ HandlerKeeps

\* The call ends without a response trace.
Forgo(t) ==
  /\ Handler(t, "upstream", "over")
  /\ UNCHANGED <<request, response, shard, aside>> /\ HandlerKeeps

-----------------------------------------------------------------------------
(* POST /index/rebuild: request_rebuild sets one event and clears another. *)

RequestRebuild ==
  /\ up /\ caller = "idle" /\ Mishap
  /\ requested' = TRUE
  /\ caller' = "clear"
  /\ UNCHANGED <<day, fileVars, expired, rows, up, ready, stopping, readerVars,
                 indexerVars>>

ClearReady ==
  /\ caller = "clear"
  /\ ready' = FALSE
  /\ caller' = "idle"
  /\ UNCHANGED <<day, fileVars, expired, rows, up, stopping, requested, readerVars,
                 indexerVars, mishaps>>

-----------------------------------------------------------------------------
(* Listing the traces, in a thread of the pool that serves the requests.  A *)
(* listing that does not find ready set reads the disk: nothing changes.    *)

CheckReady ==
  /\ up /\ ~stopping /\ reader = "idle" /\ ready
  /\ reader' = "query" /\ due' = promised
  /\ UNCHANGED <<day, fileVars, expired, rows, up, flagVars, caller, indexerVars, mishaps>>

\* The query is one statement, on the rows there are now.
Query ==
  /\ reader # "idle"
  /\ reader' = "idle" /\ due' = {}
  /\ UNCHANGED <<day, fileVars, expired, rows, up, flagVars, caller, indexerVars, mishaps>>

-----------------------------------------------------------------------------
(* The indexer thread: _run.                                               *)

World == <<day, fileVars, expired, up, caller>>
Locals(list, next) ==
  /\ todo' = list /\ chunk' = {} /\ batch' = {} /\ at' = None /\ seen' = FALSE
  /\ pc' = next

\* Mutant: ready is left to the caller of the rebuild.
RebuildServing ==
  /\ pc = "top" /\ ~stopping /\ requested
  /\ requested' = FALSE
  /\ mode' = "rebuild" /\ pc' = "clear"
  /\ UNCHANGED <<World, readerVars, rows, ready, stopping, pass, localVars, promised, mishaps>>

\* The top of the loop, up to the first access of the branch it takes.
Rebuild ==
  /\ pc = "top" /\ ~stopping /\ requested
  /\ requested' = FALSE
  /\ ready' = FALSE
  /\ mode' = "rebuild" /\ pc' = "clear"
  /\ UNCHANGED <<World, readerVars, rows, stopping, pass, localVars, promised, mishaps>>

Clear ==
  /\ pc = "clear"
  /\ rows' = [t \in Traces |-> None]
  /\ reader' = IF reader = "query" THEN "overtaken" ELSE reader
  /\ pc' = "scan"
  /\ UNCHANGED <<World, flagVars, due, mode, pass, localVars, promised, mishaps>>

CatchUp ==
  /\ pc = "top" /\ ~stopping /\ ~requested /\ ~ready
  /\ mode' = "catch up" /\ pc' = "scan"
  /\ UNCHANGED <<World, readerVars, rows, flagVars, pass, localVars, promised, mishaps>>

\* A pass over the recent directories, or when it is due over all of them.
Poll(kind) ==
  /\ pc = "top" /\ ~stopping /\ ~requested /\ ready
  /\ mode' = kind /\ pc' = "scan"
  /\ UNCHANGED <<World, readerVars, rows, flagVars, pass, localVars, promised, mishaps>>

Retire ==
  /\ pc = "top" /\ stopping
  /\ pc' = "off"
  /\ UNCHANGED <<World, readerVars, rows, flagVars, mode, pass, localVars, promised, mishaps>>

\* Today's and yesterday's directories.
Hot == {t \in Traces : day <= shard[t] + 1}

\* Mutant: every scan is a scan of the recent directories.
UnseenHot == {t \in Hot : request[t] # "none"} \ Indexed

\* Request files on disk that the index has not seen yet.
Unseen == {t \in IF mode = "hot" THEN Hot ELSE Traces : request[t] # "none"} \ Indexed

Scan ==
  /\ pc = "scan"
  /\ pass' = "scan"
  /\ promised' = IF mode \in {"hot", "full"} THEN promised
                 ELSE {t \in Traces : request[t] = "whole"}
  /\ Locals(Unseen, IF Unseen = {} THEN "pending" ELSE "read")
  /\ UNCHANGED <<World, readerVars, rows, flagVars, mode, mishaps>>

\* _build_entry looks for the response file beside the request file.
HasResponse(t) == response[t] # "none" /\ t \notin aside
UsageReadable(t) == response[t] = "whole" /\ t \notin aside

\* The next batch of paths.
NextChunk ==
  /\ pc = "read" /\ chunk = {} /\ todo # {}
  /\ \E c \in SUBSET todo :
       /\ Cardinality(c) = IF Cardinality(todo) < BatchSize THEN Cardinality(todo) ELSE BatchSize
       /\ chunk' = c
       /\ todo' = todo \ c
  /\ UNCHANGED <<World, readerVars, rows, flagVars, mode, pass, pc, batch, at, seen, promised, mishaps>>

\* build_summary: no entry without a readable request, no usage without a readable
\* response.
ReadSummary(t) ==
  /\ pc = "read" /\ t \in chunk
  /\ IF request[t] = "whole" THEN pc' = "check" /\ at' = t /\ seen' = UsageReadable(t)
     ELSE pc' = (IF chunk = {t} THEN "write" ELSE "read") /\ UNCHANGED <<at, seen>>
  /\ chunk' = chunk \ {t}
  /\ UNCHANGED <<World, readerVars, rows, flagVars, mode, pass, todo, batch, promised, mishaps>>

\* has_response, evaluated after build_summary.
CheckResponse ==
  /\ pc = "check"
  /\ batch' = batch \cup {[id |-> at, row |-> [usage |-> seen, complete |-> HasResponse(at)]]}
  /\ at' = None /\ seen' = FALSE
  /\ pc' = IF chunk = {} THEN "write" ELSE "read"
  /\ UNCHANGED <<World, readerVars, rows, flagVars, mode, pass, todo, chunk, promised, mishaps>>

\* upsert_many, one transaction; then on to the next batch unless stopping.
Upserted(b) ==
  [t \in Traces |-> IF \E e \in b : e.id = t THEN (CHOOSE e \in b : e.id = t).row ELSE rows[t]]

AfterPass == IF pass = "scan" THEN "pending" ELSE "publish"

\* Mutant: the list of entries is not started anew for each batch.
WriteKeepingBatch ==
  /\ pc = "write"
  /\ rows' = Upserted(batch)
  /\ IF stopping \/ todo = {} THEN pc' = AfterPass /\ todo' = {}
     ELSE pc' = "read" /\ UNCHANGED todo
  /\ UNCHANGED <<World, readerVars, flagVars, mode, pass, chunk, batch, at, seen, promised, mishaps>>

Write ==
  /\ pc = "write"
  /\ rows' = Upserted(batch)
  /\ batch' = {}
  /\ IF stopping \/ todo = {} THEN pc' = AfterPass /\ todo' = {}
     ELSE pc' = "read" /\ UNCHANGED todo
  /\ UNCHANGED <<World, readerVars, flagVars, mode, pass, chunk, at, seen, promised, mishaps>>

\* Mutant: the comparison with the cutoff is turned round.
PendingExpired == {t \in Indexed : ~rows[t].complete /\ t \in expired /\ HasResponse(t)}

\* Incomplete rows still within the grace period whose response has appeared.
Pending == {t \in Indexed : ~rows[t].complete /\ t \notin expired /\ HasResponse(t)}

RefreshIncomplete ==
  /\ pc = "pending"
  /\ pass' = "refresh"
  /\ Locals(Pending, IF Pending = {} THEN "publish" ELSE "read")
  /\ UNCHANGED <<World, readerVars, rows, flagVars, mode, promised, mishaps>>

\* Mutant: only a rebuild sets ready.
PublishRebuilds ==
  /\ pc = "publish"
  /\ ready' = (ready \/ mode = "rebuild")
  /\ pc' = "top" /\ mode' = None /\ pass' = None
  /\ UNCHANGED <<World, readerVars, rows, stopping, requested, localVars, promised, mishaps>>

\* A build ends with ready.set(); every branch with a wait, the time spent at "top".
Publish ==
  /\ pc = "publish"
  /\ ready' = (ready \/ mode \in {"rebuild", "catch up"})
  /\ pc' = "top" /\ mode' = None /\ pass' = None
  /\ UNCHANGED <<World, readerVars, rows, stopping, requested, localVars, promised, mishaps>>

\* An exception anywhere in a pass is recorded, and the loop goes on.
Busy == {"clear", "scan", "read", "check", "write", "pending"}

Raise ==
  /\ pc \in Busy /\ Mishap
  /\ Locals({}, "top") /\ mode' = None /\ pass' = None
  /\ UNCHANGED <<World, readerVars, rows, flagVars, promised>>

-----------------------------------------------------------------------------
(* The process.                                                            *)

Stop ==
  /\ up /\ ~stopping /\ Mishap
  /\ stopping' = TRUE
  /\ UNCHANGED <<World, readerVars, rows, ready, requested, indexerVars>>

\* The process ends, with or without a stop() before: the thread is a daemon.
Exit ==
  /\ up
  /\ (stopping /\ UNCHANGED mishaps) \/ (~stopping /\ Mishap)
  /\ up' = FALSE
  /\ writer' = [t \in Traces |-> IF writer[t] = "new" THEN "new" ELSE "over"]
  /\ caller' = "idle" /\ reader' = "idle" /\ due' = {}
  /\ ready' = FALSE /\ stopping' = FALSE /\ requested' = FALSE
  /\ mode' = None /\ pass' = None /\ Locals({}, "off")
  /\ promised' = {}
  /\ UNCHANGED <<day, request, response, shard, aside, expired, rows>>

Start ==
  /\ ~up
  /\ up' = TRUE /\ pc' = "top"
  /\ UNCHANGED <<day, fileVars, expired, rows, flagVars, caller, readerVars, mode, pass, localVars,
                 promised, mishaps>>

-----------------------------------------------------------------------------
Handle(t) == CloseRequest(t) \/ OpenResponse(t) \/ CloseResponse(t) \/ Forgo(t)

Loop ==
  \/ Rebuild \/ Clear \/ CatchUp \/ Poll("hot") \/ Poll("full") \/ Retire
  \/ Scan \/ NextChunk \/ (\E t \in Traces : ReadSummary(t)) \/ CheckResponse \/ Write
  \/ RefreshIncomplete \/ Publish

Next ==
  \/ Midnight
  \/ \E t \in Traces : GraceEnds(t) \/ OpenRequest(t) \/ Handle(t)
  \/ RequestRebuild \/ ClearReady \/ CheckReady \/ Query
  \/ Loop \/ Raise
  \/ Stop \/ Exit \/ Start

Spec == Init /\ [][Next]_vars

\* The thread runs, and a full sweep comes round again and again; the process is
\* started again when it ended, and ends when it is told to stop.
FairSpec ==
  /\ Spec
  /\ WF_vars(Loop) /\ SF_vars(Poll("full"))
  /\ WF_vars(ClearReady) /\ WF_vars(Start) /\ WF_vars(stopping /\ Exit)

-----------------------------------------------------------------------------
(* Properties.                                                             *)

FilesOK ==
  /\ day \in 0..MaxDay
  /\ writer \in [Traces -> {"new", "request", "upstream", "response", "over"}]
  /\ request \in [Traces -> Files] /\ response \in [Traces -> Files]
  /\ shard \in [Traces -> 0..MaxDay]
  /\ aside \subseteq Traces /\ expired \subseteq Traces
  /\ up \in BOOLEAN /\ ready \in BOOLEAN /\ stopping \in BOOLEAN /\ requested \in BOOLEAN
  /\ caller \in {"idle", "clear"}

ReaderOK == reader \in {"idle", "query", "overtaken"} /\ due \subseteq Traces

IndexerOK ==
  /\ rows \in [Traces -> Row \cup {None}]
  /\ pc \in Busy \cup {"off", "top", "publish"}
  /\ mode \in Modes \cup {None}
  /\ pass \in {None, "scan", "refresh"}
  /\ todo \subseteq Traces /\ chunk \subseteq Traces
  /\ batch \subseteq [id : Traces, row : Row] /\ Cardinality(batch) <= BatchSize
  /\ at \in Traces \cup {None} /\ seen \in BOOLEAN
  /\ promised \subseteq Traces

TypeOK == FilesOK /\ ReaderOK /\ IndexerOK

\* While ready is set the index has every trace that was on disk when it was last built.
\* (While stopping, a build that is cut short does set ready; no listing begins then.)
NeverHalfBuilt == ready /\ ~stopping => promised \subseteq Indexed

\* "a half-rebuilt index must never be served" (_rebuild), at the moment of the query, which
\* is later than the look at ready: what a listing reads has every trace that was on disk at
\* the build it was promised, unless a rebuild emptied the index between the two and has not
\* been through yet.
ListingsWhole ==
  reader # "idle" /\ ~stopping => due \subseteq Indexed \/ (reader = "overtaken" /\ ~ready)

\* A trace is indexed once its request is on disk, across errors, rebuilds and
\* restarts.
EventuallyIndexed == \A t \in Traces : request[t] = "whole" ~> t \in Indexed

\* "Traces indexed before their response file landed are revisited until they
\* complete", as far as the grace period goes.
EventuallyRevisited ==
  \A t \in Traces :
    t \in Indexed /\ ~rows[t].complete /\ HasResponse(t)
      ~> t \in expired \/ (t \in Indexed /\ rows[t].complete)

\* A build that is needed or was requested is done: listings do not stay on disk.
EventuallyReady == ~ready ~> ready
=============================================================================
