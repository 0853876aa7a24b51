--------------------------- MODULE TraceIndexProofs ---------------------------
(***************************************************************************)
(* Proofs about TraceIndex: while it is ready the index lacks no trace     *)
(* which was on disk when it was last built, and a listing reads no less,  *)
(* unless a rebuild came in between, for any number of traces, batches of  *)
(* any size, and any number of midnights, rebuild requests, exceptions and *)
(* restarts.                                                               *)
(***************************************************************************)
EXTENDS TraceIndex, FiniteSetTheorems, TLAPS

USE TracesAssumption, BatchAssumption, BoundsAssumption, NoneAssumption

-----------------------------------------------------------------------------
(* The inductive invariant of files, flags and rows.                       *)

Building == mode \in {"rebuild", "catch up"}
Reading == pc \in {"read", "check", "write"}
BatchIds == {e.id : e \in batch}
ReadNow == IF pc = "check" THEN {at} ELSE {}

\* What this batch has read, is reading and has yet to read are together no more than
\* BatchSize, and a batch starts empty.
BatchBounded ==
  /\ IsFiniteSet(batch)
  /\ Cardinality(batch) + Cardinality(ReadNow) + Cardinality(chunk) <= BatchSize
  /\ pc = "read" /\ chunk = {} => batch = {}
  /\ pc = "write" => chunk = {}
  /\ pc = "check" => at \in Traces

\* What is promised has a request file that can be read, and stays so: a handler that has
\* not begun has no file yet.
PromisesReadable ==
  /\ \A t \in promised : request[t] = "whole"
  /\ \A t \in Traces : writer[t] = "new" => request[t] = "none"

\* While it is built the index is not served, and only a rebuild empties it.
BuiltUnseen ==
  /\ Building => ~ready
  /\ pc = "clear" => mode = "rebuild"
  /\ pc = "scan" => mode \in Modes

\* Of what a build has promised, the rows that are missing are on their way until the scan is
\* over, and none is missing afterwards.  (A build that is told to stop drops the rest.)
NothingDropped ==
  Building /\ ~stopping =>
    /\ Reading /\ pass = "scan" => promised \subseteq Indexed \cup todo \cup chunk \cup ReadNow \cup BatchIds
    /\ (Reading /\ pass # "scan") \/ pc \in {"pending", "publish"} => promised \subseteq Indexed

StoreOK == FilesOK /\ IndexerOK

IInv == StoreOK /\ BatchBounded /\ PromisesReadable /\ BuiltUnseen /\ NothingDropped /\ NeverHalfBuilt

-----------------------------------------------------------------------------
(* Rows.                                                                   *)

\* Writing a batch gives rows to what is in it, and takes none away.
LEMMA UpsertedRows ==
  ASSUME StoreOK
  PROVE  /\ Upserted(batch) \in [Traces -> Row \cup {None}]
         /\ {t \in Traces : Upserted(batch)[t] # None} = Indexed \cup BatchIds
<1>1. batch \subseteq [id : Traces, row : Row] /\ rows \in [Traces -> Row \cup {None}]
  BY DEF StoreOK, IndexerOK
<1>2. ASSUME NEW t \in Traces, t \in BatchIds
      PROVE  Upserted(batch)[t] \in Row
  <2>1. \E e \in batch : e.id = t
    BY <1>2 DEF BatchIds
  <2>2. PICK e \in batch : e.id = t /\ Upserted(batch)[t] = e.row
    BY <2>1 DEF Upserted
  <2> QED BY <1>1, <2>2
<1>3. ASSUME NEW t \in Traces, t \notin BatchIds
      PROVE  Upserted(batch)[t] = rows[t]
  BY <1>3 DEF Upserted, BatchIds
<1>4. BatchIds \subseteq Traces
  BY <1>1 DEF BatchIds
<1>5. DOMAIN Upserted(batch) = Traces /\ Upserted(batch) = [t \in Traces |-> Upserted(batch)[t]]
  BY DEF Upserted
<1> HIDE DEF Upserted
<1>6. Upserted(batch) \in [Traces -> Row \cup {None}]
  BY <1>1, <1>2, <1>3, <1>5
<1> QED BY <1>1, <1>2, <1>3, <1>4, <1>6 DEF Indexed

\* What a batch has at hand is finite.
LEMMA PartsFinite ==
  ASSUME StoreOK, BatchBounded
  PROVE  /\ IsFiniteSet(batch) /\ Cardinality(batch) \in Nat
         /\ IsFiniteSet(chunk) /\ Cardinality(chunk) \in Nat
         /\ Cardinality(ReadNow) = IF pc = "check" THEN 1 ELSE 0
<1>1. IsFiniteSet(batch) /\ Cardinality(batch) \in Nat
  BY FS_CardinalityType DEF BatchBounded
<1>2. chunk \subseteq Traces
  BY DEF StoreOK, IndexerOK
<1>3. IsFiniteSet(chunk) /\ Cardinality(chunk) \in Nat
  BY <1>2, FS_Subset, FS_CardinalityType
<1>4. Cardinality({}) = 0 /\ Cardinality({at}) = 1
  BY FS_EmptySet, FS_Singleton
<1> QED BY <1>1, <1>3, <1>4 DEF ReadNow

\* Outside the reading of a batch there is nothing to bound.
LEMMA AtRest ==
  ASSUME StoreOK, BatchBounded, batch' = batch, chunk' = chunk, pc' \notin {"read", "check", "write"}
  PROVE  BatchBounded'
<1>1. /\ Cardinality(batch) \in Nat /\ Cardinality(chunk) \in Nat
      /\ Cardinality(ReadNow) \in Nat /\ Cardinality({}) = 0
  BY PartsFinite, FS_EmptySet
<1>2. ReadNow' = {}
  BY DEF ReadNow
<1>3. Cardinality(batch') + Cardinality(ReadNow') + Cardinality(chunk') <= BatchSize
  BY <1>1, <1>2 DEF BatchBounded
<1> QED BY <1>3 DEF BatchBounded

-----------------------------------------------------------------------------
(* Steps of others than the indexer.                                       *)

LEMMA OthersKeep ==
  ASSUME IInv,
         \/ Midnight \/ RequestRebuild \/ ClearReady \/ CheckReady \/ Query \/ Stop
         \/ \E t \in Traces : GraceEnds(t) \/ OpenRequest(t) \/ Handle(t)
  PROVE  IInv'
<1> DEFINE Same == UNCHANGED <<rows, indexerVars>>
<1>1. Same
  BY DEF Midnight, RequestRebuild, ClearReady, CheckReady, Query, Stop, GraceEnds, OpenRequest, Handle, CloseRequest,
         OpenResponse, CloseResponse, Forgo, HandlerKeeps, World
<1>2. /\ StoreOK /\ BatchBounded /\ PromisesReadable /\ BuiltUnseen /\ NothingDropped /\ NeverHalfBuilt
  BY DEF IInv
<1>3. /\ rows' = rows /\ pc' = pc /\ mode' = mode /\ pass' = pass /\ promised' = promised
      /\ todo' = todo /\ chunk' = chunk /\ batch' = batch /\ at' = at /\ seen' = seen
  BY <1>1 DEF indexerVars, localVars
<1>6. FilesOK' /\ (ready' => ready) /\ (stopping => stopping')
  <2>1. CASE Midnight \/ CheckReady \/ Query
    BY <1>2, <2>1 DEF Midnight, CheckReady, Query, StoreOK, FilesOK, fileVars, flagVars
  <2>2. CASE RequestRebuild \/ ClearReady \/ Stop
    <3>1. UNCHANGED <<day, writer, request, response, shard, aside, expired, up>>
      BY <2>2 DEF RequestRebuild, ClearReady, Stop, World, fileVars
    <3>2. caller' \in {"idle", "clear"}
      BY <1>2, <2>2 DEF RequestRebuild, ClearReady, Stop, World, StoreOK, FilesOK
    <3>3. /\ ready' \in BOOLEAN /\ stopping' \in BOOLEAN /\ requested' \in BOOLEAN
          /\ (ready' => ready) /\ (stopping => stopping')
      <4>1. \/ requested' = TRUE /\ ready' = ready /\ stopping' = stopping
            \/ ready' = FALSE /\ requested' = requested /\ stopping' = stopping
            \/ stopping' = TRUE /\ ready' = ready /\ requested' = requested
        BY <2>2 DEF RequestRebuild, ClearReady, Stop
      <4>2. ready \in BOOLEAN /\ stopping \in BOOLEAN /\ requested \in BOOLEAN
        BY <1>2 DEF StoreOK, FilesOK
      <4>3. CASE requested' = TRUE /\ ready' = ready /\ stopping' = stopping
        BY <4>2, <4>3
      <4>4. CASE ready' = FALSE /\ requested' = requested /\ stopping' = stopping
        BY <4>2, <4>4
      <4>5. CASE stopping' = TRUE /\ ready' = ready /\ requested' = requested
        BY <4>2, <4>5
      <4> QED BY <4>1, <4>3, <4>4, <4>5
    <3> QED BY <1>2, <3>1, <3>2, <3>3 DEF StoreOK, FilesOK
  <2>3. ASSUME NEW t \in Traces, GraceEnds(t)
        PROVE  FilesOK' /\ (ready' => ready) /\ (stopping => stopping')
    BY <1>2, <2>3 DEF GraceEnds, StoreOK, FilesOK, fileVars, flagVars
  <2>4. ASSUME NEW t \in Traces, OpenRequest(t) \/ Handle(t)
        PROVE  FilesOK' /\ (ready' => ready) /\ (stopping => stopping')
    <3>1. UNCHANGED <<day, expired, up, ready, stopping, requested, caller>>
      BY <2>4 DEF OpenRequest, Handle, CloseRequest, OpenResponse, CloseResponse, Forgo, HandlerKeeps, flagVars
    <3>2. \E to \in {"request", "upstream", "response", "over"} : writer' = [writer EXCEPT ![t] = to]
      BY <2>4 DEF OpenRequest, Handle, CloseRequest, OpenResponse, CloseResponse, Forgo, Handler
    <3>3. request' = request \/ \E file \in Files : request' = [request EXCEPT ![t] = file]
      BY <2>4 DEF OpenRequest, Handle, CloseRequest, OpenResponse, CloseResponse, Forgo, Files
    <3>4. response' = response \/ \E file \in Files : response' = [response EXCEPT ![t] = file]
      BY <2>4 DEF OpenRequest, Handle, CloseRequest, OpenResponse, CloseResponse, Forgo, Files
    <3>5. shard' = shard \/ shard' = [shard EXCEPT ![t] = day]
      BY <2>4 DEF OpenRequest, Handle, CloseRequest, OpenResponse, CloseResponse, Forgo
    <3>6. aside' \in {aside, aside \cup {t}}
      BY <2>4 DEF OpenRequest, Handle, CloseRequest, OpenResponse, CloseResponse, Forgo
    <3> QED BY <1>2, <3>1, <3>2, <3>3, <3>4, <3>5, <3>6 DEF StoreOK, FilesOK
  <2> QED BY <2>1, <2>2, <2>3, <2>4
<1>7. StoreOK'
  BY <1>2, <1>3, <1>6 DEF StoreOK, IndexerOK
<1>4. PromisesReadable'
  <2>1. CASE UNCHANGED <<writer, request>>
    BY <1>1, <1>2, <2>1 DEF PromisesReadable, indexerVars
  <2>2. ASSUME NEW t \in Traces, OpenRequest(t) \/ Handle(t)
        PROVE  PromisesReadable'
    <3>1. /\ writer' = [writer EXCEPT ![t] = writer'[t]] /\ writer'[t] # "new"
          /\ \/ request' = request
             \/ writer[t] = "new" /\ request' = [request EXCEPT ![t] = "partial"]
             \/ request' = [request EXCEPT ![t] = "whole"]
      BY <1>2, <2>2 DEF OpenRequest, Handle, CloseRequest, OpenResponse, CloseResponse, Forgo, Handler, StoreOK, FilesOK
    <3>2. /\ writer \in [Traces -> {"new", "request", "upstream", "response", "over"}]
          /\ request \in [Traces -> Files] /\ promised \subseteq Traces
      BY <1>2 DEF StoreOK, FilesOK, IndexerOK
    <3> QED BY <1>2, <1>3, <3>1, <3>2 DEF PromisesReadable
  <2> QED BY <2>1, <2>2 DEF Midnight, RequestRebuild, ClearReady, CheckReady, Query, Stop, GraceEnds, World, fileVars
<1>5. BatchBounded' /\ BuiltUnseen' /\ NothingDropped' /\ NeverHalfBuilt'
  BY <1>2, <1>3, <1>6 DEF BatchBounded, BuiltUnseen, NothingDropped, NeverHalfBuilt, Building, Reading, BatchIds,
                          ReadNow, Indexed, indexerVars, localVars
<1> QED BY <1>4, <1>5, <1>7 DEF IInv

\* The end of the process leaves nothing that could be served, or promised.
LEMMA ProcessKeeps ==
  ASSUME IInv, Exit \/ Start
  PROVE  IInv'
<1>1. StoreOK /\ BatchBounded /\ PromisesReadable /\ BuiltUnseen /\ NothingDropped /\ NeverHalfBuilt
  BY DEF IInv
<1>2. IsFiniteSet({}) /\ Cardinality({}) = 0
  BY FS_EmptySet
<1>3. CASE Exit
  <2>1. FilesOK' /\ PromisesReadable'
    BY <1>1, <1>3 DEF Exit, StoreOK, FilesOK, PromisesReadable
  <2>2. /\ pc' = "off" /\ mode' = None /\ pass' = None /\ promised' = {} /\ rows' = rows
        /\ todo' = {} /\ chunk' = {} /\ batch' = {} /\ at' = None /\ seen' = FALSE /\ ~ready'
    BY <1>3 DEF Exit, Locals
  <2>3. IndexerOK'
    <3>1. batch' \subseteq [id : Traces, row : Row] /\ Cardinality(batch') <= BatchSize
      BY <1>2, <2>2
    <3>2. todo' \subseteq Traces /\ chunk' \subseteq Traces /\ promised' \subseteq Traces
      BY <2>2
    <3>3. /\ rows' \in [Traces -> Row \cup {None}] /\ pc' \in Busy \cup {"off", "top", "publish"}
          /\ mode' \in Modes \cup {None} /\ pass' \in {None, "scan", "refresh"}
          /\ at' \in Traces \cup {None} /\ seen' \in BOOLEAN
      BY <1>1, <2>2 DEF StoreOK, IndexerOK
    <3> QED BY <3>1, <3>2, <3>3 DEF IndexerOK
  <2>4. BatchBounded'
    BY <1>2, <2>2 DEF BatchBounded, ReadNow
  <2> QED BY <2>1, <2>2, <2>3, <2>4 DEF IInv, StoreOK, BuiltUnseen, NothingDropped,
                                  NeverHalfBuilt, Building, Reading
<1>4. CASE Start
  <2>1. FilesOK' /\ PromisesReadable'
    BY <1>1, <1>4 DEF Start, StoreOK, FilesOK, PromisesReadable, fileVars, flagVars
  <2>2. /\ pc' = "top" /\ mode' = mode /\ pass' = pass /\ promised' = promised /\ rows' = rows
        /\ todo' = todo /\ chunk' = chunk /\ batch' = batch /\ at' = at /\ seen' = seen
        /\ ready' = ready /\ stopping' = stopping
    BY <1>4 DEF Start, localVars, flagVars
  <2>3. IndexerOK'
    BY <1>1, <2>2 DEF StoreOK, IndexerOK
  <2>4. BatchBounded' /\ BuiltUnseen' /\ NothingDropped' /\ NeverHalfBuilt'
    <3>3. BatchBounded'
      BY <1>1, <2>2, AtRest
    <3>4. BuiltUnseen' /\ NothingDropped'
      BY <1>1, <2>2 DEF BuiltUnseen, NothingDropped, Building, Reading
    <3>5. NeverHalfBuilt'
      BY <1>1, <2>2 DEF NeverHalfBuilt, Indexed
    <3> QED BY <3>3, <3>4, <3>5
  <2> QED BY <2>1, <2>3, <2>4 DEF IInv, StoreOK
<1> QED BY <1>3, <1>4

-----------------------------------------------------------------------------
(* Steps of the indexer, which leave the files alone.                      *)

\* What every step of the indexer leaves alone, and what follows from it.
LEMMA IndexerFrame ==
  ASSUME IInv, UNCHANGED World,
         ready' \in BOOLEAN, stopping' = stopping, requested' \in BOOLEAN
  PROVE  /\ FilesOK'
         /\ request' = request
         /\ promised' \subseteq promised => PromisesReadable'
<1>1. UNCHANGED <<day, writer, request, response, shard, aside, expired, up, caller>>
  BY DEF World, fileVars
<1> QED BY <1>1 DEF IInv, StoreOK, FilesOK, PromisesReadable

\* At the top of the loop nothing is at hand, and a build begins unseen.
LEMMA TopKeeps ==
  ASSUME IInv, Rebuild \/ CatchUp \/ Poll("hot") \/ Poll("full") \/ Retire
  PROVE  IInv'
<1>1. StoreOK /\ BatchBounded /\ PromisesReadable /\ BuiltUnseen /\ NothingDropped /\ NeverHalfBuilt
  BY DEF IInv
<1>2. /\ UNCHANGED World /\ rows' = rows /\ stopping' = stopping
      /\ todo' = todo /\ chunk' = chunk /\ batch' = batch /\ at' = at /\ seen' = seen
      /\ pass' = pass /\ promised' = promised
      /\ pc = "top" /\ pc' \in {"clear", "scan", "off"}
  BY DEF Rebuild, CatchUp, Poll, Retire, flagVars, localVars
<1>3. \/ requested' = FALSE /\ ready' = FALSE /\ mode' = "rebuild"
      \/ requested' = requested /\ ready = FALSE /\ ready' = ready /\ mode' = "catch up" /\ pc' = "scan"
      \/ requested' = requested /\ ready' = ready /\ mode' \in {"hot", "full"} /\ pc' = "scan"
      \/ requested' = requested /\ ready' = ready /\ mode' = mode /\ pc' = "off"
  BY <1>1 DEF Rebuild, CatchUp, Poll, Retire, flagVars, StoreOK, FilesOK
<1>4. ready \in BOOLEAN /\ stopping \in BOOLEAN /\ requested \in BOOLEAN
  BY <1>1 DEF StoreOK, FilesOK
<1>5. FilesOK' /\ PromisesReadable'
  BY <1>2, <1>3, <1>4, IndexerFrame
<1>6. IndexerOK'
  BY <1>1, <1>2, <1>3 DEF StoreOK, IndexerOK, Busy, Modes
<1>7. BatchBounded'
  BY <1>1, <1>2, AtRest
<1>8. BuiltUnseen' /\ NothingDropped'
  <2>1. (pc' = "clear" => mode' = "rebuild") /\ (pc' = "scan" => mode' \in Modes)
    <3>1. pc' = "scan" => mode' \in Modes
      BY <1>3, <1>2 DEF Rebuild, CatchUp, Poll, Retire, Modes
    <3>2. pc' = "clear" => mode' = "rebuild"
      BY <1>2, <1>3 DEF Rebuild, CatchUp, Poll, Retire
    <3> QED BY <3>1, <3>2
  <2>2. Building' => ~ready'
    BY <1>1, <1>3 DEF BuiltUnseen, Building
  <2>3. ~Reading' /\ pc' \notin {"pending", "publish"}
    BY <1>2 DEF Reading
  <2> QED BY <2>1, <2>2, <2>3 DEF BuiltUnseen, NothingDropped
<1>9. NeverHalfBuilt'
  BY <1>1, <1>2, <1>3, <1>4 DEF NeverHalfBuilt, Indexed
<1> QED BY <1>5, <1>6, <1>7, <1>8, <1>9 DEF IInv, StoreOK

\* A rebuild empties the index while it is not served.
LEMMA ClearKeeps ==
  ASSUME IInv, Clear
  PROVE  IInv'
<1>1. StoreOK /\ BatchBounded /\ BuiltUnseen
  BY DEF IInv
<1>2. /\ UNCHANGED World /\ ready' = ready /\ stopping' = stopping /\ requested' = requested
      /\ todo' = todo /\ chunk' = chunk /\ batch' = batch /\ at' = at /\ seen' = seen
      /\ mode' = mode /\ pass' = pass /\ promised' = promised
      /\ pc = "clear" /\ pc' = "scan" /\ rows' = [t \in Traces |-> None]
  BY DEF Clear, flagVars, localVars
<1>3. FilesOK' /\ PromisesReadable'
  BY <1>1, <1>2, IndexerFrame DEF StoreOK, FilesOK
<1>4. IndexerOK'
  BY <1>1, <1>2 DEF StoreOK, IndexerOK, Busy
<1>5. BatchBounded'
  BY <1>1, <1>2, AtRest
<1>6. mode = "rebuild" /\ ~ready
  BY <1>1, <1>2 DEF BuiltUnseen, Building
<1>7. BuiltUnseen' /\ NothingDropped' /\ NeverHalfBuilt'
  BY <1>2, <1>6 DEF BuiltUnseen, NothingDropped, NeverHalfBuilt, Building, Reading, Modes
<1> QED BY <1>3, <1>4, <1>5, <1>7 DEF IInv, StoreOK

\* Starting over with a list of paths.
LEMMA ListBegun ==
  ASSUME IInv, NEW list \in SUBSET Traces, Locals(list, IF list = {} THEN pc' ELSE "read"),
         pc' \in {"read", "pending", "publish", "top"}, list # {} => pc' = "read",
         rows' = rows, promised' \subseteq Traces,
         mode' \in {mode, None}, pass' \in {None, "scan", "refresh"}
  PROVE  IndexerOK' /\ BatchBounded'
<1>1. StoreOK
  BY DEF IInv
<1>2. todo' = list /\ chunk' = {} /\ batch' = {} /\ at' = None /\ seen' = FALSE
  BY DEF Locals
<1>3. IsFiniteSet({}) /\ Cardinality({}) = 0
  BY FS_EmptySet
<1>4. IndexerOK'
  <2>1. batch' \subseteq [id : Traces, row : Row] /\ Cardinality(batch') <= BatchSize
    BY <1>2, <1>3
  <2>2. pc' \in Busy \cup {"off", "top", "publish"}
    BY DEF Busy
  <2> QED BY <1>1, <1>2, <2>1, <2>2 DEF StoreOK, IndexerOK
<1>5. BatchBounded'
  <2>1. ReadNow' = {}
    BY DEF ReadNow
  <2> QED BY <1>2, <1>3, <2>1 DEF BatchBounded
<1> QED BY <1>4, <1>5

\* A scan promises what it finds, and has on its list what has no row.
LEMMA ScanKeeps ==
  ASSUME IInv, Scan
  PROVE  IInv'
<1>1. StoreOK /\ PromisesReadable /\ BuiltUnseen /\ NothingDropped /\ NeverHalfBuilt
  BY DEF IInv
<1>2. /\ UNCHANGED World /\ ready' = ready /\ stopping' = stopping /\ requested' = requested
      /\ rows' = rows /\ mode' = mode /\ pc = "scan" /\ pass' = "scan"
      /\ Locals(Unseen, IF Unseen = {} THEN "pending" ELSE "read")
  BY DEF Scan, flagVars
<1>3. todo' = Unseen /\ pc' = IF Unseen = {} THEN "pending" ELSE "read"
  BY <1>2 DEF Locals
<1>4. Unseen \subseteq Traces
  BY DEF Unseen, Hot
<1>5. \/ mode \in {"hot", "full"} /\ promised' = promised
      \/ ~(mode \in {"hot", "full"}) /\ promised' = {t \in Traces : request[t] = "whole"}
  BY DEF Scan
<1>6. FilesOK' /\ PromisesReadable'
  <2>1. FilesOK' /\ request' = request /\ writer' = writer
    BY <1>1, <1>2, IndexerFrame DEF StoreOK, FilesOK, World, fileVars
  <2> QED BY <1>1, <1>5, <2>1 DEF PromisesReadable
<1>7. IndexerOK' /\ BatchBounded'
  <2>1. promised' \subseteq Traces
    BY <1>1, <1>5 DEF StoreOK, IndexerOK
  <2>2. Locals(Unseen, IF Unseen = {} THEN pc' ELSE "read")
    BY <1>2, <1>3
  <2> QED BY <1>2, <1>3, <1>4, <2>1, <2>2, ListBegun
<1>8. BuiltUnseen' /\ NothingDropped'
  <2>1. Building => promised' \subseteq Indexed \cup Unseen
    BY <1>1, <1>5 DEF Building, Unseen, StoreOK, IndexerOK
  <2> QED BY <1>1, <1>2, <1>3, <2>1 DEF BuiltUnseen, NothingDropped, Building, Reading, Indexed
<1>9. NeverHalfBuilt'
  <2>1. CASE mode \in {"hot", "full"}
    BY <1>1, <1>2, <1>5, <2>1 DEF NeverHalfBuilt, Indexed
  <2>2. CASE mode \notin {"hot", "full"}
    BY <1>1, <1>2, <2>2 DEF BuiltUnseen, NeverHalfBuilt, Building, Modes
  <2> QED BY <2>1, <2>2
<1> QED BY <1>6, <1>7, <1>8, <1>9 DEF IInv, StoreOK

\* What a step of the passes does not change.
PassFrame ==
  /\ UNCHANGED World /\ ready' = ready /\ stopping' = stopping /\ requested' = requested
  /\ mode' = mode /\ promised' = promised

\* Rows are only added: what the index must show, and what holds while it is built, follow.
LEMMA PassKeeps ==
  ASSUME IInv, PassFrame, IndexerOK', BatchBounded', NothingDropped',
         Indexed \subseteq Indexed', pc' \notin {"clear", "scan"}
  PROVE  IInv'
<1>1. StoreOK /\ BuiltUnseen /\ NeverHalfBuilt
  BY DEF IInv
<1>2. FilesOK' /\ PromisesReadable'
  BY <1>1, IndexerFrame DEF PassFrame, StoreOK, FilesOK
<1>3. BuiltUnseen'
  BY <1>1 DEF PassFrame, BuiltUnseen, Building
<1>4. NeverHalfBuilt'
  BY <1>1 DEF PassFrame, NeverHalfBuilt
<1> QED BY <1>2, <1>3, <1>4 DEF IInv, StoreOK

LEMMA NextChunkKeeps ==
  ASSUME IInv, NextChunk
  PROVE  IInv'
<1>1. StoreOK /\ BatchBounded /\ NothingDropped
  BY DEF IInv
<1>2. PICK c \in SUBSET todo :
        /\ Cardinality(c) = IF Cardinality(todo) < BatchSize THEN Cardinality(todo) ELSE BatchSize
        /\ chunk' = c /\ todo' = todo \ c
  BY DEF NextChunk
<1>3. /\ PassFrame /\ rows' = rows /\ pass' = pass /\ batch' = batch /\ at' = at /\ seen' = seen
      /\ pc = "read" /\ pc' = "read" /\ chunk = {}
  BY DEF NextChunk, PassFrame, flagVars
<1>4. c \subseteq Traces /\ todo \subseteq Traces
  BY <1>1, <1>2 DEF StoreOK, IndexerOK
<1>5. IndexerOK'
  BY <1>1, <1>2, <1>3, <1>4 DEF StoreOK, IndexerOK, PassFrame
<1>6. BatchBounded'
  <2>1. IsFiniteSet({}) /\ Cardinality({}) = 0
    BY FS_EmptySet
  <2>2. batch = {} /\ ReadNow' = {}
    BY <1>1, <1>3 DEF BatchBounded, ReadNow
  <2>3. Cardinality(todo) \in Nat /\ Cardinality(c) <= BatchSize
    <3>1. Cardinality(todo) \in Nat
      BY <1>4, FS_Subset, FS_CardinalityType
    <3> QED BY <1>2, <3>1
  <2> QED BY <1>2, <1>3, <2>1, <2>2, <2>3 DEF BatchBounded
<1>7. NothingDropped'
  BY <1>1, <1>2, <1>3 DEF PassFrame, NothingDropped, Building, Reading, Indexed, BatchIds, ReadNow
<1>8. Indexed' = Indexed
  BY <1>3 DEF Indexed
<1> QED BY <1>3, <1>5, <1>6, <1>7, <1>8, PassKeeps

\* What is skipped was not promised, as its request cannot be read.
LEMMA ReadSummaryKeeps ==
  ASSUME IInv, NEW t \in Traces, ReadSummary(t)
  PROVE  IInv'
<1>1. StoreOK /\ BatchBounded /\ PromisesReadable /\ NothingDropped
  BY DEF IInv
<1>2. /\ PassFrame /\ rows' = rows /\ pass' = pass /\ batch' = batch /\ todo' = todo
      /\ pc = "read" /\ t \in chunk /\ chunk' = chunk \ {t}
  BY DEF ReadSummary, PassFrame, flagVars
<1>3. \/ request[t] = "whole" /\ pc' = "check" /\ at' = t /\ seen' = UsageReadable(t)
      \/ request[t] # "whole" /\ pc' = (IF chunk = {t} THEN "write" ELSE "read") /\ at' = at /\ seen' = seen
  BY DEF ReadSummary
<1>4. IndexerOK'
  BY <1>1, <1>2, <1>3 DEF StoreOK, IndexerOK, PassFrame, UsageReadable, Busy
<1>5. BatchBounded'
  <2>1. /\ Cardinality(batch) \in Nat /\ IsFiniteSet(chunk) /\ Cardinality(chunk) \in Nat
        /\ Cardinality(ReadNow) = 0
    BY <1>1, <1>2, PartsFinite
  <2>2. Cardinality(chunk') = Cardinality(chunk) - 1
    BY <1>2, <2>1, FS_RemoveElement
  <2>3. Cardinality(ReadNow') <= 1 /\ Cardinality(ReadNow') \in Nat
    <3>1. Cardinality({}) = 0 /\ Cardinality({at'}) = 1
      BY FS_EmptySet, FS_Singleton
    <3> QED BY <3>1 DEF ReadNow
  <2>4. Cardinality(batch) + Cardinality(ReadNow) + Cardinality(chunk) <= BatchSize /\ IsFiniteSet(batch)
    BY <1>1 DEF BatchBounded
  <2>5. Cardinality(batch') + Cardinality(ReadNow') + Cardinality(chunk') <= BatchSize
    BY <1>2, <2>1, <2>2, <2>3, <2>4
  <2>6. /\ pc' = "read" => chunk' # {}
        /\ pc' = "write" => chunk' = {}
        /\ pc' = "check" => at' \in Traces
    BY <1>2, <1>3
  <2> QED BY <1>2, <2>4, <2>5, <2>6 DEF BatchBounded
<1>6. NothingDropped'
  <2>1. request[t] # "whole" => t \notin promised
    BY <1>1 DEF PromisesReadable
  <2>2. BatchIds' = BatchIds /\ Indexed' = Indexed /\ ReadNow = {}
    BY <1>2 DEF BatchIds, Indexed, ReadNow
  <2>3. \/ t \notin promised
        \/ ReadNow' = {t}
    BY <1>3, <2>1 DEF ReadNow
  <2>4. Reading /\ Reading'
    BY <1>2, <1>3 DEF Reading
  <2>5. pc' \notin {"pending", "publish"}
    BY <1>3
  <2> QED BY <1>1, <1>2, <2>2, <2>3, <2>4, <2>5 DEF PassFrame, NothingDropped, Building
<1>7. Indexed' = Indexed
  BY <1>2 DEF Indexed
<1>8. pc' \notin {"clear", "scan"}
  BY <1>3
<1> QED BY <1>2, <1>4, <1>5, <1>6, <1>7, <1>8, PassKeeps

LEMMA CheckResponseKeeps ==
  ASSUME IInv, CheckResponse
  PROVE  IInv'
<1> DEFINE entry == [id |-> at, row |-> [usage |-> seen, complete |-> HasResponse(at)]]
<1>1. StoreOK /\ BatchBounded /\ NothingDropped
  BY DEF IInv
<1>2. /\ PassFrame /\ rows' = rows /\ pass' = pass /\ batch' = batch \cup {entry} /\ todo' = todo
      /\ chunk' = chunk /\ at' = None /\ seen' = FALSE
      /\ pc = "check" /\ pc' = (IF chunk = {} THEN "write" ELSE "read")
  BY DEF CheckResponse, PassFrame, flagVars
<1>3. at \in Traces /\ HasResponse(at) \in BOOLEAN /\ seen \in BOOLEAN
  BY <1>1, <1>2 DEF BatchBounded, HasResponse, StoreOK, IndexerOK
<1>4. entry \in [id : Traces, row : Row] /\ entry.id = at
  BY <1>3 DEF Row
<1> HIDE DEF entry
<1>5. BatchBounded'
  <2>1. /\ Cardinality(batch) \in Nat /\ IsFiniteSet(batch) /\ Cardinality(chunk) \in Nat
        /\ Cardinality(ReadNow) = 1
    BY <1>1, <1>2, PartsFinite
  <2>2. IsFiniteSet(batch') /\ Cardinality(batch') <= Cardinality(batch) + 1 /\ Cardinality(batch') \in Nat
    <3>1. /\ IsFiniteSet(batch \cup {entry})
          /\ Cardinality(batch \cup {entry}) =
               IF entry \in batch THEN Cardinality(batch) ELSE Cardinality(batch) + 1
      BY <2>1, FS_AddElement
    <3> QED BY <1>2, <2>1, <3>1
  <2>3. Cardinality(ReadNow') = 0
    BY <1>2, FS_EmptySet DEF ReadNow
  <2>4. Cardinality(batch) + Cardinality(ReadNow) + Cardinality(chunk) <= BatchSize
    BY <1>1 DEF BatchBounded
  <2>5. Cardinality(batch') + Cardinality(ReadNow') + Cardinality(chunk') <= BatchSize
    BY <1>2, <2>1, <2>2, <2>3, <2>4
  <2> QED BY <1>2, <2>2, <2>5 DEF BatchBounded
<1>6. IndexerOK'
  <2>1. batch' \subseteq [id : Traces, row : Row]
    BY <1>1, <1>2, <1>4 DEF StoreOK, IndexerOK
  <2>2. Cardinality(batch') <= BatchSize
    <3>1. IsFiniteSet(batch') /\ Cardinality(batch') \in Nat
      BY <1>5, FS_CardinalityType DEF BatchBounded
    <3>2. Cardinality(chunk') \in Nat /\ Cardinality(ReadNow') \in Nat
      BY <1>1, <1>2, PartsFinite, FS_EmptySet DEF ReadNow
    <3> QED BY <1>5, <3>1, <3>2 DEF BatchBounded
  <2>3. pc' \in Busy
    BY <1>2 DEF Busy
  <2> QED BY <1>1, <1>2, <2>1, <2>2, <2>3 DEF StoreOK, IndexerOK, PassFrame
<1>7. NothingDropped'
  <2>1. BatchIds' = BatchIds \cup {at} /\ Indexed' = Indexed /\ ReadNow = {at}
    BY <1>2, <1>4 DEF BatchIds, Indexed, ReadNow
  <2>2. Reading /\ Reading' /\ pc' \notin {"pending", "publish"}
    BY <1>2 DEF Reading
  <2> QED BY <1>1, <1>2, <2>1, <2>2 DEF PassFrame, NothingDropped, Building
<1>8. Indexed' = Indexed
  BY <1>2 DEF Indexed
<1>9. pc' \notin {"clear", "scan"}
  BY <1>2
<1> QED BY <1>2, <1>5, <1>6, <1>7, <1>8, <1>9, PassKeeps

LEMMA WriteKeeps ==
  ASSUME IInv, Write
  PROVE  IInv'
<1>1. StoreOK /\ BatchBounded /\ NothingDropped
  BY DEF IInv
<1>2. /\ PassFrame /\ rows' = Upserted(batch) /\ pass' = pass /\ batch' = {}
      /\ chunk' = chunk /\ at' = at /\ seen' = seen /\ pc = "write"
  BY DEF Write, PassFrame, flagVars
<1>3. \/ (stopping \/ todo = {}) /\ pc' = AfterPass /\ todo' = {}
      \/ ~stopping /\ pc' = "read" /\ todo' = todo
  BY DEF Write
<1>4. rows' \in [Traces -> Row \cup {None}] /\ Indexed' = Indexed \cup BatchIds
  BY <1>1, <1>2, UpsertedRows DEF Indexed
<1>5. Cardinality({}) = 0 /\ IsFiniteSet({})
  BY FS_EmptySet
<1>6. chunk = {}
  BY <1>1, <1>2 DEF BatchBounded
<1>7. IndexerOK' /\ pc' \notin {"clear", "scan"}
  <2>1. pc' \in {"read", "pending", "publish"}
    BY <1>3 DEF AfterPass
  <2>2. batch' \subseteq [id : Traces, row : Row] /\ Cardinality(batch') <= BatchSize
    BY <1>2, <1>5
  <2> QED BY <1>1, <1>2, <1>3, <1>4, <2>1, <2>2 DEF StoreOK, IndexerOK, PassFrame, Busy
<1>8. BatchBounded'
  <2>1. Cardinality(batch) \in Nat /\ Cardinality(chunk) \in Nat /\ ReadNow' = {}
    BY <1>1, <1>2, <1>3, PartsFinite DEF ReadNow, AfterPass
  <2>2. Cardinality(ReadNow) \in Nat
    BY <1>1, PartsFinite
  <2> QED BY <1>1, <1>2, <1>3, <1>5, <2>1, <2>2 DEF BatchBounded, AfterPass
<1>9. NothingDropped'
  <2> SUFFICES ASSUME Building, ~stopping
               PROVE  NothingDropped'
    BY <1>2 DEF NothingDropped, Building, PassFrame
  <2>1. ReadNow = {} /\ Reading
    BY <1>2 DEF ReadNow, Reading
  <2>2. CASE pass = "scan"
    <3>1. promised \subseteq Indexed \cup todo \cup BatchIds
      BY <1>1, <1>6, <2>1, <2>2 DEF NothingDropped
    <3>2. promised' \subseteq Indexed' \cup todo
      BY <1>2, <1>4, <3>1 DEF PassFrame
    <3> QED BY <1>2, <1>3, <2>2, <3>2 DEF NothingDropped, AfterPass
  <2>3. CASE pass # "scan"
    <3>1. promised' \subseteq Indexed'
      BY <1>1, <1>2, <1>4, <2>1, <2>3 DEF NothingDropped, PassFrame
    <3> QED BY <1>2, <2>3, <3>1 DEF NothingDropped
  <2> QED BY <2>2, <2>3
<1> QED BY <1>2, <1>4, <1>7, <1>8, <1>9, PassKeeps

LEMMA RefreshKeeps ==
  ASSUME IInv, RefreshIncomplete
  PROVE  IInv'
<1>1. StoreOK /\ NothingDropped
  BY DEF IInv
<1>2. /\ PassFrame /\ rows' = rows /\ pass' = "refresh" /\ pc = "pending"
      /\ Locals(Pending, IF Pending = {} THEN "publish" ELSE "read")
  BY DEF RefreshIncomplete, PassFrame, flagVars
<1>3. pc' = IF Pending = {} THEN "publish" ELSE "read"
  BY <1>2 DEF Locals
<1>4. Pending \subseteq Traces
  BY DEF Pending, Indexed
<1>5. IndexerOK' /\ BatchBounded'
  <2>1. promised' \subseteq Traces
    BY <1>1, <1>2 DEF StoreOK, IndexerOK, PassFrame
  <2>2. Locals(Pending, IF Pending = {} THEN pc' ELSE "read")
    BY <1>2, <1>3
  <2>3. mode' = mode
    BY <1>2 DEF PassFrame
  <2> QED BY <1>2, <1>3, <1>4, <2>1, <2>2, <2>3, ListBegun
<1>6. Indexed' = Indexed
  BY <1>2 DEF Indexed
<1>7. NothingDropped'
  BY <1>1, <1>2, <1>6 DEF NothingDropped, Building, PassFrame
<1> QED BY <1>2, <1>3, <1>5, <1>6, <1>7, PassKeeps

\* What is published has all that was promised.
LEMMA PublishKeeps ==
  ASSUME IInv, Publish
  PROVE  IInv'
<1>1. StoreOK /\ BatchBounded /\ BuiltUnseen /\ NothingDropped /\ NeverHalfBuilt
  BY DEF IInv
<1>2. /\ UNCHANGED World /\ rows' = rows /\ stopping' = stopping /\ requested' = requested
      /\ todo' = todo /\ chunk' = chunk /\ batch' = batch /\ at' = at /\ seen' = seen
      /\ mode' = None /\ pass' = None /\ promised' = promised /\ pc = "publish" /\ pc' = "top"
      /\ ready' = (ready \/ mode \in {"rebuild", "catch up"})
  BY DEF Publish, localVars
<1>3. FilesOK' /\ PromisesReadable'
  BY <1>1, <1>2, IndexerFrame DEF StoreOK, FilesOK
<1>4. IndexerOK'
  BY <1>1, <1>2 DEF StoreOK, IndexerOK, Busy
<1>5. BatchBounded'
  BY <1>1, <1>2, AtRest
<1>6. BuiltUnseen' /\ NothingDropped'
  BY <1>2 DEF BuiltUnseen, NothingDropped, Building, Modes
<1>7. NeverHalfBuilt'
  BY <1>1, <1>2 DEF NeverHalfBuilt, NothingDropped, Building, Indexed
<1> QED BY <1>3, <1>4, <1>5, <1>6, <1>7 DEF IInv, StoreOK

LEMMA RaiseKeeps ==
  ASSUME IInv, Raise
  PROVE  IInv'
<1>1. StoreOK /\ NeverHalfBuilt
  BY DEF IInv
<1>2. /\ UNCHANGED World /\ rows' = rows /\ ready' = ready /\ stopping' = stopping /\ requested' = requested
      /\ Locals({}, "top") /\ mode' = None /\ pass' = None /\ promised' = promised /\ pc' = "top"
  BY DEF Raise, flagVars, Locals
<1>3. FilesOK' /\ PromisesReadable'
  BY <1>1, <1>2, IndexerFrame DEF StoreOK, FilesOK
<1>4. IndexerOK' /\ BatchBounded'
  <2>1. promised' \subseteq Traces
    BY <1>1, <1>2 DEF StoreOK, IndexerOK
  <2>2. Locals({}, IF {} = {} THEN pc' ELSE "read") /\ {} \in SUBSET Traces
    BY <1>2
  <2> QED BY <1>2, <2>1, <2>2, ListBegun
<1>5. BuiltUnseen' /\ NothingDropped'
  BY <1>2 DEF BuiltUnseen, NothingDropped, Building, Modes
<1>6. NeverHalfBuilt'
  BY <1>1, <1>2 DEF NeverHalfBuilt, Indexed
<1> QED BY <1>3, <1>4, <1>5, <1>6 DEF IInv, StoreOK

LEMMA StepKeeps == IInv /\ [Next]_vars => IInv'
<1> SUFFICES ASSUME IInv, [Next]_vars PROVE IInv'
  OBVIOUS
<1>1. CASE \/ Midnight \/ RequestRebuild \/ ClearReady \/ CheckReady \/ Query \/ Stop
           \/ \E t \in Traces : GraceEnds(t) \/ OpenRequest(t) \/ Handle(t)
  BY <1>1, OthersKeep
<1>2. CASE Exit \/ Start
  BY <1>2, ProcessKeeps
<1>3. CASE Rebuild \/ CatchUp \/ Poll("hot") \/ Poll("full") \/ Retire
  BY <1>3, TopKeeps
<1>4. CASE Clear \/ Scan \/ NextChunk
  BY <1>4, ClearKeeps, ScanKeeps, NextChunkKeeps
<1>5. CASE CheckResponse \/ \E t \in Traces : ReadSummary(t)
  BY <1>5, CheckResponseKeeps, ReadSummaryKeeps
<1>6. CASE Write \/ RefreshIncomplete \/ Publish \/ Raise
  BY <1>6, WriteKeeps, RefreshKeeps, PublishKeeps, RaiseKeeps
<1>7. CASE UNCHANGED vars
  <2>1. UNCHANGED <<World, indexerVars, rows, ready, stopping, requested>>
    BY <1>7 DEF vars, World, indexerVars, flagVars
  <2>2. UNCHANGED <<rows, pc, mode, pass, todo, chunk, batch, at, seen, promised>>
    BY <2>1 DEF indexerVars, localVars
  <2>3. /\ StoreOK /\ PassFrame
        /\ BatchBounded /\ BuiltUnseen /\ NothingDropped /\ NeverHalfBuilt
    BY <2>1, <2>2 DEF IInv, PassFrame
  <2>4. FilesOK' /\ PromisesReadable'
    BY <2>1, <2>3, IndexerFrame DEF PassFrame, StoreOK, FilesOK
  <2>5. IndexerOK' /\ BatchBounded'
    BY <2>2, <2>3 DEF StoreOK, IndexerOK, BatchBounded, ReadNow
  <2>6. BuiltUnseen' /\ NothingDropped' /\ NeverHalfBuilt'
    BY <2>1, <2>2, <2>3 DEF BuiltUnseen, NothingDropped, NeverHalfBuilt, Building, Reading, BatchIds, ReadNow, Indexed
  <2> QED BY <2>4, <2>5, <2>6 DEF IInv, StoreOK
<1> QED BY <1>1, <1>2, <1>3, <1>4, <1>5, <1>6, <1>7 DEF Next, Loop

-----------------------------------------------------------------------------
(* A listing.                                                              *)

\* A listing was promised no more than the last build has promised since, and has all of it
\* unless the index was emptied.
ReaderPromised ==
  /\ reader = "idle" => due = {}
  /\ due \subseteq promised
  /\ reader # "overtaken" => due \subseteq Indexed

\* Only Clear takes rows away.
LEMMA RowsStay ==
  ASSUME StoreOK, [Next]_vars, ~Clear, ~Exit
  PROVE  Indexed \subseteq Indexed'
<1>1. CASE Write
  <2>1. rows' = Upserted(batch)
    BY <1>1 DEF Write
  <2> QED BY <2>1, UpsertedRows DEF Indexed
<1>2. CASE ~Write
  <2>1. rows' = rows
    <3>1. CASE \/ Midnight \/ RequestRebuild \/ ClearReady \/ CheckReady \/ Query \/ Stop \/ Start
               \/ \E t \in Traces : GraceEnds(t) \/ OpenRequest(t) \/ Handle(t)
      BY <3>1 DEF Midnight, RequestRebuild, ClearReady, CheckReady, Query, Stop, Start, GraceEnds, OpenRequest,
                  Handle, CloseRequest, OpenResponse, CloseResponse, Forgo, HandlerKeeps
    <3>2. CASE Loop \/ Raise
      BY <1>2, <3>2 DEF Loop, Rebuild, CatchUp, Poll, Retire, Scan, NextChunk, ReadSummary, CheckResponse,
                        RefreshIncomplete, Publish, Raise
    <3>3. CASE UNCHANGED vars
      BY <3>3 DEF vars
    <3> QED BY <3>1, <3>2, <3>3 DEF Next
  <2> QED BY <2>1 DEF Indexed
<1> QED BY <1>1, <1>2

\* A promise is only taken back by the end of the process: what a new build finds on disk
\* includes what an earlier one has found.
LEMMA PromisesStay ==
  ASSUME IInv, [Next]_vars, ~Exit
  PROVE  promised \subseteq promised'
<1>1. CASE Scan
  BY <1>1 DEF Scan, IInv, PromisesReadable, StoreOK, IndexerOK
<1>2. CASE ~Scan
  <2>1. CASE \/ Midnight \/ RequestRebuild \/ ClearReady \/ CheckReady \/ Query \/ Stop \/ Start
             \/ \E t \in Traces : GraceEnds(t) \/ OpenRequest(t) \/ Handle(t)
    BY <2>1 DEF Midnight, RequestRebuild, ClearReady, CheckReady, Query, Stop, Start, GraceEnds, OpenRequest,
                Handle, CloseRequest, OpenResponse, CloseResponse, Forgo, HandlerKeeps, indexerVars
  <2>2. CASE Loop \/ Raise
    BY <1>2, <2>2 DEF Loop, Rebuild, Clear, CatchUp, Poll, Retire, NextChunk, ReadSummary, CheckResponse, Write,
                      RefreshIncomplete, Publish, Raise
  <2>3. CASE UNCHANGED vars
    BY <2>3 DEF vars
  <2> QED BY <2>1, <2>2, <2>3 DEF Next
<1> QED BY <1>1, <1>2

\* The listing moves by its own steps, by Clear, and with the process.
LEMMA ReaderFrame ==
  ASSUME [Next]_vars, ~CheckReady, ~Query, ~Clear, ~Exit
  PROVE  reader' = reader /\ due' = due
<1>1. CASE \/ Midnight \/ RequestRebuild \/ ClearReady \/ Stop \/ Start
           \/ \E t \in Traces : GraceEnds(t) \/ OpenRequest(t) \/ Handle(t)
  BY <1>1 DEF Midnight, RequestRebuild, ClearReady, Stop, Start, GraceEnds, OpenRequest, Handle, CloseRequest,
              OpenResponse, CloseResponse, Forgo, HandlerKeeps, readerVars
<1>2. CASE Loop \/ Raise
  BY <1>2 DEF Loop, Rebuild, CatchUp, Poll, Retire, Scan, NextChunk, ReadSummary, CheckResponse, Write,
              RefreshIncomplete, Publish, Raise, readerVars
<1>3. CASE UNCHANGED vars
  BY <1>3 DEF vars, readerVars
<1> QED BY <1>1, <1>2, <1>3 DEF Next

LEMMA ReaderStep == IInv /\ ReaderOK /\ ReaderPromised /\ [Next]_vars => (ReaderOK /\ ReaderPromised)'
<1> SUFFICES ASSUME IInv, ReaderOK, ReaderPromised, [Next]_vars
             PROVE  (ReaderOK /\ ReaderPromised)'
  OBVIOUS
<1>1. /\ StoreOK /\ NeverHalfBuilt /\ promised \subseteq Traces
  BY DEF IInv, StoreOK, IndexerOK
<1>2. CASE CheckReady
  <2>1. /\ reader' = "query" /\ due' = promised /\ promised' = promised /\ Indexed' = Indexed
        /\ ready /\ ~stopping
    BY <1>2 DEF CheckReady, indexerVars, Indexed
  <2> QED BY <1>1, <2>1 DEF ReaderOK, ReaderPromised, NeverHalfBuilt
<1>3. CASE Query \/ Exit
  <2>1. reader' = "idle" /\ due' = {}
    BY <1>3 DEF Query, Exit
  <2> QED BY <2>1 DEF ReaderOK, ReaderPromised
<1>4. CASE Clear
  <2>1. /\ reader' = (IF reader = "query" THEN "overtaken" ELSE reader) /\ due' = due
        /\ promised' = promised
    BY <1>4 DEF Clear
  <2>2. reader \in {"idle", "query", "overtaken"}
    BY DEF ReaderOK
  <2> QED BY <2>1, <2>2 DEF ReaderOK, ReaderPromised
<1>5. CASE ~CheckReady /\ ~Query /\ ~Exit /\ ~Clear
  <2>1. reader' = reader /\ due' = due
    BY <1>5, ReaderFrame
  <2>2. promised \subseteq promised' /\ Indexed \subseteq Indexed'
    BY <1>1, <1>5, PromisesStay, RowsStay
  <2> QED BY <2>1, <2>2 DEF ReaderOK, ReaderPromised
<1> QED BY <1>2, <1>3, <1>4, <1>5

-----------------------------------------------------------------------------
(* The theorems.                                                           *)

\* The inductive invariant of the trace index, the listing apart.
THEOREM Invariance == Spec => []IInv
<1>1. Init => IInv
  <2> SUFFICES ASSUME Init PROVE IInv
    OBVIOUS
  <2>1. IsFiniteSet({}) /\ Cardinality({}) = 0
    BY FS_EmptySet
  <2>2. FilesOK
    <3>1. /\ day \in 0..MaxDay /\ shard \in [Traces -> 0..MaxDay]
          /\ aside \subseteq Traces /\ expired \subseteq Traces /\ caller \in {"idle", "clear"}
      BY DEF Init
    <3>2. /\ writer \in [Traces -> {"new", "request", "upstream", "response", "over"}]
          /\ request \in [Traces -> Files] /\ response \in [Traces -> Files]
      BY DEF Init, Files
    <3>3. up \in BOOLEAN /\ ready \in BOOLEAN /\ stopping \in BOOLEAN /\ requested \in BOOLEAN
      BY DEF Init
    <3> QED BY <3>1, <3>2, <3>3 DEF FilesOK
  <2>3. IndexerOK
    <3>1. batch \subseteq [id : Traces, row : Row] /\ Cardinality(batch) <= BatchSize
      BY <2>1 DEF Init
    <3>2. rows \in [Traces -> Row \cup {None}] /\ pc \in Busy \cup {"off", "top", "publish"}
      BY DEF Init
    <3>3. /\ mode \in Modes \cup {None} /\ pass \in {None, "scan", "refresh"}
          /\ todo \subseteq Traces /\ chunk \subseteq Traces
          /\ at \in Traces \cup {None} /\ seen \in BOOLEAN /\ promised \subseteq Traces
      BY DEF Init
    <3> QED BY <3>1, <3>2, <3>3 DEF IndexerOK
  <2>4. BatchBounded
    <3>1. ReadNow = {}
      BY DEF Init, ReadNow
    <3> QED BY <2>1, <3>1 DEF Init, BatchBounded
  <2>5. PromisesReadable /\ BuiltUnseen /\ NothingDropped /\ NeverHalfBuilt
    BY DEF Init, PromisesReadable, BuiltUnseen, NothingDropped, NeverHalfBuilt, Building, Modes
  <2> QED BY <2>2, <2>3, <2>4, <2>5 DEF IInv, StoreOK
<1> QED BY <1>1, StepKeeps, PTL DEF Spec

\* And that of the listing.
THEOREM ReaderInvariance == Spec => [](ReaderOK /\ ReaderPromised)
<1>1. Init => ReaderOK /\ ReaderPromised
  BY DEF Init, ReaderOK, ReaderPromised
<1> QED BY <1>1, Invariance, ReaderStep, PTL DEF Spec

\* Type correctness of the trace index: no batch is larger than _BATCH_SIZE.
THEOREM TypeCorrectness == Spec => []TypeOK
<1>1. IInv /\ ReaderOK => TypeOK
  BY DEF IInv, StoreOK, TypeOK
<1> QED BY <1>1, Invariance, ReaderInvariance, PTL

\* For any number of traces, midnights, rebuild requests, exceptions and restarts: what a
\* listing reads at the moment of its query has every trace that was on disk at the build it
\* was promised, unless a rebuild emptied the index since it looked at ready, and has not been
\* through yet.
THEOREM ServedWhole == Spec => []ListingsWhole
<1>1. IInv /\ ReaderOK /\ ReaderPromised => ListingsWhole
  BY DEF IInv, NeverHalfBuilt, ReaderOK, ReaderPromised, ListingsWhole
<1> QED BY <1>1, Invariance, ReaderInvariance, PTL
=============================================================================
