------------------------------ MODULE SlotCache ------------------------------
(***************************************************************************)
(* What requests do with a leased slot: the restore -> inference -> save   *)
(* sequence of ProxyService.proxy and of the two responses paths, the      *)
(* SlotCacheService calls it makes, and what these do to the KV contents   *)
(* of the server's slots and to the snapshot files.  Composed with         *)
(* SlotAllocator: every action of that module is one of these, or part of  *)
(* one.                                                                    *)
(***************************************************************************)
EXTENDS SlotAllocator

CONSTANTS Paths   \* which of the users run: subset of AllPaths

\* "call": proxy() and _complete, not streamed; "stream": proxy(), streamed;
\* "events": ResponsesService._stream, which saves whatever happened upstream.
AllPaths == {"call", "stream", "events"}

ASSUME PathsAssumption == Paths \subseteq AllPaths

VARIABLES
  path,    \* request -> the user it belongs to
  stage,   \* request -> its progress inside the lease
  kv,      \* instance -> slot -> the conversation whose tokens are in VRAM
  disk,    \* session -> model -> the conversation in that snapshot file
  stale    \* slots that have got nothing of the session they were last leased to,
           \* neither its own snapshot nor a prompt of its

cacheVars == <<path, stage, kv, disk, stale>>
vars == <<allocatorVars, cacheVars>>

Stages == {"restore", "forward", "generate", "report", "save", "leave"}

ASSUME AbsentAssumption == None \notin AllPaths \cup Stages

CacheInit ==
  /\ Init
  /\ path = [r \in Requests |-> None]
  /\ stage = [r \in Requests |-> None]
  /\ kv = [n \in Instances |-> [i \in Slots |-> None]]
  /\ disk = [s \in Sessions |-> [m \in Models |-> None]]
  /\ stale = {}

At(r, label) == stage' = [stage EXCEPT ![r] = label]

\* The contents of the slot r was given, and the snapshot file of its turn.
Contents(r) == kv[InstanceOf[job[r].model]][slot[r]]
Snapshot(r) == disk[job[r].session][job[r].model]

Ask(r, s, m, k) ==
  /\ Arrive(r, s, m)
  /\ path' = [path EXCEPT ![r] = k]
  /\ UNCHANGED <<stage, kv, disk, stale>>

\* if not lease.resident: restore
Begin(r) ==
  /\ Enter(r)
  /\ At(r, IF Resident(r) THEN "forward" ELSE "restore")
  /\ stale' = IF Resident(r) THEN stale ELSE stale \cup {Place(r)}
  /\ UNCHANGED <<path, kv, disk>>

\* POST /slots/{id}?action=restore.  A failure is logged and changes nothing.
Restore(r) ==
  /\ stage[r] = "restore"
  /\ \/ /\ Snapshot(r) # None
        /\ kv' = [kv EXCEPT ![InstanceOf[job[r].model]][slot[r]] = Snapshot(r)]
        /\ stale' = IF Snapshot(r) = job[r].session THEN stale \ {Place(r)} ELSE stale
     \/ UNCHANGED <<kv, stale>>
  /\ At(r, "forward")
  /\ UNCHANGED <<allocatorVars, path, disk>>

\* The server starts on the prompt: the slot now holds this conversation.
Generate(r) ==
  /\ stage[r] = "forward"
  /\ kv' = [kv EXCEPT ![InstanceOf[job[r].model]][slot[r]] = job[r].session]
  /\ stale' = stale \ {Place(r)}
  /\ At(r, "generate")
  /\ UNCHANGED <<allocatorVars, path, disk>>

\* A status below 400, read to its end.
Succeed(r) ==
  /\ stage[r] = "generate"
  /\ At(r, "save")
  /\ UNCHANGED <<allocatorVars, path, kv, disk, stale>>

\* Mutant: a failed call saves its slot as well.
FailSaving(r) ==
  /\ stage[r] \in {"forward", "generate"}
  /\ At(r, IF path[r] = "call" THEN "save" ELSE "report")
  /\ UNCHANGED <<allocatorVars, path, kv, disk, stale>>

\* An error status or an exception, before or while the server generates.
\* A stream has an error event to yield first.
Fail(r) ==
  /\ stage[r] \in {"forward", "generate"}
  /\ At(r, IF path[r] = "call" THEN "leave" ELSE "report")
  /\ UNCHANGED <<allocatorVars, path, kv, disk, stale>>

Report(r) ==
  /\ stage[r] = "report"
  /\ At(r, IF path[r] = "events" THEN "save" ELSE "leave")
  /\ UNCHANGED <<allocatorVars, path, kv, disk, stale>>

\* POST /slots/{id}?action=save: the file gets what the slot holds, or nothing.
SaveInto(r) == [disk EXCEPT ![job[r].session][job[r].model] = Contents(r)]

Save(r) ==
  /\ stage[r] = "save"
  /\ disk' \in {disk, SaveInto(r)}
  /\ At(r, "leave")
  /\ UNCHANGED <<allocatorVars, path, kv, stale>>

\* Mutant: the progress of a lease outlives it.
OverForgettingStage(r) == path' = [path EXCEPT ![r] = None] /\ UNCHANGED <<stage, kv, stale>>

Over(r) ==
  /\ path' = [path EXCEPT ![r] = None]
  /\ At(r, None)
  /\ UNCHANGED <<kv, stale>>

End(r) ==
  /\ stage[r] = "leave"
  /\ Leave(r)
  /\ Over(r)
  /\ UNCHANGED disk

\* The client of a stream goes away.  A cancellation at an await inside the
\* generator unwinds it on the spot, and nothing is saved ...
Disconnect(r) ==
  /\ path[r] # "call"
  /\ \/ stage[r] \in {"restore", "forward", "generate", "save"} /\ Leave(r)
     \/ Cancel(r)
  /\ Over(r)
  /\ UNCHANGED disk

\* ... one that finds the generator suspended at a yield abandons it.  The
\* events path yields before it calls upstream, and saves when it is closed.
Suspended(r) ==
  \/ stage[r] \in {"generate", "report"} /\ path[r] # "call"
  \/ stage[r] = "forward" /\ path[r] = "events"

Desert(r) ==
  /\ Suspended(r)
  /\ Abandon(r)
  /\ disk' \in IF path[r] = "events" THEN {disk, SaveInto(r)} ELSE {disk}
  /\ Over(r)

-----------------------------------------------------------------------------
\* Steps of the allocator alone.
Allocate ==
  /\ \/ \E n \in Overrides : Reconfigure(n)
     \/ \E m \in Models : ProbeExpires(m)
     \/ \E r \in Requests : Lookup(r) \/ Settle(r) \/ Assign(r)
  /\ UNCHANGED cacheVars

CacheNext ==
  \/ Allocate
  \/ \E r \in Requests :
       \/ \E s \in Sessions, m \in Models, k \in Paths : Ask(r, s, m, k)
       \/ Begin(r) \/ Restore(r) \/ Generate(r) \/ Succeed(r) \/ Fail(r)
       \/ Report(r) \/ Save(r) \/ End(r) \/ Disconnect(r) \/ Desert(r)

CacheSpec == CacheInit /\ [][CacheNext]_vars

-----------------------------------------------------------------------------
(* Properties.                                                             *)

CacheTypeOK ==
  /\ TypeOK
  /\ path \in [Requests -> Paths \cup {None}]
  /\ stage \in [Requests -> Stages \cup {None}]
  /\ kv \in [Instances -> [Slots -> Sessions \cup {None}]]
  /\ disk \in [Sessions -> [Models -> Sessions \cup {None}]]
  /\ stale \subseteq Instances \X Slots
  /\ \A r \in Requests : (path[r] # None <=> pc[r] # "idle") /\ (stage[r] # None <=> Holds(r))

\* While a request generates, nobody replaces the tokens in its slot: "restoring
\* into a slot that is mid-generation for another session would destroy that
\* generation's KV state" (the SlotAllocator docstring).
GenerationIntact ==
  \A r \in Requests : stage[r] = "generate" => Contents(r) = job[r].session

\* A snapshot file is given no conversation but the one it is named after, with one
\* exception: the events path saves its slot even if upstream refused the turn, and
\* then the slot may have got nothing of the session since it was leased to it (its
\* restore failed, or it has no snapshot yet), in this lease or in the last one, after
\* which the slot counted as resident.  The comment in lease() says otherwise:
\* "whatever happened, this session's tokens are what the slot holds now".
SnapshotsOwn ==
  [][\A s \in Sessions, m \in Models :
       disk'[s][m] # disk[s][m] =>
         \/ disk'[s][m] = s
         \/ \E r \in Requests : /\ path[r] = "events" /\ Holds(r) /\ Place(r) \in stale
                                /\ job[r].session = s /\ job[r].model = m]_vars

-----------------------------------------------------------------------------
(* What it promises: SlotLease.                                            *)

\* Somebody's lease is on this slot.
Taken(l) == \E r \in Requests : Holds(r) /\ Place(r) = l

\* The slot's lock was left behind by an abandoned stream.
LeftLocked(l) ==
  \E m \in Models :
    InstanceOf[m] = l[1] /\ current[m] # None /\ owner[current[m]][l[2]] = Orphan

HolderOf(l) ==
  IF Taken(l) THEN CHOOSE r \in Requests : Holds(r) /\ Place(r) = l
  ELSE IF LeftLocked(l) THEN Orphan ELSE None

AbstractHolder == [l \in Instances \X Slots |-> HolderOf(l)]
AbstractContent == [l \in Instances \X Slots |-> kv[l[1]][l[2]]]

Lease == INSTANCE SlotLease WITH
           Places <- Instances \X Slots,
           Lost <- Orphan,
           holder <- AbstractHolder,
           content <- AbstractContent

\* The slot cache implements the abstract lease of SlotLease: while a request
\* has a slot nobody else is given it, and only its holder changes its contents.
ImplementsLease == Lease!Spec
=============================================================================
