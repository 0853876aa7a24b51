---------------------------- MODULE SlotAllocator ----------------------------
(***************************************************************************)
(* SlotAllocator.lease of services/slot_cache_service.py: which slot of a  *)
(* llama-server a conversation gets, and whose turn it is on that slot.    *)
(*                                                                         *)
(* A request looks up the slot state of its (endpoint, model), probing the *)
(* server when that state is missing or stale, assigns its conversation a  *)
(* slot, and waits for the slot's lock.  What it does once it has the lock *)
(* is the business of SlotCache, which extends this module.                *)
(*                                                                         *)
(* An _EndpointSlotState object outlives its entry in _states while leases *)
(* still refer to it, so the objects are modelled with their identity: a   *)
(* pool is such an object, and one that nothing refers to is free to be    *)
(* allocated again.  Code between two awaits is one action, which is also  *)
(* why the allocator's _lock needs no variable: no await happens under it. *)
(***************************************************************************)
EXTENDS FiniteSets, DistinctSequences

CONSTANTS
  Requests,    \* concurrent users of the allocator
  Sessions,    \* conversations (correlation ids, "default" among them)
  Models,      \* upstream models of the one endpoint
  Instances,   \* llama-server instances behind it
  InstanceOf,  \* the instance that serves a model
  Pools,       \* identities of _EndpointSlotState objects
  MaxSlots,    \* most slots any probe or override names
  Overrides,   \* values the endpoint's slot_count setting takes; 0 = probe
  Probes,      \* total_slots a probe may report; 0 = the probe failed
  MaxOrphans,  \* bound: locks that abandoned streams may have left owned
  None,        \* absent session, request, pool
  NoSlot,      \* a session without a slot
  Orphan       \* the task of a request that ended without releasing its lock

ASSUME SizesAssumption ==
  /\ MaxSlots \in Nat \ {0}
  /\ MaxOrphans \in Nat
  /\ Overrides \subseteq 0..MaxSlots
  /\ Probes \subseteq 0..MaxSlots
  /\ InstanceOf \in [Models -> Instances]

ASSUME NullsAssumption ==
  /\ None \notin Requests \cup Sessions \cup Pools
  /\ Orphan \notin Requests \cup {None}
  /\ NoSlot \notin 0..(MaxSlots - 1)

Slots == 0..(MaxSlots - 1)

VARIABLES
  override,     \* the endpoint's configured slot_count
  current,      \* _states: model -> pool
  conf,         \* pool -> slot_count, override and whether the probe is recent
  sessions,     \* pool -> its sessions, least recently used first
  slotOf,       \* pool -> session -> slot
  lastSession,  \* pool -> slot -> last_session
  owner,        \* pool -> slot -> the task holding locks[slot]
  waiters,      \* pool -> slot -> the tasks queued on locks[slot]
  pc, job, pool, slot    \* per request: progress, parameters, state object, slot

stateVars == <<current, conf, sessions, slotOf>>
lockVars == <<owner, waiters>>
requestVars == <<pc, job, pool, slot>>
allocatorVars == <<override, stateVars, lastSession, lockVars, requestVars>>

\* The parameters lease() is called with; the endpoint was read from the
\* configuration before, so a request keeps the slot_count it started with.
Jobs == [session : Sessions, model : Models, override : Overrides]

Waiting == {"lookup", "probe", "assign", "wait"}
Holds(r) == pc[r] = "lease"

\* The server slot request r was told to use.
Place(r) == <<InstanceOf[job[r].model], slot[r]>>

\* Objects that neither _states nor a running lease refers to.
FreePools == {p \in Pools : /\ \A m \in Models : current[m] # p
                            /\ \A r \in Requests : pool[r] # p}

Init ==
  /\ override \in Overrides
  /\ current = [m \in Models |-> None]
  /\ conf = [p \in Pools |-> [count |-> 1, override |-> 0, fresh |-> FALSE]]
  /\ sessions = [p \in Pools |-> <<>>]
  /\ slotOf = [p \in Pools |-> [s \in Sessions |-> NoSlot]]
  /\ lastSession = [p \in Pools |-> [i \in Slots |-> None]]
  /\ owner = [p \in Pools |-> [i \in Slots |-> None]]
  /\ waiters = [p \in Pools |-> [i \in Slots |-> <<>>]]
  /\ pc = [r \in Requests |-> "idle"]
  /\ job = [r \in Requests |-> None]
  /\ pool = [r \in Requests |-> None]
  /\ slot = [r \in Requests |-> NoSlot]

-----------------------------------------------------------------------------
(* The environment: the operator edits slot_count; PROBE_TTL runs out.     *)

Reconfigure(n) ==
  /\ override # n
  /\ override' = n
  /\ UNCHANGED <<stateVars, lastSession, lockVars, requestVars>>

ProbeExpires(m) ==
  /\ current[m] # None
  /\ conf[current[m]].fresh
  /\ conf' = [conf EXCEPT ![current[m]].fresh = FALSE]
  /\ UNCHANGED <<override, current, sessions, slotOf, lastSession, lockVars,
                 requestVars>>

-----------------------------------------------------------------------------
(* _state_for                                                              *)

Goto(r, label) == pc' = [pc EXCEPT ![r] = label]

Arrive(r, s, m) ==
  /\ pc[r] = "idle"
  /\ job' = [job EXCEPT ![r] = [session |-> s, model |-> m, override |-> override]]
  /\ Goto(r, "lookup")
  /\ UNCHANGED <<override, stateVars, lastSession, lockVars, pool, slot>>

\* The state registered for r's model was made for r's settings.
Matches(r) ==
  LET p == current[job[r].model]
  IN  p # None /\ conf[p].override = job[r].override

Usable(r) ==
  /\ Matches(r)
  /\ job[r].override > 0 \/ conf[current[job[r].model]].fresh

Lookup(r) ==
  /\ pc[r] = "lookup"
  /\ \/ /\ Usable(r)
        /\ pool' = [pool EXCEPT ![r] = current[job[r].model]]
        /\ Goto(r, "assign")
     \/ /\ ~Usable(r)
        /\ Goto(r, "probe")
        /\ UNCHANGED pool
  /\ UNCHANGED <<override, stateVars, lastSession, lockVars, job, slot>>

\* Mutant: a failed probe is taken at its word.
CountsUnguarded(r) == IF job[r].override > 0 THEN {job[r].override} ELSE Probes

\* The slot counts the second half of _state_for may settle on.
Counts(r) ==
  IF job[r].override > 0 THEN {job[r].override}
  ELSE {IF n > 0 THEN n ELSE 1 : n \in Probes}

\* The registered state still fits what was probed: keep its locks and sessions.
KeepState(r, n) ==
  LET p == current[job[r].model] IN
  /\ Matches(r)
  /\ conf[p].count = n
  /\ conf' = [conf EXCEPT ![p].fresh = TRUE]
  /\ pool' = [pool EXCEPT ![r] = p]
  /\ UNCHANGED <<current, sessions, slotOf, lastSession, lockVars>>

\* It does not: register a new one, with no sessions and every lock free.
\* (Which free identity it gets makes no difference.)
ReplaceState(r, n) ==
  LET p == CHOOSE p \in FreePools : TRUE IN
  /\ FreePools # {}
  /\ ~(Matches(r) /\ conf[current[job[r].model]].count = n)
  /\ conf' = [conf EXCEPT ![p] = [count |-> n, override |-> job[r].override,
                                  fresh |-> TRUE]]
  /\ sessions' = [sessions EXCEPT ![p] = <<>>]
  /\ slotOf' = [slotOf EXCEPT ![p] = [s \in Sessions |-> NoSlot]]
  /\ lastSession' = [lastSession EXCEPT ![p] = [i \in Slots |-> None]]
  /\ owner' = [owner EXCEPT ![p] = [i \in Slots |-> None]]
  /\ waiters' = [waiters EXCEPT ![p] = [i \in Slots |-> <<>>]]
  /\ current' = [current EXCEPT ![job[r].model] = p]
  /\ pool' = [pool EXCEPT ![r] = p]

Settle(r) ==
  /\ pc[r] = "probe"
  /\ \E n \in Counts(r) : KeepState(r, n) \/ ReplaceState(r, n)
  /\ Goto(r, "assign")
  /\ UNCHANGED <<override, job, slot>>

-----------------------------------------------------------------------------
(* _assign, and joining the lock of the slot it returns.  No await comes   *)
(* between the two, so they are one step.                                  *)

\* Mutant: acquire() takes the lock from whoever has it.
AcquireStealing(r, p, i) ==
  owner' = [owner EXCEPT ![p][i] = r] /\ UNCHANGED waiters

\* anyio.Lock.acquire: take a free lock, else queue in arrival order.
Acquire(r, p, i) ==
  IF owner[p][i] = None /\ waiters[p][i] = <<>>
  THEN owner' = [owner EXCEPT ![p][i] = r] /\ UNCHANGED waiters
  ELSE waiters' = [waiters EXCEPT ![p][i] = Append(@, r)] /\ UNCHANGED owner

\* Mutant: release() wakes nobody.
ReleaseForgettingWaiters(p, i) ==
  owner' = [owner EXCEPT ![p][i] = None] /\ UNCHANGED waiters

\* anyio.Lock.release: hand the lock to the first waiter.
Release(p, i) ==
  IF waiters[p][i] = <<>>
  THEN owner' = [owner EXCEPT ![p][i] = None] /\ UNCHANGED waiters
  ELSE /\ owner' = [owner EXCEPT ![p][i] = Head(waiters[p][i])]
       /\ waiters' = [waiters EXCEPT ![p][i] = Tail(@)]

UsedSlots(p) == {slotOf[p][s] : s \in Sessions} \ {NoSlot}

LowestFree(p) ==
  CHOOSE i \in 0..(conf[p].count - 1) :
    /\ i \notin UsedSlots(p)
    /\ \A j \in 0..(i - 1) : j \in UsedSlots(p)

AssignKnown(p, s) ==
  /\ slotOf[p][s] # NoSlot
  /\ sessions' = [sessions EXCEPT ![p] = MovedToEnd(@, s)]
  /\ UNCHANGED slotOf

AssignFree(p, s) ==
  /\ slotOf[p][s] = NoSlot
  /\ Len(sessions[p]) < conf[p].count
  /\ sessions' = [sessions EXCEPT ![p] = Append(@, s)]
  /\ slotOf' = [slotOf EXCEPT ![p][s] = LowestFree(p)]

\* Mutant: the evicted session keeps its entry.
AssignEvictingNobody(p, s) ==
  /\ slotOf[p][s] = NoSlot
  /\ Len(sessions[p]) >= conf[p].count
  /\ sessions' = [sessions EXCEPT ![p] = Append(Tail(@), s)]
  /\ slotOf' = [slotOf EXCEPT ![p][s] = slotOf[p][Head(sessions[p])]]

AssignEvicting(p, s) ==
  LET victim == Head(sessions[p]) IN
  /\ slotOf[p][s] = NoSlot
  /\ Len(sessions[p]) >= conf[p].count
  /\ sessions' = [sessions EXCEPT ![p] = Append(Tail(@), s)]
  /\ slotOf' = [slotOf EXCEPT ![p][victim] = NoSlot, ![p][s] = slotOf[p][victim]]

Assign(r) ==
  LET p == pool[r]
      s == job[r].session
  IN
  /\ pc[r] = "assign"
  /\ AssignKnown(p, s) \/ AssignFree(p, s) \/ AssignEvicting(p, s)
  /\ slot' = [slot EXCEPT ![r] = slotOf'[p][s]]
  /\ Acquire(r, p, slotOf'[p][s])
  /\ Goto(r, "wait")
  /\ UNCHANGED <<override, current, conf, lastSession, job, pool>>

-----------------------------------------------------------------------------
(* The lease, and its ends.                                                *)

\* Mutant: a session is resident in whatever slot it is assigned to.
ResidentAssigned(r) == slotOf[pool[r]][job[r].session] = slot[r]

\* lease.resident, read when the lock is obtained.
Resident(r) == lastSession[pool[r]][slot[r]] = job[r].session

\* Mutant: the lease begins whoever has the lock.
EnterUnlocked(r) ==
  /\ pc[r] = "wait"
  /\ Goto(r, "lease")
  /\ UNCHANGED <<override, stateVars, lastSession, lockVars, job, pool, slot>>

Enter(r) ==
  /\ pc[r] = "wait"
  /\ owner[pool[r]][slot[r]] = r
  /\ Goto(r, "lease")
  /\ UNCHANGED <<override, stateVars, lastSession, lockVars, job, pool, slot>>

Ended(r) ==
  /\ Goto(r, "idle")
  /\ job' = [job EXCEPT ![r] = None]
  /\ pool' = [pool EXCEPT ![r] = None]
  /\ slot' = [slot EXCEPT ![r] = NoSlot]

\* The finally clause of lease(), which runs however the lease ended.
Recorded(r) ==
  lastSession' = [lastSession EXCEPT ![pool[r]][slot[r]] = job[r].session]

\* The body of the lease returned, raised, or was cancelled at one of its awaits.
Leave(r) ==
  /\ pc[r] = "lease"
  /\ Recorded(r)
  /\ Release(pool[r], slot[r])
  /\ Ended(r)
  /\ UNCHANGED <<override, stateVars>>

\* Mutants: a cancelled acquire() stays queued, or frees a lock it does not have.
WithdrawNothing(r, p, i) == UNCHANGED lockVars
WithdrawReleasing(r, p, i) == Release(p, i)

\* A cancelled acquire() leaves the queue.
Withdraw(r, p, i) ==
  /\ waiters' = [waiters EXCEPT ![p][i] = Without(@, r)]
  /\ UNCHANGED owner

\* The task is cancelled before it has its lease.  In acquire() it leaves the
\* queue, or passes on the lock it was just handed.
Cancel(r) ==
  /\ pc[r] \in Waiting
  /\ IF pc[r] # "wait" THEN UNCHANGED lockVars
     ELSE IF owner[pool[r]][slot[r]] = r THEN Release(pool[r], slot[r])
     ELSE Withdraw(r, pool[r], slot[r])
  /\ Ended(r)
  /\ UNCHANGED <<override, stateVars, lastSession>>

\* The task is cancelled while its generator is suspended at a yield (the chunk
\* waits for the client).  The abandoned generator is closed later, in a task of
\* the event loop's own: lease() unwinds there, the lock refuses a release from
\* a task that does not own it, and it stays owned by the dead task.
OrphanedLocks ==
  {l \in (Pools \ FreePools) \X Slots : owner[l[1]][l[2]] = Orphan}

Abandon(r) ==
  /\ pc[r] = "lease"
  /\ Cardinality(OrphanedLocks) < MaxOrphans
  /\ Recorded(r)
  /\ owner' = [owner EXCEPT ![pool[r]][slot[r]] = Orphan]
  /\ Ended(r)
  /\ UNCHANGED <<override, stateVars, waiters>>

-----------------------------------------------------------------------------
\* What a request does of its own accord once it has arrived.
Proceed(r) == Lookup(r) \/ Settle(r) \/ Assign(r) \/ Enter(r) \/ Leave(r)

Next ==
  \/ \E n \in Overrides : Reconfigure(n)
  \/ \E m \in Models : ProbeExpires(m)
  \/ \E r \in Requests :
       \/ \E s \in Sessions, m \in Models : Arrive(r, s, m)
       \/ Proceed(r)
       \/ Cancel(r)
       \/ Abandon(r)

Spec == Init /\ [][Next]_allocatorVars

\* A task that can run is run, and a lease ends: the calls made under it time
\* out.  Nothing is assumed of clients: they need not come, stay or leave.
FairSpec == Spec /\ \A r \in Requests : WF_allocatorVars(Proceed(r))

-----------------------------------------------------------------------------
(* Properties.                                                             *)

TypeOK ==
  /\ override \in Overrides
  /\ current \in [Models -> Pools \cup {None}]
  /\ conf \in [Pools -> [count : 1..MaxSlots, override : 0..MaxSlots, fresh : BOOLEAN]]
  /\ sessions \in [Pools -> Seq(Sessions)]
  /\ slotOf \in [Pools -> [Sessions -> Slots \cup {NoSlot}]]
  /\ lastSession \in [Pools -> [Slots -> Sessions \cup {None}]]
  /\ owner \in [Pools -> [Slots -> Requests \cup {None, Orphan}]]
  /\ waiters \in [Pools -> [Slots -> Seq(Requests)]]
  /\ pc \in [Requests -> {"idle", "lease"} \cup Waiting]
  /\ job \in [Requests -> Jobs \cup {None}]
  /\ pool \in [Requests -> Pools \cup {None}]
  /\ slot \in [Requests -> Slots \cup {NoSlot}]

\* No two leases are ever inside restore -> inference -> save on one server
\* slot: "serialize slot access", the SlotAllocator docstring.
SlotExclusive ==
  \A r1, r2 \in Requests :
    Holds(r1) /\ Holds(r2) /\ Place(r1) = Place(r2) => r1 = r2

\* The session map of a state object: no more sessions than slots, each in a slot
\* of its own that the object has, and the LRU order lists exactly the mapped
\* sessions, each once.
MapOK(p) ==
  /\ Len(sessions[p]) <= conf[p].count
  /\ Distinct(sessions[p])
  /\ \A s \in Sessions : slotOf[p][s] # NoSlot <=> Contains(sessions[p], s)
  /\ \A s \in Sessions : slotOf[p][s] # NoSlot => slotOf[p][s] < conf[p].count
  /\ \A s, t \in Sessions :
       slotOf[p][s] # NoSlot /\ slotOf[p][s] = slotOf[p][t] => s = t

SessionMapOK == \A p \in Pools : MapOK(p)

\* The owner of a lock waits to enter, or is inside, a lease of that very slot.
OwnersBusy ==
  \A p \in Pools, i \in Slots, r \in Requests :
    owner[p][i] = r => pc[r] \in {"wait", "lease"} /\ pool[r] = p /\ slot[r] = i

\* Whoever is queued on a lock waits for it, once, behind somebody else.
QueuesWait ==
  \A p \in Pools, i \in Slots :
    /\ \A r \in Requests : Contains(waiters[p][i], r) =>
         /\ pc[r] = "wait" /\ pool[r] = p /\ slot[r] = i
         /\ owner[p][i] \notin {r, None}
    /\ Distinct(waiters[p][i])

\* Whoever is inside owns the lock; whoever waits owns it or is queued on it.
NobodyForgotten ==
  \A r \in Requests :
    /\ Holds(r) => owner[pool[r]][slot[r]] = r
    /\ pc[r] = "wait" =>
         \/ owner[pool[r]][slot[r]] = r
         \/ Contains(waiters[pool[r]][slot[r]], r)

\* Locks and requests agree at all times, through hand-overs, cancellations and
\* the replacement of the state object the locks belong to.
LocksAccounted == OwnersBusy /\ QueuesWait /\ NobodyForgotten

\* A request behind a lock that its dead owner never released.
Stranded(r) == pc[r] = "wait" /\ owner[pool[r]][slot[r]] = Orphan

\* Every request that arrives ends, unless it queues behind an abandoned stream.
EveryRequestEnds ==
  \A r \in Requests : pc[r] # "idle" ~> (pc[r] = "idle" \/ Stranded(r))
=============================================================================
