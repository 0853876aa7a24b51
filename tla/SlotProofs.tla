----------------------------- MODULE SlotProofs -----------------------------
(***************************************************************************)
(* Proofs about SlotAllocator: its inductive invariant, and the exclusive  *)
(* use of a server slot as long as a slot state is not replaced.  Proofs   *)
(* about SlotCache, which rest on that exclusion: while slot states are    *)
(* stable, no request's tokens are replaced while it generates, and a      *)
(* snapshot file is given the conversation it is named after.              *)
(***************************************************************************)
EXTENDS SlotCache, SequenceLemmas, FiniteSetTheorems

-----------------------------------------------------------------------------
(* The inductive invariant of the allocator.                               *)

\* What a request has obtained at each point of its progress, and that every
\* registered or referenced state object has a slot.
RequestsOK ==
  /\ \A r \in Requests :
       /\ pc[r] # "idle" => job[r] \in Jobs
       /\ pc[r] \in {"idle", "lookup", "probe"} => pool[r] = None
       /\ pc[r] \in {"assign", "wait", "lease"} =>
            pool[r] \in Pools /\ conf[pool[r]].count >= 1
       /\ pc[r] \in {"wait", "lease"} => slot[r] \in Slots
  /\ \A m \in Models : current[m] # None => conf[current[m]].count >= 1

IInv == TypeOK /\ RequestsOK /\ SessionMapOK /\ LocksAccounted

USE SizesAssumption, NullsAssumption

-----------------------------------------------------------------------------
(* The session map.                                                        *)

\* A state object with fewer sessions than slots has a slot no session uses,
\* and LowestFree returns one: next(...) in _assign always finds a slot.
LEMMA LowestFreeProperties ==
  ASSUME TypeOK, SessionMapOK, NEW p \in Pools, Len(sessions[p]) < conf[p].count
  PROVE  /\ LowestFree(p) \in 0..(conf[p].count - 1)
         /\ LowestFree(p) \notin UsedSlots(p)
<1> DEFINE n == conf[p].count
           All == 0..(n - 1)
           Free == {i \in All : i \notin UsedSlots(p)}
           Order == 1..Len(sessions[p])
<1>1. n \in Nat /\ n # 0 /\ Len(sessions[p]) \in Nat /\ Len(sessions[p]) < n
  BY LenProperties DEF TypeOK
<1>2. Free # {}
  <2> SUFFICES ASSUME Free = {} PROVE FALSE
    OBVIOUS
  <2> DEFINE f == [i \in All |-> CHOOSE k \in Order : slotOf[p][sessions[p][k]] = i]
  <2>1. \A i \in All : \E k \in Order : slotOf[p][sessions[p][k]] = i
    <3> TAKE i \in All
    <3>1. PICK s \in Sessions : slotOf[p][s] = i /\ slotOf[p][s] # NoSlot
      BY DEF UsedSlots
    <3>2. PICK k \in Order : sessions[p][k] = s
      BY <3>1 DEF SessionMapOK, MapOK, Contains
    <3> QED BY <3>1, <3>2
  <2>2. \A i \in All : f[i] \in Order /\ slotOf[p][sessions[p][f[i]]] = i
    BY <2>1
  <2>3. f \in [All -> Order]
    BY <2>2
  <2>4. IsFiniteSet(All) /\ Cardinality(All) = n
    <3>1. 0 \in Int /\ n - 1 \in Int /\ ~(0 > n - 1) /\ (n - 1) - 0 + 1 = n
      BY <1>1
    <3> QED BY <3>1, FS_Interval
  <2>5. IsFiniteSet(Order) /\ Cardinality(Order) = Len(sessions[p])
    BY <1>1, FS_Interval
  <2>6. \E i, j \in All : i # j /\ f[i] = f[j]
    <3> HIDE DEF f, All, Order
    <3> QED BY <1>1, <2>3, <2>4, <2>5, FS_PigeonHole
  <2> QED BY <2>2, <2>6
<1>3. PICK i \in Free : \A j \in Free : ~(j < i)
  <2>1. Free \subseteq Nat
    BY <1>1
  <2>2. PICK i \in Free : \A j \in Free : <<j, i>> \notin OpToRel(<, Nat)
    <3> HIDE DEF Free
    <3> QED BY <1>2, <2>1, NatLessThanWellFounded, WFMin
  <2> QED BY <2>1, <2>2 DEF OpToRel
<1>4. i \in All /\ i \notin UsedSlots(p) /\ \A j \in 0..(i - 1) : j \in UsedSlots(p)
  BY <1>1, <1>3
<1> QED BY <1>4 DEF LowestFree

\* _assign keeps the session map intact and gives the session a slot of the object.
LEMMA AssignKeepsMap ==
  ASSUME TypeOK, SessionMapOK, NEW p \in Pools, NEW s \in Sessions,
         conf[p].count >= 1, UNCHANGED conf,
         AssignKnown(p, s) \/ AssignFree(p, s) \/ AssignEvicting(p, s)
  PROVE  /\ sessions' \in [Pools -> Seq(Sessions)]
         /\ slotOf' \in [Pools -> [Sessions -> Slots \cup {NoSlot}]]
         /\ SessionMapOK'
         /\ slotOf'[p][s] \in Slots
<1> DEFINE q == sessions[p]
           n == conf[p].count
<1>1. /\ q \in Seq(Sessions) /\ Len(q) \in Nat /\ n \in 1..MaxSlots /\ n \in Nat
      /\ Len(q) <= n /\ Distinct(q)
      /\ slotOf[p] \in [Sessions -> Slots \cup {NoSlot}]
  BY LenProperties DEF TypeOK, SessionMapOK, MapOK
<1>2. CASE AssignKnown(p, s)
  <2> DEFINE b == MovedToEnd(q, s)
  <2>1. sessions' = [sessions EXCEPT ![p] = b] /\ slotOf' = slotOf /\ slotOf[p][s] # NoSlot
    BY <1>2 DEF AssignKnown
  <2>2. Contains(q, s)
    BY <2>1 DEF SessionMapOK, MapOK
  <2>3. /\ b \in Seq(Sessions) /\ Len(b) = Len(q) /\ Distinct(b)
        /\ \A x : Contains(b, x) <=> Contains(q, x)
    BY <1>1, <2>2, MovedToEndMembers
  <2> HIDE DEF b
  <2>8. SessionMapOK'
    BY <1>1, <2>1, <2>3 DEF SessionMapOK, MapOK, TypeOK
  <2> QED BY <2>1, <2>3, <2>8 DEF TypeOK
<1>3. CASE AssignFree(p, s)
  <2> DEFINE b == Append(q, s)
             i == LowestFree(p)
  <2>1. ~Contains(q, s) /\ Len(q) < n
    BY <1>3 DEF AssignFree, SessionMapOK, MapOK
  <2>2. i \in 0..(n - 1) /\ i \notin UsedSlots(p)
    BY <2>1, LowestFreeProperties
  <2>3. /\ b \in Seq(Sessions) /\ Len(b) = Len(q) + 1 /\ Distinct(b)
        /\ \A x : Contains(b, x) <=> Contains(q, x) \/ x = s
    BY <1>1, <2>1, AppendMembers
  <2>4. /\ sessions' = [sessions EXCEPT ![p] = b]
        /\ slotOf' = [slotOf EXCEPT ![p][s] = i]
    BY <1>3 DEF AssignFree
  <2> HIDE DEF b, i
  <2>5. i \in Slots /\ i # NoSlot /\ i < n
    BY <1>1, <2>2 DEF Slots
  <2>6. \A t \in Sessions : slotOf[p][t] # i
    BY <2>2, <2>5 DEF UsedSlots
  <2>7. /\ slotOf' \in [Pools -> [Sessions -> Slots \cup {NoSlot}]]
        /\ \A t \in Sessions : slotOf'[p][t] = IF t = s THEN i ELSE slotOf[p][t]
        /\ \A p2 \in Pools \ {p} : slotOf'[p2] = slotOf[p2]
    BY <2>4, <2>5 DEF TypeOK
  <2>8. /\ sessions' \in [Pools -> Seq(Sessions)] /\ sessions'[p] = b
        /\ \A p2 \in Pools \ {p} : sessions'[p2] = sessions[p2]
    BY <2>3, <2>4 DEF TypeOK
  <2>9. SessionMapOK'
    <3>1. ASSUME NEW p2 \in Pools, p2 # p PROVE MapOK(p2)'
      <4>1. sessions'[p2] = sessions[p2] /\ slotOf'[p2] = slotOf[p2] /\ conf'[p2] = conf[p2]
        BY <2>7, <2>8, <3>1
      <4>2. MapOK(p2)
        BY DEF SessionMapOK
      <4> QED BY <4>1, <4>2 DEF MapOK
    <3>2. MapOK(p)'
      <4> DEFINE m == slotOf'[p]
      <4>1. conf'[p].count = n /\ Len(b) <= n /\ Distinct(b)
        BY <1>1, <2>1, <2>3
      <4>2. \A t \in Sessions : m[t] # NoSlot <=> Contains(b, t)
        BY <2>3, <2>5, <2>7 DEF SessionMapOK, MapOK
      <4>3. \A t \in Sessions : m[t] # NoSlot => m[t] < n
        BY <2>5, <2>7 DEF SessionMapOK, MapOK
      <4>4. \A t, u \in Sessions : m[t] # NoSlot /\ m[t] = m[u] => t = u
        BY <2>5, <2>6, <2>7 DEF SessionMapOK, MapOK
      <4> QED BY <2>8, <4>1, <4>2, <4>3, <4>4 DEF MapOK
    <3> QED BY <3>1, <3>2 DEF SessionMapOK, MapOK
  <2> QED BY <2>5, <2>7, <2>8, <2>9
<1>4. CASE AssignEvicting(p, s)
  <2> DEFINE v == Head(q)
             a == Tail(q)
             b == Append(a, s)
             i == slotOf[p][v]
  <2>1. ~Contains(q, s) /\ Len(q) >= n /\ q # <<>>
    BY <1>1, <1>4, EmptySeq DEF AssignEvicting, SessionMapOK, MapOK
  <2>2. /\ a \in Seq(Sessions) /\ Len(a) = Len(q) - 1 /\ Distinct(a)
        /\ v \in Sessions /\ Contains(q, v)
        /\ \A x : Contains(a, x) <=> Contains(q, x) /\ x # v
    BY <1>1, <2>1, TailMembers
  <2>3. /\ sessions' = [sessions EXCEPT ![p] = b]
        /\ slotOf' = [slotOf EXCEPT ![p][v] = NoSlot, ![p][s] = i]
    BY <1>4 DEF AssignEvicting
  <2> HIDE DEF v, a
  <2>4. /\ b \in Seq(Sessions) /\ Len(b) = Len(a) + 1 /\ Distinct(b)
        /\ \A x : Contains(b, x) <=> Contains(a, x) \/ x = s
    BY <2>1, <2>2, AppendMembers
  <2>5. i \in Slots /\ i # NoSlot /\ i < n /\ v # s
    BY <1>1, <2>1, <2>2 DEF SessionMapOK, MapOK
  <2>6. \A t \in Sessions : slotOf[p][t] = i => t = v
    BY <2>2, <2>5 DEF SessionMapOK, MapOK
  <2> HIDE DEF b, i
  <2>7. /\ slotOf' \in [Pools -> [Sessions -> Slots \cup {NoSlot}]]
        /\ \A t \in Sessions : slotOf'[p][t] = IF t = s THEN i
                                               ELSE IF t = v THEN NoSlot ELSE slotOf[p][t]
        /\ \A p2 \in Pools \ {p} : slotOf'[p2] = slotOf[p2]
    BY <2>2, <2>3, <2>5, ZenonT(60) DEF TypeOK
  <2>8. /\ sessions' \in [Pools -> Seq(Sessions)] /\ sessions'[p] = b
        /\ \A p2 \in Pools \ {p} : sessions'[p2] = sessions[p2]
    BY <2>3, <2>4 DEF TypeOK
  <2>9. SessionMapOK'
    <3>1. ASSUME NEW p2 \in Pools, p2 # p PROVE MapOK(p2)'
      <4>1. sessions'[p2] = sessions[p2] /\ slotOf'[p2] = slotOf[p2] /\ conf'[p2] = conf[p2]
        BY <2>7, <2>8, <3>1
      <4>2. MapOK(p2)
        BY DEF SessionMapOK
      <4> QED BY <4>1, <4>2 DEF MapOK
    <3>2. MapOK(p)'
      <4> DEFINE m == slotOf'[p]
      <4>1. conf'[p].count = n /\ Len(b) <= n /\ Distinct(b)
        BY <1>1, <2>1, <2>2, <2>4
      <4>2. \A t \in Sessions : m[t] # NoSlot <=> Contains(b, t)
        BY <2>2, <2>4, <2>5, <2>7 DEF SessionMapOK, MapOK
      <4>3. \A t \in Sessions : m[t] # NoSlot => m[t] < n
        BY <2>5, <2>7 DEF SessionMapOK, MapOK
      <4>4. \A t, u \in Sessions : m[t] # NoSlot /\ m[t] = m[u] => t = u
        BY <2>5, <2>6, <2>7 DEF SessionMapOK, MapOK
      <4> QED BY <2>8, <4>1, <4>2, <4>3, <4>4 DEF MapOK
    <3> QED BY <3>1, <3>2 DEF SessionMapOK, MapOK
  <2> QED BY <2>5, <2>7, <2>8, <2>9
<1> QED BY <1>2, <1>3, <1>4
-----------------------------------------------------------------------------
(* The locks.                                                              *)

\* A request that neither waits nor holds before and after moves no lock.
LEMMA OutsideKeepsLocks ==
  ASSUME TypeOK, LocksAccounted, NEW r \in Requests, UNCHANGED lockVars,
         pc[r] \notin {"wait", "lease"}, pc'[r] \notin {"wait", "lease"},
         \A r2 \in Requests \ {r} :
           pc'[r2] = pc[r2] /\ pool'[r2] = pool[r2] /\ slot'[r2] = slot[r2]
  PROVE  LocksAccounted'
<1>1. owner' = owner /\ waiters' = waiters
  BY DEF lockVars
<1>2. OwnersBusy'
  BY <1>1 DEF LocksAccounted, OwnersBusy
<1>3. QueuesWait'
  BY <1>1 DEF LocksAccounted, QueuesWait
<1>4. NobodyForgotten'
  BY <1>1 DEF LocksAccounted, NobodyForgotten, Holds
<1> QED BY <1>2, <1>3, <1>4 DEF LocksAccounted

\* What Acquire leaves of the locks' variables.
LEMMA AcquireKeepsLocks ==
  ASSUME TypeOK, RequestsOK, LocksAccounted, NEW r \in Requests, NEW p \in Pools, NEW i \in Slots,
         pc[r] = "assign", pool[r] = p, Acquire(r, p, i), Goto(r, "wait"),
         UNCHANGED pool, slot' = [slot EXCEPT ![r] = i]
  PROVE  /\ owner' \in [Pools -> [Slots -> Requests \cup {None, Orphan}]]
         /\ waiters' \in [Pools -> [Slots -> Seq(Requests)]]
         /\ LocksAccounted'
<1> DEFINE q == waiters[p][i]
           u == Append(q, r)
<1>1. /\ \A r2 \in Requests : pc'[r2] = IF r2 = r THEN "wait" ELSE pc[r2]
      /\ \A r2 \in Requests : slot'[r2] = IF r2 = r THEN i ELSE slot[r2]
      /\ pool' = pool
  BY DEF TypeOK, Goto
<1>2. q \in Seq(Requests) /\ Distinct(q) /\ ~Contains(q, r)
  BY DEF TypeOK, LocksAccounted, QueuesWait
<1>3. /\ u \in Seq(Requests) /\ Distinct(u)
      /\ \A x : Contains(u, x) <=> Contains(q, x) \/ x = r
  BY <1>2, AppendMembers
<1> HIDE DEF u
<1>4. owner[p][i] # r
  BY DEF LocksAccounted, OwnersBusy
<1>5. CASE owner[p][i] = None /\ q = <<>>
  <2>0. waiters' = waiters /\ owner' = [owner EXCEPT ![p] = [@ EXCEPT ![i] = r]]
    BY <1>5 DEF Acquire
  <2>1. /\ waiters' = waiters
        /\ \A p2 \in Pools, j \in Slots :
             owner'[p2][j] = IF p2 = p /\ j = i THEN r ELSE owner[p2][j]
    BY <2>0 DEF TypeOK
  <2>2. owner' \in [Pools -> [Slots -> Requests \cup {None, Orphan}]]
    BY <2>0 DEF TypeOK
  <2>3. \A x : ~Contains(q, x)
    BY <1>5, EmptySeq DEF Contains
  <2>4. OwnersBusy'
    BY <1>1, <2>1 DEF LocksAccounted, OwnersBusy
  <2>5. QueuesWait'
    BY <1>1, <1>2, <2>1, <2>3 DEF LocksAccounted, QueuesWait
  <2>6. NobodyForgotten'
    <3> SUFFICES ASSUME NEW r2 \in Requests
                 PROVE  /\ pc'[r2] = "lease" => owner'[pool'[r2]][slot'[r2]] = r2
                        /\ pc'[r2] = "wait" =>
                             \/ owner'[pool'[r2]][slot'[r2]] = r2
                             \/ Contains(waiters'[pool'[r2]][slot'[r2]], r2)
      BY DEF NobodyForgotten, Holds
    <3>1. CASE r2 = r
      BY <1>1, <2>1, <3>1
    <3>2. CASE r2 # r
      <4>1. CASE pc[r2] \in {"wait", "lease"}
        <5>1. pool[r2] \in Pools /\ slot[r2] \in Slots
          BY <4>1 DEF RequestsOK
        <5>2. ~(pool[r2] = p /\ slot[r2] = i)
          BY <1>5, <2>3, <4>1 DEF LocksAccounted, NobodyForgotten, Holds
        <5> QED BY <1>1, <2>1, <3>2, <4>1, <5>1, <5>2 DEF LocksAccounted, NobodyForgotten, Holds
      <4> QED BY <1>1, <3>2, <4>1
    <3> QED BY <3>1, <3>2
  <2> QED BY <2>1, <2>2, <2>4, <2>5, <2>6 DEF LocksAccounted, TypeOK
<1>6. CASE ~(owner[p][i] = None /\ q = <<>>)
  <2>1. /\ owner' = owner
        /\ waiters' = [waiters EXCEPT ![p] = [@ EXCEPT ![i] = u]]
    BY <1>6 DEF Acquire, u
  <2>2. waiters' \in [Pools -> [Slots -> Seq(Requests)]]
    BY <1>3, <2>1 DEF TypeOK
  <2>3. \A p2 \in Pools, j \in Slots :
          waiters'[p2][j] = IF p2 = p /\ j = i THEN u ELSE waiters[p2][j]
    BY <2>1 DEF TypeOK
  <2>4. OwnersBusy'
    BY <1>1, <2>1 DEF LocksAccounted, OwnersBusy
  <2>5. owner[p][i] # None
    <3> SUFFICES ASSUME owner[p][i] = None PROVE FALSE
      OBVIOUS
    <3>1. q # <<>>
      BY <1>6
    <3>2. \E x \in Requests : Contains(q, x)
      BY <1>2, <3>1, TailMembers
    <3> QED BY <3>2 DEF LocksAccounted, QueuesWait
  <2>6. QueuesWait'
    BY <1>1, <1>3, <1>4, <2>1, <2>3, <2>5 DEF LocksAccounted, QueuesWait
  <2>7. NobodyForgotten'
    <3> SUFFICES ASSUME NEW r2 \in Requests
                 PROVE  /\ pc'[r2] = "lease" => owner'[pool'[r2]][slot'[r2]] = r2
                        /\ pc'[r2] = "wait" =>
                             \/ owner'[pool'[r2]][slot'[r2]] = r2
                             \/ Contains(waiters'[pool'[r2]][slot'[r2]], r2)
      BY DEF NobodyForgotten, Holds
    <3>1. CASE r2 = r
      BY <1>1, <1>3, <2>3, <3>1
    <3>2. CASE r2 # r
      BY <1>1, <1>3, <2>1, <2>3, <3>2 DEF RequestsOK, LocksAccounted, NobodyForgotten, Holds
    <3> QED BY <3>1, <3>2
  <2> QED BY <2>1, <2>2, <2>4, <2>6, <2>7 DEF LocksAccounted, TypeOK
<1> QED BY <1>5, <1>6

\* Handing the lock on, or freeing it, when its owner waits no more or leaves.
LEMMA ReleaseKeepsLocks ==
  ASSUME TypeOK, RequestsOK, LocksAccounted, NEW r \in Requests,
         pc[r] \in {"wait", "lease"}, owner[pool[r]][slot[r]] = r,
         Release(pool[r], slot[r]), Ended(r)
  PROVE  /\ owner' \in [Pools -> [Slots -> Requests \cup {None, Orphan}]]
         /\ waiters' \in [Pools -> [Slots -> Seq(Requests)]]
         /\ LocksAccounted'
<1> DEFINE p == pool[r]
           i == slot[r]
           q == waiters[p][i]
<1>1. p \in Pools /\ i \in Slots
  BY DEF RequestsOK
<1>2. \A r2 \in Requests :
        /\ pc'[r2] = IF r2 = r THEN "idle" ELSE pc[r2]
        /\ r2 # r => pool'[r2] = pool[r2] /\ slot'[r2] = slot[r2]
  BY DEF Ended, Goto, TypeOK
<1>3. q \in Seq(Requests) /\ Distinct(q) /\ ~Contains(q, r)
  BY <1>1 DEF TypeOK, LocksAccounted, QueuesWait
<1>4. \A r2 \in Requests \ {r} : pc[r2] = "lease" => ~(pool[r2] = p /\ slot[r2] = i)
  BY DEF LocksAccounted, NobodyForgotten, Holds
<1>5. \A r2 \in Requests : pc[r2] \in {"wait", "lease"} => pool[r2] \in Pools /\ slot[r2] \in Slots
  BY DEF RequestsOK
<1>6. CASE q = <<>>
  <2>1. waiters' = waiters /\ owner' = [owner EXCEPT ![p] = [@ EXCEPT ![i] = None]]
    BY <1>6 DEF Release
  <2>2. /\ owner' \in [Pools -> [Slots -> Requests \cup {None, Orphan}]]
        /\ \A p2 \in Pools, j \in Slots :
             owner'[p2][j] = IF p2 = p /\ j = i THEN None ELSE owner[p2][j]
    BY <1>1, <2>1 DEF TypeOK
  <2>3. \A x : ~Contains(q, x)
    BY <1>6, EmptySeq DEF Contains
  <2> HIDE DEF q, p, i
  <2>4. OwnersBusy'
    BY <1>1, <1>2, <2>1, <2>2 DEF LocksAccounted, OwnersBusy, p, i
  <2>5. QueuesWait'
    <3> SUFFICES ASSUME NEW p2 \in Pools, NEW j \in Slots
                 PROVE  /\ \A r2 \in Requests : Contains(waiters[p2][j], r2) =>
                             /\ pc'[r2] = "wait" /\ pool'[r2] = p2 /\ slot'[r2] = j
                             /\ owner'[p2][j] \notin {r2, None}
                        /\ Distinct(waiters[p2][j])
      BY <2>1 DEF QueuesWait
    <3>1. CASE p2 = p /\ j = i
      BY <2>3, <1>3, <3>1 DEF q
    <3>2. CASE ~(p2 = p /\ j = i)
      <4>1. \A r2 \in Requests : Contains(waiters[p2][j], r2) =>
             pc[r2] = "wait" /\ pool[r2] = p2 /\ slot[r2] = j /\ owner[p2][j] \notin {r2, None}
        BY DEF LocksAccounted, QueuesWait
      <4>2. ~Contains(waiters[p2][j], r)
        BY <3>2, <4>1 DEF p, i
      <4>3. Distinct(waiters[p2][j])
        BY DEF LocksAccounted, QueuesWait
      <4> QED BY <1>1, <1>2, <2>2, <3>2, <4>1, <4>2, <4>3
    <3> QED BY <3>1, <3>2
  <2>6. NobodyForgotten'
    <3> SUFFICES ASSUME NEW r2 \in Requests, r2 # r, pc[r2] \in {"wait", "lease"}
                 PROVE  \/ owner'[pool[r2]][slot[r2]] = r2
                        \/ pc[r2] = "wait" /\ Contains(waiters'[pool[r2]][slot[r2]], r2)
      BY <1>2 DEF NobodyForgotten, Holds
    <3>1. /\ pool[r2] \in Pools /\ slot[r2] \in Slots
          /\ \/ owner[pool[r2]][slot[r2]] = r2
             \/ pc[r2] = "wait" /\ Contains(waiters[pool[r2]][slot[r2]], r2)
      BY <1>5 DEF LocksAccounted, NobodyForgotten, Holds
    <3>2. CASE pool[r2] = p /\ slot[r2] = i
      <4>1. owner[p][i] # r2
        BY <3>2 DEF p, i
      <4> QED BY <2>3, <3>1, <3>2, <4>1 DEF q
    <3>3. CASE ~(pool[r2] = p /\ slot[r2] = i)
      BY <2>1, <2>2, <3>1, <3>3
    <3> QED BY <3>2, <3>3
  <2> QED BY <2>1, <2>2, <2>4, <2>5, <2>6 DEF LocksAccounted, TypeOK
<1>7. CASE q # <<>>
  <2> DEFINE h == Head(q)
             u == Tail(q)
  <2>1. /\ owner' = [owner EXCEPT ![p] = [@ EXCEPT ![i] = h]]
        /\ waiters' = [waiters EXCEPT ![p] = [@ EXCEPT ![i] = u]]
    BY <1>7 DEF Release
  <2>2. /\ u \in Seq(Requests) /\ h \in Requests /\ Contains(q, h) /\ Distinct(u)
        /\ \A x : Contains(u, x) <=> Contains(q, x) /\ x # h
    BY <1>3, <1>7, TailMembers
  <2> HIDE DEF h, u
  <2>3. /\ owner' \in [Pools -> [Slots -> Requests \cup {None, Orphan}]]
        /\ waiters' \in [Pools -> [Slots -> Seq(Requests)]]
        /\ \A p2 \in Pools, j \in Slots :
             /\ owner'[p2][j] = IF p2 = p /\ j = i THEN h ELSE owner[p2][j]
             /\ waiters'[p2][j] = IF p2 = p /\ j = i THEN u ELSE waiters[p2][j]
    BY <1>1, <2>1, <2>2 DEF TypeOK
  <2>4. h # r /\ pc[h] = "wait" /\ pool[h] = p /\ slot[h] = i
    BY <1>1, <1>3, <2>2 DEF LocksAccounted, QueuesWait
  <2> HIDE DEF q, p, i
  <2>5. OwnersBusy'
    <3> SUFFICES ASSUME NEW p2 \in Pools, NEW j \in Slots, NEW r2 \in Requests,
                        owner'[p2][j] = r2
                 PROVE  pc'[r2] \in {"wait", "lease"} /\ pool'[r2] = p2 /\ slot'[r2] = j
      BY DEF OwnersBusy
    <3>1. CASE p2 = p /\ j = i
      BY <1>1, <1>2, <2>2, <2>3, <2>4, <3>1
    <3>2. CASE ~(p2 = p /\ j = i)
      <4>1. /\ owner[p2][j] = r2 /\ pool[r2] = p2 /\ slot[r2] = j
            /\ pc[r2] \in {"wait", "lease"}
        BY <2>3, <3>2 DEF LocksAccounted, OwnersBusy
      <4> QED BY <1>2, <3>2, <4>1 DEF p, i
    <3> QED BY <3>1, <3>2
  <2>6. QueuesWait'
    <3> SUFFICES ASSUME NEW p2 \in Pools, NEW j \in Slots
                 PROVE  /\ \A r2 \in Requests : Contains(waiters'[p2][j], r2) =>
                             /\ pc'[r2] = "wait" /\ pool'[r2] = p2 /\ slot'[r2] = j
                             /\ owner'[p2][j] \notin {r2, None}
                        /\ Distinct(waiters'[p2][j])
      BY DEF QueuesWait
    <3>1. \A r2 \in Requests : Contains(waiters[p2][j], r2) =>
             pc[r2] = "wait" /\ pool[r2] = p2 /\ slot[r2] = j /\ owner[p2][j] \notin {r2, None}
      BY DEF LocksAccounted, QueuesWait
    <3>2. ~Contains(waiters[p2][j], r)
      BY <1>3, <3>1 DEF p, i, q
    <3>3. Distinct(waiters[p2][j])
      BY DEF LocksAccounted, QueuesWait
    <3>4. CASE p2 = p /\ j = i
      <4>1. owner'[p2][j] = h /\ waiters'[p2][j] = u /\ waiters[p2][j] = q
        BY <1>1, <2>3, <3>4 DEF q
      <4>2. ASSUME NEW r2 \in Requests, Contains(u, r2)
            PROVE  pc'[r2] = "wait" /\ pool'[r2] = p2 /\ slot'[r2] = j /\ h \notin {r2, None}
        BY <1>2, <2>2, <3>1, <3>2, <4>1, <4>2
      <4> QED BY <2>2, <4>1, <4>2
    <3>5. CASE ~(p2 = p /\ j = i)
      <4>1. owner'[p2][j] = owner[p2][j] /\ waiters'[p2][j] = waiters[p2][j]
        BY <2>3, <3>5
      <4> QED BY <1>2, <3>1, <3>2, <3>3, <4>1
    <3> QED BY <3>4, <3>5
  <2>7. NobodyForgotten'
    <3> SUFFICES ASSUME NEW r2 \in Requests, r2 # r, pc[r2] \in {"wait", "lease"}
                 PROVE  \/ owner'[pool[r2]][slot[r2]] = r2
                        \/ pc[r2] = "wait" /\ Contains(waiters'[pool[r2]][slot[r2]], r2)
      BY <1>2 DEF NobodyForgotten, Holds
    <3>1. /\ pool[r2] \in Pools /\ slot[r2] \in Slots
          /\ \/ owner[pool[r2]][slot[r2]] = r2
             \/ pc[r2] = "wait" /\ Contains(waiters[pool[r2]][slot[r2]], r2)
      BY <1>5 DEF LocksAccounted, NobodyForgotten, Holds
    <3>2. CASE pool[r2] = p /\ slot[r2] = i
      <4>1. owner[p][i] # r2
        BY <3>2 DEF p, i
      <4> QED BY <1>1, <2>2, <2>3, <3>1, <3>2, <4>1 DEF q
    <3>3. CASE ~(pool[r2] = p /\ slot[r2] = i)
      BY <2>3, <3>1, <3>3
    <3> QED BY <3>2, <3>3
  <2> QED BY <2>3, <2>5, <2>6, <2>7 DEF LocksAccounted
<1> QED BY <1>6, <1>7

\* Leaving the queue of a lock.
LEMMA WithdrawKeepsLocks ==
  ASSUME TypeOK, RequestsOK, LocksAccounted, NEW r \in Requests,
         pc[r] = "wait", owner[pool[r]][slot[r]] # r,
         Withdraw(r, pool[r], slot[r]), Ended(r)
  PROVE  /\ owner' \in [Pools -> [Slots -> Requests \cup {None, Orphan}]]
         /\ waiters' \in [Pools -> [Slots -> Seq(Requests)]]
         /\ LocksAccounted'
<1> DEFINE p == pool[r]
           i == slot[r]
           q == waiters[p][i]
<1>1. p \in Pools /\ i \in Slots
  BY DEF RequestsOK
<1>2. \A r2 \in Requests :
        /\ pc'[r2] = IF r2 = r THEN "idle" ELSE pc[r2]
        /\ r2 # r => pool'[r2] = pool[r2] /\ slot'[r2] = slot[r2]
  BY DEF Ended, Goto, TypeOK
<1>3. q \in Seq(Requests) /\ Distinct(q)
  BY <1>1 DEF TypeOK, LocksAccounted, QueuesWait
<1> DEFINE u == Without(q, r)
<1>4. waiters' = [waiters EXCEPT ![p] = [@ EXCEPT ![i] = u]]
  BY DEF Withdraw
<1>5. /\ u \in Seq(Requests) /\ Distinct(u)
      /\ \A x : Contains(u, x) <=> Contains(q, x) /\ x # r
  BY <1>3, WithoutMembers
<1>6. owner' = owner
  BY DEF Withdraw
<1> HIDE DEF u
<1>7. /\ waiters' \in [Pools -> [Slots -> Seq(Requests)]]
      /\ \A p2 \in Pools, j \in Slots :
           waiters'[p2][j] = IF p2 = p /\ j = i THEN u ELSE waiters[p2][j]
  BY <1>1, <1>4, <1>5 DEF TypeOK
<1>8. \A r2 \in Requests : pc[r2] \in {"wait", "lease"} => pool[r2] \in Pools /\ slot[r2] \in Slots
  BY DEF RequestsOK
<1> HIDE DEF q, p, i
<1>9. OwnersBusy'
  BY <1>1, <1>2, <1>6 DEF LocksAccounted, OwnersBusy, p, i
<1>10. QueuesWait'
  <2> SUFFICES ASSUME NEW p2 \in Pools, NEW j \in Slots
               PROVE  /\ \A r2 \in Requests : Contains(waiters'[p2][j], r2) =>
                           /\ pc'[r2] = "wait" /\ pool'[r2] = p2 /\ slot'[r2] = j
                           /\ owner'[p2][j] \notin {r2, None}
                      /\ Distinct(waiters'[p2][j])
    BY DEF QueuesWait
  <2>1. \A r2 \in Requests : Contains(waiters[p2][j], r2) =>
           pc[r2] = "wait" /\ pool[r2] = p2 /\ slot[r2] = j /\ owner[p2][j] \notin {r2, None}
    BY DEF LocksAccounted, QueuesWait
  <2>2. Distinct(waiters[p2][j])
    BY DEF LocksAccounted, QueuesWait
  <2>3. CASE p2 = p /\ j = i
    BY <1>1, <1>2, <1>5, <1>6, <1>7, <2>1, <2>3 DEF q
  <2>4. CASE ~(p2 = p /\ j = i)
    BY <1>1, <1>2, <1>6, <1>7, <2>1, <2>2, <2>4 DEF p, i
  <2> QED BY <2>3, <2>4
<1>11. NobodyForgotten'
  <2> SUFFICES ASSUME NEW r2 \in Requests, r2 # r, pc[r2] \in {"wait", "lease"}
               PROVE  \/ owner[pool[r2]][slot[r2]] = r2
                      \/ pc[r2] = "wait" /\ Contains(waiters'[pool[r2]][slot[r2]], r2)
    BY <1>2, <1>6 DEF NobodyForgotten, Holds
  <2>1. /\ pool[r2] \in Pools /\ slot[r2] \in Slots
        /\ \/ owner[pool[r2]][slot[r2]] = r2
           \/ pc[r2] = "wait" /\ Contains(waiters[pool[r2]][slot[r2]], r2)
    BY <1>8 DEF LocksAccounted, NobodyForgotten, Holds
  <2> QED BY <1>5, <1>7, <2>1 DEF q
<1> QED BY <1>6, <1>7, <1>9, <1>10, <1>11 DEF LocksAccounted, TypeOK

-----------------------------------------------------------------------------
(* The invariant is inductive: one lemma per action.                       *)

LEMMA InitEstablishes == Init => IInv
<1> SUFFICES ASSUME Init PROVE IInv
  OBVIOUS
<1>1. <<>> \in Seq(Sessions) /\ <<>> \in Seq(Requests) /\ Len(<<>>) = 0
  BY EmptySeq
<1>2. \A x : ~Contains(<<>>, x)
  BY <1>1 DEF Contains
<1>3. Distinct(<<>>)
  BY <1>1 DEF Distinct
<1>4. TypeOK
  BY <1>1 DEF Init, TypeOK, Jobs
<1>5. RequestsOK
  BY DEF Init, RequestsOK
<1>6. SessionMapOK
  BY <1>1, <1>2, <1>3 DEF Init, SessionMapOK, MapOK
<1>7. LocksAccounted
  BY <1>2, <1>3 DEF Init, LocksAccounted, OwnersBusy, QueuesWait, NobodyForgotten, Holds
<1> QED BY <1>4, <1>5, <1>6, <1>7 DEF IInv

LEMMA ReconfigureKeeps ==
  ASSUME IInv, NEW n \in Overrides, Reconfigure(n) PROVE IInv'
<1> USE DEF Reconfigure, stateVars, lockVars, requestVars, IInv
<1>1. TypeOK'
  BY DEF TypeOK
<1>2. RequestsOK'
  BY DEF RequestsOK
<1>3. SessionMapOK'
  BY DEF SessionMapOK, MapOK
<1>4. LocksAccounted'
  BY DEF LocksAccounted, OwnersBusy, QueuesWait, NobodyForgotten, Holds
<1> QED BY <1>1, <1>2, <1>3, <1>4

\* Only the freshness of an object changes.
LEMMA FreshnessKeeps ==
  ASSUME IInv, NEW p \in Pools, NEW b \in BOOLEAN,
         conf' = [conf EXCEPT ![p].fresh = b]
  PROVE  /\ conf' \in [Pools -> [count : 1..MaxSlots, override : 0..MaxSlots, fresh : BOOLEAN]]
         /\ \A q \in Pools : conf'[q].count = conf[q].count
<1> DEFINE T == [count : 1..MaxSlots, override : 0..MaxSlots, fresh : BOOLEAN]
           c == [conf[p] EXCEPT !.fresh = b]
<1>1. conf \in [Pools -> T] /\ conf[p] \in T
  BY DEF IInv, TypeOK
<1>2. c \in T /\ c.count = conf[p].count
  BY <1>1
<1>3. conf' = [conf EXCEPT ![p] = c]
  OBVIOUS
<1> HIDE DEF c, T
<1>4. conf' \in [Pools -> T] /\ \A q \in Pools : conf'[q].count = conf[q].count
  BY <1>1, <1>2, <1>3
<1> QED BY <1>4 DEF T

LEMMA ProbeExpiresKeeps ==
  ASSUME IInv, NEW m \in Models, ProbeExpires(m) PROVE IInv'
<1> USE DEF ProbeExpires, stateVars, lockVars, requestVars
<1>1. current[m] \in Pools
  BY DEF IInv, TypeOK
<1>2. /\ conf' \in [Pools -> [count : 1..MaxSlots, override : 0..MaxSlots, fresh : BOOLEAN]]
      /\ \A q \in Pools : conf'[q].count = conf[q].count
  BY <1>1, FreshnessKeeps
<1>3. TypeOK'
  BY <1>2 DEF IInv, TypeOK
<1>4. RequestsOK'
  BY <1>2 DEF IInv, TypeOK, RequestsOK
<1>5. SessionMapOK'
  BY <1>2 DEF IInv, SessionMapOK, MapOK
<1>6. LocksAccounted'
  BY DEF IInv, LocksAccounted, OwnersBusy, QueuesWait, NobodyForgotten, Holds
<1> QED BY <1>3, <1>4, <1>5, <1>6 DEF IInv

LEMMA ArriveKeeps ==
  ASSUME IInv, NEW r \in Requests, NEW s \in Sessions, NEW m \in Models, Arrive(r, s, m)
  PROVE  IInv'
<1> USE DEF Arrive, Goto, stateVars, lockVars
<1>1. TypeOK'
  BY DEF IInv, TypeOK, Jobs, Waiting
<1>2. RequestsOK'
  BY DEF IInv, TypeOK, RequestsOK, Jobs
<1>3. SessionMapOK'
  BY DEF IInv, SessionMapOK, MapOK
<1>4. LocksAccounted'
  <2>1. \A r2 \in Requests : pc'[r2] = IF r2 = r THEN "lookup" ELSE pc[r2]
    BY DEF IInv, TypeOK
  <2> QED BY <2>1, OutsideKeepsLocks DEF IInv
<1> QED BY <1>1, <1>2, <1>3, <1>4 DEF IInv

LEMMA LookupKeeps ==
  ASSUME IInv, NEW r \in Requests, Lookup(r) PROVE IInv'
<1>1. job[r] \in Jobs /\ pc[r] = "lookup" /\ pool[r] = None
  BY DEF IInv, RequestsOK, Lookup
<1>2. UNCHANGED <<override, current, conf, sessions, slotOf, lastSession, owner, waiters, job, slot>>
  BY DEF Lookup, stateVars, lockVars
<1>3. PICK x \in {"assign", "probe"} :
        /\ \A r2 \in Requests : pc'[r2] = IF r2 = r THEN x ELSE pc[r2]
        /\ pc' \in [Requests -> {"idle", "lease"} \cup Waiting]
        /\ \A r2 \in Requests \ {r} : pool'[r2] = pool[r2]
        /\ pool' \in [Requests -> Pools \cup {None}]
        /\ x = "assign" => pool'[r] \in Pools /\ conf[pool'[r]].count >= 1
        /\ x = "probe" => pool'[r] = None
  <2>1. CASE Usable(r)
    <3>1. current[job[r].model] \in Pools /\ conf[current[job[r].model]].count >= 1
      BY <1>1, <2>1 DEF IInv, TypeOK, RequestsOK, Usable, Matches, Jobs
    <3> QED BY <1>1, <2>1, <3>1, ZenonT(60) DEF Lookup, Goto, IInv, TypeOK, Waiting
  <2>2. CASE ~Usable(r)
    BY <1>1, <2>2 DEF Lookup, Goto, IInv, TypeOK, Waiting
  <2> QED BY <2>1, <2>2
<1>4. TypeOK'
  BY <1>2, <1>3 DEF IInv, TypeOK
<1>5. RequestsOK'
  BY <1>1, <1>2, <1>3 DEF IInv, RequestsOK
<1>6. SessionMapOK'
  BY <1>2 DEF IInv, SessionMapOK, MapOK
<1>7. LocksAccounted'
  BY <1>1, <1>2, <1>3, OutsideKeepsLocks DEF IInv, lockVars
<1> QED BY <1>4, <1>5, <1>6, <1>7 DEF IInv

LEMMA EnterKeeps ==
  ASSUME IInv, NEW r \in Requests, Enter(r) PROVE IInv'
<1> USE DEF Enter, Goto, stateVars, lockVars
<1>1. TypeOK'
  BY DEF IInv, TypeOK
<1>2. RequestsOK'
  BY DEF IInv, TypeOK, RequestsOK
<1>3. SessionMapOK'
  BY DEF IInv, SessionMapOK, MapOK
<1>4. LocksAccounted'
  <2>1. \A r2 \in Requests : pc'[r2] = IF r2 = r THEN "lease" ELSE pc[r2]
    BY DEF IInv, TypeOK
  <2>2. OwnersBusy'
    BY <2>1 DEF IInv, LocksAccounted, OwnersBusy
  <2>3. QueuesWait'
    BY <2>1 DEF IInv, LocksAccounted, QueuesWait, RequestsOK
  <2>4. NobodyForgotten'
    BY <2>1 DEF IInv, LocksAccounted, NobodyForgotten, Holds
  <2> QED BY <2>2, <2>3, <2>4 DEF LocksAccounted
<1> QED BY <1>1, <1>2, <1>3, <1>4 DEF IInv

\* Facts about a request whose turn ended.
LEMMA EndedKeeps ==
  ASSUME IInv, NEW r \in Requests, Ended(r), UNCHANGED <<current, conf>>
  PROVE  /\ pc' \in [Requests -> {"idle", "lease"} \cup Waiting]
         /\ job' \in [Requests -> Jobs \cup {None}]
         /\ pool' \in [Requests -> Pools \cup {None}]
         /\ slot' \in [Requests -> Slots \cup {NoSlot}]
         /\ RequestsOK'
<1> USE DEF Ended, Goto
<1>1. /\ pc' \in [Requests -> {"idle", "lease"} \cup Waiting]
      /\ job' \in [Requests -> Jobs \cup {None}]
      /\ pool' \in [Requests -> Pools \cup {None}]
      /\ slot' \in [Requests -> Slots \cup {NoSlot}]
  BY DEF IInv, TypeOK
<1>2. RequestsOK'
  BY DEF IInv, TypeOK, RequestsOK
<1> QED BY <1>1, <1>2

LEMMA RecordedKeepsType ==
  ASSUME IInv, NEW r \in Requests, pc[r] = "lease", Recorded(r)
  PROVE  lastSession' \in [Pools -> [Slots -> Sessions \cup {None}]]
<1>1. job[r].session \in Sessions /\ pool[r] \in Pools /\ slot[r] \in Slots
  BY DEF IInv, RequestsOK, Jobs
<1>2. lastSession' = [lastSession EXCEPT ![pool[r]] = [@ EXCEPT ![slot[r]] = job[r].session]]
  BY DEF Recorded
<1> QED BY <1>1, <1>2 DEF IInv, TypeOK

LEMMA LeaveKeeps ==
  ASSUME IInv, NEW r \in Requests, Leave(r) PROVE IInv'
<1>1. pc[r] = "lease" /\ Recorded(r) /\ Release(pool[r], slot[r]) /\ Ended(r)
  BY DEF Leave
<1>2. UNCHANGED <<override, current, conf, sessions, slotOf>>
  BY DEF Leave, stateVars
<1>3. owner[pool[r]][slot[r]] = r
  BY <1>1 DEF IInv, LocksAccounted, NobodyForgotten, Holds
<1>4. /\ owner' \in [Pools -> [Slots -> Requests \cup {None, Orphan}]]
      /\ waiters' \in [Pools -> [Slots -> Seq(Requests)]]
      /\ LocksAccounted'
  BY <1>1, <1>3, ReleaseKeepsLocks DEF IInv
<1>5. TypeOK' /\ RequestsOK'
  BY <1>1, <1>2, <1>4, EndedKeeps, RecordedKeepsType DEF IInv, TypeOK
<1>6. SessionMapOK'
  BY <1>2 DEF IInv, SessionMapOK, MapOK
<1> QED BY <1>4, <1>5, <1>6 DEF IInv

LEMMA CancelKeeps ==
  ASSUME IInv, NEW r \in Requests, Cancel(r) PROVE IInv'
<1>1. pc[r] \in Waiting /\ Ended(r)
  BY DEF Cancel
<1>2. UNCHANGED <<override, current, conf, sessions, slotOf, lastSession>>
  BY DEF Cancel, stateVars
<1>3. /\ owner' \in [Pools -> [Slots -> Requests \cup {None, Orphan}]]
      /\ waiters' \in [Pools -> [Slots -> Seq(Requests)]]
      /\ LocksAccounted'
  <2>1. CASE pc[r] # "wait"
    <3>1. owner' = owner /\ waiters' = waiters
      BY <2>1 DEF Cancel, lockVars
    <3>2. \A r2 \in Requests :
            /\ pc'[r2] = IF r2 = r THEN "idle" ELSE pc[r2]
            /\ r2 # r => pool'[r2] = pool[r2] /\ slot'[r2] = slot[r2]
      BY <1>1 DEF Ended, Goto, IInv, TypeOK
    <3>3. LocksAccounted'
      BY <1>1, <2>1, <3>1, <3>2, OutsideKeepsLocks DEF IInv, Waiting, lockVars
    <3> QED BY <3>1, <3>3 DEF IInv, TypeOK
  <2>2. CASE pc[r] = "wait" /\ owner[pool[r]][slot[r]] = r
    <3>1. Release(pool[r], slot[r])
      BY <2>2 DEF Cancel
    <3> QED BY <1>1, <2>2, <3>1, ReleaseKeepsLocks DEF IInv
  <2>3. CASE pc[r] = "wait" /\ owner[pool[r]][slot[r]] # r
    <3>1. Withdraw(r, pool[r], slot[r])
      BY <2>3 DEF Cancel
    <3> QED BY <1>1, <2>3, <3>1, WithdrawKeepsLocks DEF IInv
  <2> QED BY <2>1, <2>2, <2>3
<1>4. TypeOK' /\ RequestsOK'
  BY <1>1, <1>2, <1>3, EndedKeeps DEF IInv, TypeOK
<1>5. SessionMapOK'
  BY <1>2 DEF IInv, SessionMapOK, MapOK
<1> QED BY <1>3, <1>4, <1>5 DEF IInv

LEMMA AbandonKeeps ==
  ASSUME IInv, NEW r \in Requests, Abandon(r) PROVE IInv'
<1>1. /\ pc[r] = "lease" /\ Recorded(r) /\ Ended(r)
      /\ owner' = [owner EXCEPT ![pool[r]] = [@ EXCEPT ![slot[r]] = Orphan]]
  BY DEF Abandon
<1>2. UNCHANGED <<override, current, conf, sessions, slotOf, waiters>>
  BY DEF Abandon, stateVars
<1>3. /\ pool[r] \in Pools /\ slot[r] \in Slots
      /\ owner[pool[r]][slot[r]] = r
  BY <1>1 DEF IInv, RequestsOK, LocksAccounted, NobodyForgotten, Holds
<1>4. /\ owner' \in [Pools -> [Slots -> Requests \cup {None, Orphan}]]
      /\ \A p \in Pools, i \in Slots :
           owner'[p][i] = IF p = pool[r] /\ i = slot[r] THEN Orphan ELSE owner[p][i]
  BY <1>1, <1>3 DEF IInv, TypeOK
<1>5. \A r2 \in Requests :
        /\ pc'[r2] = IF r2 = r THEN "idle" ELSE pc[r2]
        /\ r2 # r => pool'[r2] = pool[r2] /\ slot'[r2] = slot[r2]
  BY <1>1 DEF Ended, Goto, IInv, TypeOK
<1>6. TypeOK' /\ RequestsOK'
  BY <1>1, <1>2, <1>4, EndedKeeps, RecordedKeepsType DEF IInv, TypeOK
<1>7. SessionMapOK'
  BY <1>2 DEF IInv, SessionMapOK, MapOK
<1>8. OwnersBusy'
  BY <1>3, <1>4, <1>5 DEF IInv, LocksAccounted, OwnersBusy
<1>9. QueuesWait'
  <2> SUFFICES ASSUME NEW p \in Pools, NEW i \in Slots
               PROVE  /\ \A r2 \in Requests : Contains(waiters[p][i], r2) =>
                           /\ pc'[r2] = "wait" /\ pool'[r2] = p /\ slot'[r2] = i
                           /\ owner'[p][i] \notin {r2, None}
                      /\ Distinct(waiters[p][i])
    BY <1>2 DEF QueuesWait
  <2>1. /\ \A r2 \in Requests : Contains(waiters[p][i], r2) =>
             pc[r2] = "wait" /\ pool[r2] = p /\ slot[r2] = i /\ owner[p][i] \notin {r2, None}
        /\ Distinct(waiters[p][i])
    BY DEF IInv, LocksAccounted, QueuesWait
  <2> QED BY <1>1, <1>4, <1>5, <2>1
<1>10. NobodyForgotten'
  <2> SUFFICES ASSUME NEW r2 \in Requests, r2 # r, pc[r2] \in {"wait", "lease"}
               PROVE  \/ owner'[pool[r2]][slot[r2]] = r2
                      \/ pc[r2] = "wait" /\ Contains(waiters[pool[r2]][slot[r2]], r2)
    BY <1>2, <1>5 DEF NobodyForgotten, Holds
  <2>1. /\ pool[r2] \in Pools /\ slot[r2] \in Slots
        /\ \/ owner[pool[r2]][slot[r2]] = r2
           \/ pc[r2] = "wait" /\ Contains(waiters[pool[r2]][slot[r2]], r2)
    BY DEF IInv, RequestsOK, LocksAccounted, NobodyForgotten, Holds
  <2> QED BY <1>3, <1>4, <2>1
<1> QED BY <1>6, <1>7, <1>8, <1>9, <1>10 DEF IInv, LocksAccounted

LEMMA AssignKeeps ==
  ASSUME IInv, NEW r \in Requests, Assign(r) PROVE IInv'
<1> DEFINE p == pool[r]
           s == job[r].session
           i == slotOf'[p][s]
<1>1. pc[r] = "assign" /\ p \in Pools /\ s \in Sessions /\ conf[p].count >= 1
  BY DEF Assign, IInv, RequestsOK, Jobs
<1>2. /\ AssignKnown(p, s) \/ AssignFree(p, s) \/ AssignEvicting(p, s)
      /\ slot' = [slot EXCEPT ![r] = i] /\ Acquire(r, p, i) /\ Goto(r, "wait")
      /\ UNCHANGED <<override, current, conf, lastSession, job, pool>>
  BY DEF Assign
<1> HIDE DEF p, s
<1>3. /\ sessions' \in [Pools -> Seq(Sessions)]
      /\ slotOf' \in [Pools -> [Sessions -> Slots \cup {NoSlot}]]
      /\ SessionMapOK'
      /\ i \in Slots
  BY <1>1, <1>2, AssignKeepsMap DEF IInv
<1> HIDE DEF i
<1>4. /\ owner' \in [Pools -> [Slots -> Requests \cup {None, Orphan}]]
      /\ waiters' \in [Pools -> [Slots -> Seq(Requests)]]
      /\ LocksAccounted'
  BY <1>1, <1>2, <1>3, AcquireKeepsLocks DEF IInv, p
<1>5. TypeOK'
  BY <1>2, <1>3, <1>4 DEF IInv, TypeOK, Goto, Waiting
<1>6. RequestsOK'
  BY <1>1, <1>2, <1>3 DEF IInv, TypeOK, RequestsOK, Goto, p
<1> QED BY <1>3, <1>4, <1>5, <1>6 DEF IInv

LEMMA KeepStateKeeps ==
  ASSUME IInv, NEW r \in Requests, NEW n \in Counts(r), pc[r] = "probe",
         KeepState(r, n), Goto(r, "assign"), UNCHANGED <<override, job, slot>>
  PROVE  IInv'
<1> DEFINE p == current[job[r].model]
<1>1. job[r] \in Jobs /\ p \in Pools /\ conf[p].count >= 1
  BY DEF IInv, TypeOK, RequestsOK, Jobs, KeepState, Matches
<1>2. /\ conf' = [conf EXCEPT ![p].fresh = TRUE]
      /\ pool' = [pool EXCEPT ![r] = p]
      /\ UNCHANGED <<current, sessions, slotOf, lastSession, owner, waiters>>
  BY DEF KeepState, lockVars
<1> HIDE DEF p
<1>3. /\ conf' \in [Pools -> [count : 1..MaxSlots, override : 0..MaxSlots, fresh : BOOLEAN]]
      /\ \A q \in Pools : conf'[q].count = conf[q].count
  BY <1>1, <1>2, FreshnessKeeps
<1>4. \A r2 \in Requests :
        /\ pc'[r2] = IF r2 = r THEN "assign" ELSE pc[r2]
        /\ pool'[r2] = IF r2 = r THEN p ELSE pool[r2]
  BY <1>2 DEF Goto, IInv, TypeOK
<1>5. TypeOK'
  BY <1>1, <1>2, <1>3 DEF IInv, TypeOK, Goto, Waiting
<1>6. RequestsOK'
  BY <1>1, <1>2, <1>3, <1>4, SMTT(30) DEF IInv, TypeOK, RequestsOK
<1>7. SessionMapOK'
  BY <1>2, <1>3 DEF IInv, SessionMapOK, MapOK
<1>8. LocksAccounted'
  BY <1>2, <1>4, OutsideKeepsLocks DEF IInv, lockVars
<1> QED BY <1>5, <1>6, <1>7, <1>8 DEF IInv

\* A new state object takes an identity that no lease refers to, so that none
\* of the locks it starts with free is one that somebody holds or waits for.
LEMMA ReplaceStateKeeps ==
  ASSUME IInv, NEW r \in Requests, NEW n \in Counts(r), pc[r] = "probe",
         ReplaceState(r, n), Goto(r, "assign"), UNCHANGED <<override, job, slot>>
  PROVE  IInv'
<1> DEFINE p == CHOOSE p \in FreePools : TRUE
           c == [count |-> n, override |-> job[r].override, fresh |-> TRUE]
<1>1. p \in FreePools
  BY DEF ReplaceState
<1>2. /\ conf' = [conf EXCEPT ![p] = c]
      /\ sessions' = [sessions EXCEPT ![p] = <<>>]
      /\ slotOf' = [slotOf EXCEPT ![p] = [s \in Sessions |-> NoSlot]]
      /\ lastSession' = [lastSession EXCEPT ![p] = [i \in Slots |-> None]]
      /\ owner' = [owner EXCEPT ![p] = [i \in Slots |-> None]]
      /\ waiters' = [waiters EXCEPT ![p] = [i \in Slots |-> <<>>]]
      /\ current' = [current EXCEPT ![job[r].model] = p]
      /\ pool' = [pool EXCEPT ![r] = p]
  BY DEF ReplaceState
<1>3. job[r] \in Jobs /\ job[r].model \in Models /\ job[r].override \in 0..MaxSlots
  BY DEF IInv, RequestsOK, Jobs
<1>4. n \in 1..MaxSlots
  BY <1>3 DEF Counts
<1> HIDE DEF p
<1>5. p \in Pools /\ \A r2 \in Requests : pool[r2] # p
  BY <1>1 DEF FreePools
<1>6. /\ c \in [count : 1..MaxSlots, override : 0..MaxSlots, fresh : BOOLEAN]
      /\ c.count = n
  BY <1>3, <1>4
<1> HIDE DEF c
<1>7. <<>> \in Seq(Sessions) /\ <<>> \in Seq(Requests) /\ Len(<<>>) = 0
  BY EmptySeq
<1>8. (\A x : ~Contains(<<>>, x)) /\ Distinct(<<>>)
  BY <1>7 DEF Contains, Distinct
<1>9. \A r2 \in Requests :
        /\ pc'[r2] = IF r2 = r THEN "assign" ELSE pc[r2]
        /\ pool'[r2] = IF r2 = r THEN p ELSE pool[r2]
        /\ slot'[r2] = slot[r2]
  BY <1>2 DEF Goto, IInv, TypeOK
<1>10. \A q \in Pools : conf'[q].count = IF q = p THEN n ELSE conf[q].count
  BY <1>2, <1>6 DEF IInv, TypeOK
<1>11. TypeOK'
  <2>1. /\ conf' \in [Pools -> [count : 1..MaxSlots, override : 0..MaxSlots, fresh : BOOLEAN]]
        /\ current' \in [Models -> Pools \cup {None}]
        /\ pool' \in [Requests -> Pools \cup {None}]
        /\ pc' \in [Requests -> {"idle", "lease"} \cup Waiting]
    BY <1>2, <1>3, <1>5, <1>6 DEF IInv, TypeOK, Goto, Waiting
  <2>2. /\ sessions' \in [Pools -> Seq(Sessions)]
        /\ slotOf' \in [Pools -> [Sessions -> Slots \cup {NoSlot}]]
        /\ lastSession' \in [Pools -> [Slots -> Sessions \cup {None}]]
    BY <1>2, <1>5, <1>7 DEF IInv, TypeOK
  <2>3. /\ owner' \in [Pools -> [Slots -> Requests \cup {None, Orphan}]]
        /\ waiters' \in [Pools -> [Slots -> Seq(Requests)]]
    BY <1>2, <1>5, <1>7 DEF IInv, TypeOK
  <2> QED BY <2>1, <2>2, <2>3 DEF IInv, TypeOK
<1>12. RequestsOK'
  BY <1>2, <1>4, <1>5, <1>9, <1>10 DEF IInv, TypeOK, RequestsOK
<1>13. SessionMapOK'
  <2> SUFFICES ASSUME NEW q \in Pools PROVE MapOK(q)'
    BY DEF SessionMapOK, MapOK
  <2>1. CASE q = p
    <3>1. /\ sessions'[q] = <<>> /\ conf'[q].count = n
          /\ \A s \in Sessions : slotOf'[q][s] = NoSlot
      BY <1>2, <1>5, <1>10, <2>1 DEF IInv, TypeOK
    <3> QED BY <1>4, <1>7, <1>8, <3>1 DEF MapOK
  <2>2. CASE q # p
    <3>1. sessions'[q] = sessions[q] /\ conf'[q].count = conf[q].count /\ slotOf'[q] = slotOf[q]
      BY <1>2, <1>10, <2>2 DEF IInv, TypeOK
    <3>2. MapOK(q)
      BY DEF IInv, SessionMapOK
    <3> QED BY <3>1, <3>2 DEF MapOK
  <2> QED BY <2>1, <2>2
<1>14. LocksAccounted'
  <2>1. \A q \in Pools, i \in Slots :
          /\ owner'[q][i] = IF q = p THEN None ELSE owner[q][i]
          /\ waiters'[q][i] = IF q = p THEN <<>> ELSE waiters[q][i]
    BY <1>2 DEF IInv, TypeOK
  <2>2. OwnersBusy'
    BY <1>9, <2>1 DEF IInv, LocksAccounted, OwnersBusy
  <2>3. QueuesWait'
    <3> SUFFICES ASSUME NEW q \in Pools, NEW i \in Slots
                 PROVE  /\ \A r2 \in Requests : Contains(waiters'[q][i], r2) =>
                             /\ pc'[r2] = "wait" /\ pool'[r2] = q /\ slot'[r2] = i
                             /\ owner'[q][i] \notin {r2, None}
                        /\ Distinct(waiters'[q][i])
      BY DEF QueuesWait
    <3>1. CASE q = p
      BY <1>8, <2>1, <3>1
    <3>2. CASE q # p
      BY <1>9, <2>1, <3>2 DEF IInv, LocksAccounted, QueuesWait
    <3> QED BY <3>1, <3>2
  <2>4. NobodyForgotten'
    <3> SUFFICES ASSUME NEW r2 \in Requests, r2 # r, pc[r2] \in {"wait", "lease"}
                 PROVE  \/ owner'[pool[r2]][slot[r2]] = r2
                        \/ pc[r2] = "wait" /\ Contains(waiters'[pool[r2]][slot[r2]], r2)
      BY <1>9 DEF NobodyForgotten, Holds
    <3>1. /\ pool[r2] \in Pools /\ slot[r2] \in Slots /\ pool[r2] # p
          /\ \/ owner[pool[r2]][slot[r2]] = r2
             \/ pc[r2] = "wait" /\ Contains(waiters[pool[r2]][slot[r2]], r2)
      BY <1>5 DEF IInv, RequestsOK, LocksAccounted, NobodyForgotten, Holds
    <3> QED BY <2>1, <3>1
  <2> QED BY <2>2, <2>3, <2>4 DEF LocksAccounted
<1> QED BY <1>11, <1>12, <1>13, <1>14 DEF IInv

LEMMA StutterKeeps == ASSUME IInv, UNCHANGED allocatorVars PROVE IInv'
<1> USE DEF allocatorVars, stateVars, lockVars, requestVars, IInv
<1>1. TypeOK' /\ RequestsOK'
  BY DEF TypeOK, RequestsOK
<1>2. SessionMapOK'
  BY DEF SessionMapOK, MapOK
<1>3. LocksAccounted'
  BY DEF LocksAccounted, OwnersBusy, QueuesWait, NobodyForgotten, Holds
<1> QED BY <1>1, <1>2, <1>3

\* Every step of the allocator keeps the invariant.
LEMMA NextKeeps == IInv /\ [Next]_allocatorVars => IInv'
<1> SUFFICES ASSUME IInv, [Next]_allocatorVars PROVE IInv'
  OBVIOUS
<1>1. ASSUME NEW n \in Overrides, Reconfigure(n) PROVE IInv'
  BY <1>1, ReconfigureKeeps
<1>2. ASSUME NEW m \in Models, ProbeExpires(m) PROVE IInv'
  BY <1>2, ProbeExpiresKeeps
<1>3. ASSUME NEW r \in Requests, NEW s \in Sessions, NEW m \in Models, Arrive(r, s, m)
      PROVE  IInv'
  BY <1>3, ArriveKeeps
<1>4. ASSUME NEW r \in Requests, Proceed(r) PROVE IInv'
  <2>1. CASE Lookup(r)
    BY <2>1, LookupKeeps
  <2>2. CASE Settle(r)
    BY <2>2, KeepStateKeeps, ReplaceStateKeeps DEF Settle
  <2>3. CASE Assign(r)
    BY <2>3, AssignKeeps
  <2>4. CASE Enter(r)
    BY <2>4, EnterKeeps
  <2>5. CASE Leave(r)
    BY <2>5, LeaveKeeps
  <2> QED BY <1>4, <2>1, <2>2, <2>3, <2>4, <2>5 DEF Proceed
<1>5. ASSUME NEW r \in Requests, Cancel(r) PROVE IInv'
  BY <1>5, CancelKeeps
<1>6. ASSUME NEW r \in Requests, Abandon(r) PROVE IInv'
  BY <1>6, AbandonKeeps
<1>7. CASE UNCHANGED allocatorVars
  BY <1>7, StutterKeeps
<1> QED BY <1>1, <1>2, <1>3, <1>4, <1>5, <1>6, <1>7 DEF Next

\* The variables keep their types, requests and state objects agree, the session
\* maps are intact and the locks accounted for, in every state of the allocator.
THEOREM Invariance == Spec => []IInv
<1>1. Init => IInv
  BY InitEstablishes
<1>2. IInv /\ [Next]_allocatorVars => IInv'
  BY NextKeeps
<1> QED BY <1>1, <1>2, PTL DEF Spec

\* Every variable of lease() and _assign keeps its type.
THEOREM TypeCorrectness == Spec => []TypeOK
<1>1. IInv => TypeOK
  BY DEF IInv
<1> QED BY <1>1, Invariance, PTL

\* _assign never gives two conversations of a state object the same slot, nor a
\* slot the object does not have, whatever is reconfigured or evicted meanwhile.
THEOREM SessionMaps == Spec => []SessionMapOK
<1>1. IInv => SessionMapOK
  BY DEF IInv
<1> QED BY <1>1, Invariance, PTL

\* lease() loses no lock and no waiter: hand-overs, cancellations while queued and
\* the replacement of state objects leave each lock with its rightful owner.
THEOREM Locks == Spec => []LocksAccounted
<1>1. IInv => LocksAccounted
  BY DEF IInv
<1> QED BY <1>1, Invariance, PTL

-----------------------------------------------------------------------------
(* Exclusive use of the server's slots.  It fails when a slot state can be *)
(* replaced while leases of the old one last; it holds when it cannot be:  *)
(* the setting stays as it is, an override spares the probe or the probe   *)
(* always answers alike, and no instance serves two models.                *)

Stable ==
  /\ \A m1, m2 \in Models : InstanceOf[m1] = InstanceOf[m2] => m1 = m2
  /\ \A o1, o2 \in Overrides : o1 = o2
  /\ 0 \in Overrides => \A k1, k2 \in Probes : k1 = k2

\* Every state object in use is the one registered for its model, and for no other,
\* and has the one slot count the settings allow.
CountsFor(o) == IF o > 0 THEN {o} ELSE {IF k > 0 THEN k ELSE 1 : k \in Probes}

Registered ==
  /\ \A m \in Models : current[m] # None =>
       /\ conf[current[m]].override \in Overrides
       /\ conf[current[m]].count \in CountsFor(conf[current[m]].override)
  /\ \A m1, m2 \in Models : current[m1] # None /\ current[m1] = current[m2] => m1 = m2
  /\ \A r \in Requests : pc[r] \in {"assign", "wait", "lease"} =>
       pool[r] = current[job[r].model]

LEMMA OneCount ==
  ASSUME Stable, NEW o1 \in Overrides, NEW o2 \in Overrides,
         NEW n1 \in CountsFor(o1), NEW n2 \in CountsFor(o2)
  PROVE  o1 = o2 /\ n1 = n2
  BY DEF Stable, CountsFor

\* Steps that neither register a state object nor give a request one.
LEMMA SameObjectsKeep ==
  ASSUME Registered, UNCHANGED <<current, conf>>,
         \A r \in Requests : pc'[r] \in {"assign", "wait", "lease"} =>
           /\ pc[r] \in {"assign", "wait", "lease"}
           /\ pool'[r] = pool[r] /\ job'[r] = job[r]
  PROVE  Registered'
  BY DEF Registered

\* A state object is only made for a model that has none.
LEMMA OnlyTheFirst ==
  ASSUME Stable, Registered, NEW r \in Requests, job[r].model \in Models,
         job[r].override \in Overrides, NEW n \in CountsFor(job[r].override),
         ~(Matches(r) /\ conf[current[job[r].model]].count = n)
  PROVE  current[job[r].model] = None
<1> SUFFICES ASSUME current[job[r].model] # None PROVE FALSE
  OBVIOUS
<1>1. /\ conf[current[job[r].model]].override \in Overrides
      /\ conf[current[job[r].model]].count \in CountsFor(conf[current[job[r].model]].override)
  BY DEF Registered
<1>2. conf[current[job[r].model]].override = job[r].override /\ conf[current[job[r].model]].count = n
  BY <1>1, OneCount
<1> QED BY <1>2 DEF Matches

LEMMA RegisteredInductive ==
  Stable /\ IInv /\ Registered /\ [Next]_allocatorVars => Registered'
<1> SUFFICES ASSUME Stable, IInv, Registered, [Next]_allocatorVars PROVE Registered'
  OBVIOUS
<1>1. ASSUME NEW n \in Overrides, Reconfigure(n) PROVE Registered'
  BY <1>1, SameObjectsKeep DEF Reconfigure, stateVars, requestVars
<1>2. ASSUME NEW m \in Models, ProbeExpires(m) PROVE Registered'
  <2>1. current[m] \in Pools /\ conf' = [conf EXCEPT ![current[m]].fresh = FALSE]
    BY <1>2 DEF ProbeExpires, IInv, TypeOK
  <2>2. \A p \in Pools : conf'[p].count = conf[p].count /\ conf'[p].override = conf[p].override
    BY <2>1 DEF IInv, TypeOK
  <2> QED BY <1>2, <2>2 DEF ProbeExpires, requestVars, Registered, IInv, TypeOK
<1>3. ASSUME NEW r \in Requests, NEW s \in Sessions, NEW m \in Models, Arrive(r, s, m)
      PROVE  Registered'
  BY <1>3, SameObjectsKeep DEF Arrive, Goto, stateVars, IInv, TypeOK
<1>4. ASSUME NEW r \in Requests, Lookup(r) PROVE Registered'
  BY <1>4 DEF Lookup, Goto, stateVars, Registered, IInv, TypeOK
<1>5. ASSUME NEW r \in Requests, Settle(r) PROVE Registered'
  <2>1. PICK n \in Counts(r) : KeepState(r, n) \/ ReplaceState(r, n)
    BY <1>5 DEF Settle
  <2>2. /\ job[r] \in Jobs /\ job' = job
        /\ \A r2 \in Requests : pc'[r2] = IF r2 = r THEN "assign" ELSE pc[r2]
    BY <1>5 DEF Settle, Goto, IInv, TypeOK, RequestsOK
  <2>3. n \in CountsFor(job[r].override) /\ job[r].override \in Overrides /\ job[r].model \in Models
    BY <2>2 DEF Counts, CountsFor, Jobs
  <2>4. CASE KeepState(r, n)
    <3>1. /\ current[job[r].model] \in Pools /\ current' = current
          /\ conf' = [conf EXCEPT ![current[job[r].model]].fresh = TRUE]
          /\ pool' = [pool EXCEPT ![r] = current[job[r].model]]
      BY <2>3, <2>4 DEF KeepState, Matches, IInv, TypeOK
    <3>2. \A p \in Pools : conf'[p].count = conf[p].count /\ conf'[p].override = conf[p].override
      BY <3>1 DEF IInv, TypeOK
    <3> QED BY <2>2, <3>1, <3>2 DEF Registered, IInv, TypeOK
  <2>5. CASE ReplaceState(r, n)
    <3> DEFINE p == CHOOSE p \in FreePools : TRUE
               c == [count |-> n, override |-> job[r].override, fresh |-> TRUE]
               m == job[r].model
    <3>1. /\ p \in FreePools
          /\ conf' = [conf EXCEPT ![p] = c]
          /\ current' = [current EXCEPT ![m] = p]
          /\ pool' = [pool EXCEPT ![r] = p]
          /\ ~(Matches(r) /\ conf[current[m]].count = n)
      BY <2>5 DEF ReplaceState
    <3>2. current[m] = None
      BY <2>3, <3>1, OnlyTheFirst
    <3> HIDE DEF p
    <3>3. /\ p \in Pools /\ \A m2 \in Models : current[m2] # p
          /\ c.count = n /\ c.override = job[r].override
      BY <3>1 DEF FreePools
    <3> HIDE DEF c
    <3>4. /\ \A m2 \in Models : current'[m2] = IF m2 = m THEN p ELSE current[m2]
          /\ \A q \in Pools : conf'[q] = IF q = p THEN c ELSE conf[q]
          /\ \A r2 \in Requests : pool'[r2] = IF r2 = r THEN p ELSE pool[r2]
      BY <3>1 DEF IInv, TypeOK
    <3>5. \A r2 \in Requests : pc[r2] \in {"assign", "wait", "lease"} =>
            /\ pool[r2] \in Pools /\ pool[r2] = current[job[r2].model]
            /\ job[r2].model \in Models /\ job[r2].model # m
      BY <3>2 DEF Registered, IInv, RequestsOK, Jobs
    <3>6. \A m2 \in Models : current'[m2] # None =>
            /\ conf'[current'[m2]].override \in Overrides
            /\ conf'[current'[m2]].count \in CountsFor(conf'[current'[m2]].override)
      <4>1. \A m2 \in Models : current[m2] # None =>
              /\ current[m2] \in Pools /\ current[m2] # p
              /\ conf[current[m2]].override \in Overrides
              /\ conf[current[m2]].count \in CountsFor(conf[current[m2]].override)
        BY <3>3 DEF Registered, IInv, TypeOK
      <4> QED BY <2>3, <3>3, <3>4, <4>1
    <3>7. \A m1, m2 \in Models : current'[m1] # None /\ current'[m1] = current'[m2] => m1 = m2
      <4>1. \A m2 \in Models : current'[m2] = p <=> m2 = m
        BY <3>3, <3>4
      <4> QED BY <3>4, <4>1 DEF Registered
    <3>8. \A r2 \in Requests : pc'[r2] \in {"assign", "wait", "lease"} =>
            pool'[r2] = current'[job[r2].model]
      BY <2>2, <2>3, <3>4, <3>5
    <3> QED BY <2>2, <3>6, <3>7, <3>8 DEF Registered, CountsFor
  <2> QED BY <2>1, <2>4, <2>5
<1>6. ASSUME NEW r \in Requests, Assign(r) PROVE Registered'
  BY <1>6, SameObjectsKeep DEF Assign, Goto, IInv, TypeOK
<1>7. ASSUME NEW r \in Requests, Enter(r) PROVE Registered'
  BY <1>7, SameObjectsKeep DEF Enter, Goto, stateVars, IInv, TypeOK
<1>8. ASSUME NEW r \in Requests, Ended(r), UNCHANGED stateVars PROVE Registered'
  BY <1>8, SameObjectsKeep DEF Ended, Goto, stateVars, IInv, TypeOK
<1>9. ASSUME NEW r \in Requests, Leave(r) \/ Cancel(r) \/ Abandon(r) PROVE Registered'
  BY <1>8, <1>9 DEF Leave, Cancel, Abandon, stateVars
<1>10. CASE UNCHANGED allocatorVars
  BY <1>10, SameObjectsKeep DEF allocatorVars, stateVars, requestVars
<1> QED BY <1>1, <1>2, <1>3, <1>4, <1>5, <1>6, <1>7, <1>9, <1>10 DEF Next, Proceed

\* Two leases of one place are leases of one lock.
LEMMA LeasesApart == ASSUME Stable, IInv, Registered PROVE SlotExclusive
<1> SUFFICES ASSUME NEW r1 \in Requests, NEW r2 \in Requests,
                    Holds(r1), Holds(r2), Place(r1) = Place(r2)
             PROVE  r1 = r2
  BY DEF SlotExclusive
<1>1. job[r1].model \in Models /\ job[r2].model \in Models
  BY DEF IInv, RequestsOK, Holds, Jobs
<1>2. slot[r1] = slot[r2] /\ job[r1].model = job[r2].model
  BY <1>1 DEF Place, Stable
<1>3. pool[r1] = pool[r2]
  BY <1>2 DEF Registered, Holds
<1> QED BY <1>2, <1>3 DEF IInv, LocksAccounted, NobodyForgotten

\* With a stable slot state, no two leases are ever inside restore -> inference ->
\* save on one server slot, for any number of requests, conversations and slots.
THEOREM Exclusion == ASSUME Stable PROVE Spec => []SlotExclusive
<1>1. Init => IInv /\ Registered
  BY InitEstablishes DEF Init, Registered
<1>2. IInv /\ Registered /\ [Next]_allocatorVars => IInv' /\ Registered'
  BY NextKeeps, RegisteredInductive
<1>3. IInv /\ Registered => SlotExclusive
  BY LeasesApart
<1> QED BY <1>1, <1>2, <1>3, PTL DEF Spec


-----------------------------------------------------------------------------
(* The inductive invariant of the allocator with its callers.              *)

ContentsOK ==
  /\ kv \in [Instances -> [Slots -> Sessions \cup {None}]]
  /\ disk \in [Sessions -> [Models -> Sessions \cup {None}]]
  /\ stale \subseteq Instances \X Slots

\* A request has a path while it is under way, and a stage while it has its lease.
ProgressOK ==
  /\ path \in [Requests -> Paths \cup {None}]
  /\ stage \in [Requests -> Stages \cup {None}]
  /\ \A r \in Requests : (path[r] # None <=> pc[r] # "idle") /\ (stage[r] # None <=> Holds(r))

\* From the moment the server works on its prompt a slot holds the conversation of
\* its request, until what it holds is saved (the events path saves after failures
\* as well, when the server may never have seen the prompt).
Settled(r) == stage[r] = "generate" \/ (stage[r] = "save" /\ path[r] # "events")
SettledOwn == \A r \in Requests : Settled(r) => Contents(r) = job[r].session

SlotsInv == IInv /\ Registered
CacheInv == SlotsInv /\ ContentsOK /\ ProgressOK /\ SettledOwn

-----------------------------------------------------------------------------
\* Every step of the slot cache is a step of the allocator, or none of its steps.
LEMMA AllocatorStep == [CacheNext]_vars => [Next]_allocatorVars
<1> SUFFICES ASSUME [CacheNext]_vars PROVE [Next]_allocatorVars
  OBVIOUS
<1>1. CASE Allocate
  BY <1>1 DEF Allocate, Next, Proceed
<1>2. ASSUME NEW r \in Requests, NEW s \in Sessions, NEW m \in Models, NEW k \in Paths,
             Ask(r, s, m, k)
      PROVE  [Next]_allocatorVars
  BY <1>2 DEF Ask, Next
<1>3. ASSUME NEW r \in Requests, Begin(r) PROVE [Next]_allocatorVars
  BY <1>3 DEF Begin, Next, Proceed
<1>4. ASSUME NEW r \in Requests,
             Restore(r) \/ Generate(r) \/ Succeed(r) \/ Fail(r) \/ Report(r) \/ Save(r)
      PROVE  [Next]_allocatorVars
  BY <1>4 DEF Restore, Generate, Succeed, Fail, Report, Save
<1>5. ASSUME NEW r \in Requests, End(r) \/ Disconnect(r) \/ Desert(r)
      PROVE  [Next]_allocatorVars
  BY <1>5 DEF End, Disconnect, Desert, Next, Proceed
<1>6. CASE UNCHANGED vars
  BY <1>6 DEF vars
<1> QED BY <1>1, <1>2, <1>3, <1>4, <1>5, <1>6 DEF CacheNext

\* Where a request that has its lease works, and on what.
LEMMA AtWork ==
  ASSUME SlotsInv, NEW r \in Requests, Holds(r)
  PROVE  /\ job[r].session \in Sessions /\ job[r].model \in Models
         /\ InstanceOf[job[r].model] \in Instances /\ slot[r] \in Slots
  BY SizesAssumption DEF SlotsInv, IInv, RequestsOK, Holds, Jobs

\* Two requests that have their leases work in different slots.
LEMMA WorkApart ==
  ASSUME Stable, SlotsInv, NEW r1 \in Requests, NEW r2 \in Requests,
         Holds(r1), Holds(r2), r1 # r2
  PROVE  InstanceOf[job[r1].model] # InstanceOf[job[r2].model] \/ slot[r1] # slot[r2]
  BY LeasesApart DEF SlotsInv, SlotExclusive, Place

\* Steps that keep the slots' contents and let no further request be settled.
LEMMA NobodySettles ==
  ASSUME SettledOwn, UNCHANGED kv,
         \A r \in Requests : Settled(r)' => Settled(r) /\ job'[r] = job[r] /\ slot'[r] = slot[r]
  PROVE  SettledOwn'
  BY DEF SettledOwn, Contents

-----------------------------------------------------------------------------
(* One lemma per kind of step.                                             *)

LEMMA AllocateKeeps ==
  ASSUME CacheInv, Allocate PROVE ContentsOK' /\ ProgressOK' /\ SettledOwn'
<1>1. UNCHANGED <<path, stage, kv, disk, stale>>
  BY DEF Allocate, cacheVars
<1> DEFINE Calm(r) == /\ pc'[r] = "idle" <=> pc[r] = "idle"
                      /\ pc'[r] = "lease" <=> pc[r] = "lease"
                      /\ Holds(r) => job'[r] = job[r] /\ slot'[r] = slot[r]
<1>2. \A r \in Requests : Calm(r)
  <2>1. CASE UNCHANGED requestVars
    BY <2>1 DEF requestVars
  <2>2. ASSUME NEW r \in Requests, Lookup(r) \/ Settle(r) \/ Assign(r)
        PROVE  \A q \in Requests : Calm(q)
    BY <2>2 DEF Lookup, Settle, Assign, Goto, Holds, CacheInv, SlotsInv, IInv, TypeOK
  <2> QED BY <2>1, <2>2 DEF Allocate, Reconfigure, ProbeExpires
<1>3. \A r \in Requests : Holds(r) => job'[r] = job[r] /\ slot'[r] = slot[r]
  BY <1>2
<1>4. \A r \in Requests : Settled(r) => Holds(r)
  BY AbsentAssumption DEF CacheInv, ProgressOK, Settled, Stages
<1>5. SettledOwn'
  BY <1>1, <1>3, <1>4 DEF CacheInv, SettledOwn, Settled, Contents
<1> QED BY <1>1, <1>2, <1>5 DEF CacheInv, ContentsOK, ProgressOK, Holds

\* Arriving, and being let in.
LEMMA AskKeeps ==
  ASSUME CacheInv, NEW r \in Requests, NEW s \in Sessions, NEW m \in Models,
         NEW k \in Paths, Ask(r, s, m, k)
  PROVE  ContentsOK' /\ ProgressOK' /\ SettledOwn'
<1>1. /\ pc[r] = "idle" /\ stage[r] = None /\ UNCHANGED <<stage, kv, disk, stale, slot>>
      /\ \A q \in Requests : pc'[q] = IF q = r THEN "lookup" ELSE pc[q]
      /\ \A q \in Requests : q # r => job'[q] = job[q]
      /\ path' = [path EXCEPT ![r] = k]
  BY DEF Ask, Arrive, Goto, CacheInv, ProgressOK, Holds, SlotsInv, IInv, TypeOK
<1>2. k # None
  BY PathsAssumption, AbsentAssumption
<1>3. ProgressOK'
  BY <1>1, <1>2 DEF CacheInv, ProgressOK, Holds
<1>4. SettledOwn'
  BY <1>1, NobodySettles, AbsentAssumption DEF CacheInv, ProgressOK, Settled, Stages
<1> QED BY <1>1, <1>3, <1>4 DEF CacheInv, ContentsOK

LEMMA BeginKeeps ==
  ASSUME CacheInv, NEW r \in Requests, Begin(r)
  PROVE  ContentsOK' /\ ProgressOK' /\ SettledOwn'
<1>1. PICK label \in {"forward", "restore"} : stage' = [stage EXCEPT ![r] = label]
  BY DEF Begin, At
<1>2. /\ pc[r] = "wait" /\ UNCHANGED <<path, kv, disk, job, slot>>
      /\ \A q \in Requests : pc'[q] = IF q = r THEN "lease" ELSE pc[q]
  BY DEF Begin, Enter, Goto, SlotsInv, CacheInv, IInv, TypeOK
<1>3. label \in Stages /\ label # None /\ label \notin {"generate", "save"}
  BY AbsentAssumption DEF Stages
<1>4. ProgressOK'
  BY <1>1, <1>2, <1>3 DEF CacheInv, ProgressOK, Holds
<1>5. SettledOwn'
  BY <1>1, <1>2, <1>3, NobodySettles DEF CacheInv, ProgressOK, Settled
<1>6. stale' \subseteq Instances \X Slots
  <2>1. Place(r) \in Instances \X Slots
    BY <1>2, SizesAssumption DEF CacheInv, SlotsInv, IInv, RequestsOK, Jobs, Place
  <2> QED BY <2>1 DEF Begin, CacheInv, ContentsOK
<1> QED BY <1>2, <1>4, <1>5, <1>6 DEF CacheInv, ContentsOK

\* Whatever r does to its own slot inside its lease spares everybody else's.
LEMMA OwnSlotOnly ==
  ASSUME Stable, CacheInv, NEW r \in Requests, Holds(r), NEW c,
         kv' = [kv EXCEPT ![InstanceOf[job[r].model]][slot[r]] = c],
         UNCHANGED <<job, slot>>
  PROVE  /\ Contents(r)' = c
         /\ \A q \in Requests : Holds(q) /\ q # r => Contents(q)' = Contents(q)
<1>1. /\ InstanceOf[job[r].model] \in Instances /\ slot[r] \in Slots
      /\ \A q \in Requests : Holds(q) =>
           InstanceOf[job[q].model] \in Instances /\ slot[q] \in Slots
  BY AtWork DEF CacheInv
<1>2. \A n \in Instances, i \in Slots :
        kv'[n][i] = IF n = InstanceOf[job[r].model] /\ i = slot[r] THEN c ELSE kv[n][i]
  BY <1>1 DEF CacheInv, ContentsOK
<1>3. \A q \in Requests : Holds(q) /\ q # r =>
        InstanceOf[job[q].model] # InstanceOf[job[r].model] \/ slot[q] # slot[r]
  BY WorkApart DEF CacheInv
<1> QED BY <1>1, <1>2, <1>3 DEF Contents

\* Steps within the lease that leave the contents of the slots alone.
LEMMA StageKeeps ==
  ASSUME CacheInv, NEW r \in Requests, Holds(r), NEW label \in Stages,
         stage' = [stage EXCEPT ![r] = label],
         UNCHANGED <<allocatorVars, path, kv>>, ContentsOK',
         label = "generate" \/ (label = "save" /\ path[r] # "events") => Settled(r)
  PROVE  ContentsOK' /\ ProgressOK' /\ SettledOwn'
<1>1. UNCHANGED <<pc, job, slot>>
  BY DEF allocatorVars, requestVars
<1>2. ProgressOK'
  BY <1>1, AbsentAssumption DEF CacheInv, ProgressOK, Holds
<1>3. SettledOwn'
  BY <1>1, NobodySettles DEF CacheInv, ProgressOK, Settled
<1> QED BY <1>2, <1>3

LEMMA RestoreKeeps ==
  ASSUME Stable, CacheInv, NEW r \in Requests, Restore(r)
  PROVE  ContentsOK' /\ ProgressOK' /\ SettledOwn'
<1>1. /\ stage[r] = "restore" /\ stage' = [stage EXCEPT ![r] = "forward"]
      /\ UNCHANGED <<allocatorVars, path, disk, pc, job, slot>>
  BY DEF Restore, At, allocatorVars, requestVars
<1>2. Holds(r) /\ "forward" \in Stages
  BY <1>1, AbsentAssumption DEF CacheInv, ProgressOK, Stages
<1>3. CASE UNCHANGED <<kv, stale>>
  BY <1>1, <1>2, <1>3, StageKeeps DEF CacheInv, ContentsOK
<1>4. CASE /\ kv' = [kv EXCEPT ![InstanceOf[job[r].model]][slot[r]] = Snapshot(r)]
           /\ stale' \subseteq stale
  <2>1. Snapshot(r) \in Sessions \cup {None}
    BY <1>2, AtWork DEF CacheInv, ContentsOK, Snapshot
  <2>2. ContentsOK'
    BY <1>1, <1>2, <1>4, <2>1, AtWork DEF CacheInv, ContentsOK
  <2>3. ProgressOK'
    BY <1>1, <1>2, AbsentAssumption DEF CacheInv, ProgressOK, Holds, Stages
  <2>4. SettledOwn'
    <3>1. \A q \in Requests : Settled(q)' => Settled(q) /\ q # r /\ Holds(q)
      BY <1>1, AbsentAssumption DEF CacheInv, ProgressOK, Settled, Stages
    <3>2. \A q \in Requests : Holds(q) /\ q # r => Contents(q)' = Contents(q)
      BY <1>1, <1>2, <1>4, OwnSlotOnly
    <3> QED BY <1>1, <3>1, <3>2 DEF CacheInv, SettledOwn
  <2> QED BY <2>2, <2>3, <2>4
<1> QED BY <1>3, <1>4 DEF Restore

LEMMA GenerateKeeps ==
  ASSUME Stable, CacheInv, NEW r \in Requests, Generate(r)
  PROVE  ContentsOK' /\ ProgressOK' /\ SettledOwn'
<1>1. /\ stage[r] = "forward" /\ stage' = [stage EXCEPT ![r] = "generate"]
      /\ UNCHANGED <<path, disk, pc, job, slot>>
      /\ kv' = [kv EXCEPT ![InstanceOf[job[r].model]][slot[r]] = job[r].session]
      /\ stale' \subseteq stale
  BY DEF Generate, At, allocatorVars, requestVars
<1>2. Holds(r) /\ "generate" \in Stages
  BY <1>1, AbsentAssumption DEF CacheInv, ProgressOK, Stages
<1>3. ContentsOK'
  BY <1>1, <1>2, AtWork DEF CacheInv, ContentsOK
<1>4. ProgressOK'
  BY <1>1, <1>2, AbsentAssumption DEF CacheInv, ProgressOK, Holds
<1>5. SettledOwn'
  <2>1. \A q \in Requests : Settled(q)' => q = r \/ (Settled(q) /\ Holds(q))
    BY <1>1, AbsentAssumption DEF CacheInv, ProgressOK, Settled, Stages
  <2>2. /\ Contents(r)' = job[r].session
        /\ \A q \in Requests : Holds(q) /\ q # r => Contents(q)' = Contents(q)
    BY <1>1, <1>2, OwnSlotOnly
  <2> QED BY <1>1, <2>1, <2>2 DEF CacheInv, SettledOwn
<1> QED BY <1>3, <1>4, <1>5

\* The call ends, well or not, and the error event of a stream goes out.
LEMMA ProgressKeeps ==
  ASSUME CacheInv, NEW r \in Requests, Succeed(r) \/ Fail(r) \/ Report(r)
  PROVE  ContentsOK' /\ ProgressOK' /\ SettledOwn'
<1>1. /\ stage[r] \in {"forward", "generate", "report"}
      /\ UNCHANGED <<allocatorVars, path, kv, disk, stale>>
  BY DEF Succeed, Fail, Report
<1>2. Holds(r) /\ {"save", "leave", "report"} \subseteq Stages
  BY <1>1, AbsentAssumption DEF CacheInv, ProgressOK, Stages
<1>3. PICK label \in Stages :
        /\ stage' = [stage EXCEPT ![r] = label]
        /\ label = "generate" \/ (label = "save" /\ path[r] # "events") => Settled(r)
  BY <1>2 DEF Succeed, Fail, Report, At, Settled
<1>4. ContentsOK'
  BY <1>1 DEF CacheInv, ContentsOK
<1> QED BY <1>1, <1>2, <1>3, <1>4, StageKeeps

\* Saving puts what the slot holds into the file of its request.
LEMMA SavedContents ==
  ASSUME CacheInv, NEW r \in Requests, Holds(r), disk' \in {disk, SaveInto(r)},
         UNCHANGED <<kv, stale>>
  PROVE  ContentsOK'
<1>1. Contents(r) \in Sessions \cup {None}
  BY AtWork DEF CacheInv, ContentsOK, Contents
<1>2. job[r].session \in Sessions /\ job[r].model \in Models
  BY AtWork DEF CacheInv
<1>3. disk \in [Sessions -> [Models -> Sessions \cup {None}]] /\ ContentsOK
  BY DEF CacheInv, ContentsOK
<1>4. SaveInto(r) \in [Sessions -> [Models -> Sessions \cup {None}]]
  BY <1>1, <1>2, <1>3 DEF SaveInto
<1> QED BY <1>3, <1>4 DEF ContentsOK

LEMMA SaveKeeps ==
  ASSUME CacheInv, NEW r \in Requests, Save(r)
  PROVE  ContentsOK' /\ ProgressOK' /\ SettledOwn'
<1>1. /\ stage[r] = "save" /\ stage' = [stage EXCEPT ![r] = "leave"]
      /\ UNCHANGED <<allocatorVars, path, kv, stale>> /\ disk' \in {disk, SaveInto(r)}
  BY DEF Save, At
<1>2. Holds(r) /\ "leave" \in Stages
  BY <1>1, AbsentAssumption DEF CacheInv, ProgressOK, Stages
<1>3. ContentsOK'
  BY <1>1, <1>2, SavedContents
<1> QED BY <1>1, <1>2, <1>3, StageKeeps

\* The request is over, and with it its stage and its path.
LEMMA OverKeeps ==
  ASSUME CacheInv, NEW r \in Requests, Ended(r), Over(r), ContentsOK'
  PROVE  ContentsOK' /\ ProgressOK' /\ SettledOwn'
<1>1. /\ UNCHANGED kv
      /\ \A q \in Requests : pc'[q] = IF q = r THEN "idle" ELSE pc[q]
      /\ \A q \in Requests : q # r => job'[q] = job[q] /\ slot'[q] = slot[q]
      /\ path' = [path EXCEPT ![r] = None] /\ stage' = [stage EXCEPT ![r] = None]
  BY DEF Ended, Over, Goto, At, CacheInv, SlotsInv, IInv, TypeOK
<1>2. ProgressOK'
  BY <1>1 DEF CacheInv, ProgressOK, Holds
<1>3. SettledOwn'
  BY <1>1, NobodySettles, AbsentAssumption DEF CacheInv, ProgressOK, Settled, Stages
<1> QED BY <1>2, <1>3

LEMMA EndKeeps ==
  ASSUME CacheInv, NEW r \in Requests, End(r) \/ Disconnect(r) \/ Desert(r)
  PROVE  ContentsOK' /\ ProgressOK' /\ SettledOwn'
<1>1. Ended(r) /\ Over(r)
  BY DEF End, Disconnect, Desert, Leave, Cancel, Abandon
<1>2. CASE End(r) \/ Disconnect(r)
  <2>1. ContentsOK'
    BY <1>1, <1>2 DEF End, Disconnect, Over, CacheInv, ContentsOK
  <2> QED BY <1>1, <2>1, OverKeeps
<1>3. CASE Desert(r)
  <2>1. Holds(r) /\ disk' \in {disk, SaveInto(r)} /\ UNCHANGED <<kv, stale>>
    BY <1>3 DEF Desert, Abandon, Over, Holds
  <2>2. ContentsOK'
    BY <2>1, SavedContents
  <2> QED BY <1>1, <2>2, OverKeeps
<1> QED BY <1>2, <1>3

-----------------------------------------------------------------------------
LEMMA CacheInitEstablishes == CacheInit => CacheInv
<1> SUFFICES ASSUME CacheInit PROVE CacheInv
  OBVIOUS
<1>1. SlotsInv
  BY InitEstablishes DEF CacheInit, Init, Registered, SlotsInv
<1> QED BY <1>1, AbsentAssumption
         DEF CacheInit, Init, CacheInv, ContentsOK, ProgressOK, SettledOwn, Settled, Holds, Stages

LEMMA CacheNextKeeps ==
  ASSUME Stable PROVE CacheInv /\ [CacheNext]_vars => CacheInv'
<1> SUFFICES ASSUME CacheInv, [CacheNext]_vars PROVE CacheInv'
  OBVIOUS
<1>1. SlotsInv'
  BY AllocatorStep, NextKeeps, RegisteredInductive DEF CacheInv, SlotsInv
<1>2. CASE UNCHANGED vars
  BY <1>1, <1>2 DEF vars, cacheVars, allocatorVars, requestVars, CacheInv, ContentsOK,
                    ProgressOK, SettledOwn, Settled, Contents, Holds
<1>3. CASE CacheNext
  BY <1>1, <1>3, AllocateKeeps, AskKeeps, BeginKeeps, RestoreKeeps, GenerateKeeps,
     ProgressKeeps, SaveKeeps, EndKeeps DEF CacheNext, CacheInv
<1> QED BY <1>2, <1>3

\* The state of requests, slots and snapshots that SlotCache starts in is kept.
THEOREM CacheInvariance == ASSUME Stable PROVE CacheSpec => []CacheInv
  BY CacheInitEstablishes, CacheNextKeeps, PTL DEF CacheSpec

\* Requests, slots and snapshot files keep their types, and a request is at a stage
\* of restore -> inference -> save exactly while it has its lease.
THEOREM CacheTypes == ASSUME Stable PROVE CacheSpec => []CacheTypeOK
<1>1. CacheInv => CacheTypeOK
  BY DEF CacheInv, SlotsInv, IInv, ContentsOK, ProgressOK, CacheTypeOK
<1> QED BY <1>1, CacheInvariance, PTL

\* With a stable slot state nobody's restore or prompt replaces the tokens of a
\* request that generates, for any number of requests, conversations and slots.
THEOREM GenerationsSafe == ASSUME Stable PROVE CacheSpec => []GenerationIntact
<1>1. CacheInv => GenerationIntact
  BY DEF CacheInv, SettledOwn, Settled, GenerationIntact
<1> QED BY <1>1, CacheInvariance, PTL

-----------------------------------------------------------------------------
(* The slot cache implements the lease that SlotLease promises.            *)

Places == Instances \X Slots

\* The abstract holder is whoever has a lease on the slot, and only they.
HoldersOK ==
  \A l \in Places :
    /\ \A r \in Requests : Holds(r) /\ Place(r) = l => AbstractHolder[l] = r
    /\ ~Taken(l) => AbstractHolder[l] = IF LeftLocked(l) THEN Orphan ELSE None

LEMMA HoldersFound == SlotExclusive => HoldersOK
<1> SUFFICES ASSUME SlotExclusive, NEW l \in Places
             PROVE  /\ \A r \in Requests : Holds(r) /\ Place(r) = l => AbstractHolder[l] = r
                    /\ ~Taken(l) => AbstractHolder[l] = IF LeftLocked(l) THEN Orphan ELSE None
  BY DEF HoldersOK
<1>1. AbstractHolder[l] = HolderOf(l)
  BY DEF AbstractHolder, Places
<1>2. ASSUME NEW r \in Requests, Holds(r), Place(r) = l PROVE HolderOf(l) = r
  <2>1. Taken(l)
    BY <1>2 DEF Taken
  <2>2. \A q \in Requests : Holds(q) /\ Place(q) = l => q = r
    BY <1>2 DEF SlotExclusive
  <2> QED BY <1>2, <2>1, <2>2 DEF HolderOf
<1> QED BY <1>1, <1>2 DEF HolderOf

\* The facts about the mapping that the steps below start from.
Mapping == Stable /\ CacheInv /\ HoldersOK

\* The lock behind a lease or a place in a queue.
LEMMA LockOf ==
  ASSUME Mapping, NEW r \in Requests, pc[r] \in {"wait", "lease"}
  PROVE  /\ Place(r) \in Places /\ pool[r] \in Pools /\ slot[r] \in Slots
         /\ job[r].model \in Models /\ pool[r] = current[job[r].model]
         /\ Holds(r) => owner[pool[r]][slot[r]] = r
  BY SizesAssumption DEF Mapping, CacheInv, SlotsInv, IInv, RequestsOK, Jobs, Registered,
                         LocksAccounted, NobodyForgotten, Place, Places

\* A slot is left locked exactly when the lock that leads to it is.
LEMMA LeftLockedAt ==
  ASSUME Mapping, NEW r \in Requests, pc[r] \in {"wait", "lease"}
  PROVE  LeftLocked(Place(r)) <=> owner[pool[r]][slot[r]] = Orphan
<1>1. \A m \in Models : InstanceOf[m] = InstanceOf[job[r].model] <=> m = job[r].model
  BY LockOf DEF Mapping, Stable
<1>2. pool[r] \in Pools /\ pool[r] = current[job[r].model] /\ job[r].model \in Models
  BY LockOf
<1>3. pool[r] # None
  BY <1>2, NullsAssumption
<1> QED BY <1>1, <1>2, <1>3 DEF LeftLocked, Place

\* Nobody else has, or has left locked, a slot whose lock one has.
LEMMA OwnersAlone ==
  ASSUME Mapping, NEW r \in Requests, pc[r] \in {"wait", "lease"},
         owner[pool[r]][slot[r]] = r
  PROVE  /\ \A q \in Requests : Holds(q) /\ Place(q) = Place(r) => q = r
         /\ ~LeftLocked(Place(r))
<1>1. \A q \in Requests : Holds(q) /\ Place(q) = Place(r) => q = r
  <2> SUFFICES ASSUME NEW q \in Requests, Holds(q), Place(q) = Place(r) PROVE q = r
    OBVIOUS
  <2>1. pc[q] \in {"wait", "lease"}
    BY DEF Holds
  <2>2. job[q].model = job[r].model /\ slot[q] = slot[r]
    BY <2>1, LockOf DEF Place, Mapping, Stable
  <2> QED BY <2>1, <2>2, LockOf
<1> QED BY <1>1, LeftLockedAt, NullsAssumption

\* The holders stay if the leases do, and the locks that were left behind.
LEMMA SameHolders ==
  ASSUME HoldersOK, HoldersOK',
         \A r \in Requests : Holds(r)' <=> Holds(r),
         \A r \in Requests : Holds(r) => Place(r)' = Place(r),
         \A l \in Places : LeftLocked(l)' <=> LeftLocked(l)
  PROVE  UNCHANGED AbstractHolder
<1>1. ASSUME NEW l \in Places PROVE AbstractHolder'[l] = AbstractHolder[l]
  <2>1. Taken(l)' <=> Taken(l)
    BY DEF Taken
  <2>2. CASE Taken(l)
    <3>1. PICK r \in Requests : Holds(r) /\ Place(r) = l
      BY <2>2 DEF Taken
    <3> QED BY <3>1 DEF HoldersOK
  <2>3. CASE ~Taken(l)
    BY <2>1, <2>3 DEF HoldersOK
  <2> QED BY <2>2, <2>3
<1> QED BY <1>1 DEF AbstractHolder, Places

\* Only one place changes hands.
LEMMA OneHolder ==
  ASSUME HoldersOK, HoldersOK', NEW k \in Places, NEW v, AbstractHolder'[k] = v,
         \A r \in Requests : Place(r) # k => (Holds(r)' <=> Holds(r)),
         \A r \in Requests : Holds(r)' => Place(r)' = Place(r),
         \A l \in Places : l # k => (LeftLocked(l)' <=> LeftLocked(l))
  PROVE  AbstractHolder' = [AbstractHolder EXCEPT ![k] = v]
<1>1. ASSUME NEW l \in Places, l # k PROVE AbstractHolder'[l] = AbstractHolder[l]
  <2>1. Taken(l)' <=> Taken(l)
    BY <1>1 DEF Taken
  <2>2. CASE Taken(l)
    <3>1. PICK r \in Requests : Holds(r)' /\ Place(r)' = l
      BY <2>1, <2>2 DEF Taken
    <3>2. Holds(r) /\ Place(r) = l
      BY <1>1, <3>1
    <3> QED BY <3>1, <3>2 DEF HoldersOK
  <2>3. CASE ~Taken(l)
    BY <1>1, <2>1, <2>3 DEF HoldersOK
  <2> QED BY <2>2, <2>3
<1> QED BY <1>1 DEF AbstractHolder, Places

-----------------------------------------------------------------------------
(* The steps that change no holder.                                        *)

\* A lock that is not left locked, and is not now, changes.
LEMMA OtherLocksOnly ==
  ASSUME Mapping, UNCHANGED current, NEW p \in Pools, NEW i \in Slots, NEW o,
         owner' = [owner EXCEPT ![p][i] = o], o # Orphan, owner[p][i] # Orphan
  PROVE  \A l \in Places : LeftLocked(l)' <=> LeftLocked(l)
<1>1. \A q \in Pools, j \in Slots : owner'[q][j] = IF q = p /\ j = i THEN o ELSE owner[q][j]
  BY DEF Mapping, CacheInv, SlotsInv, IInv, TypeOK
<1>2. \A m \in Models : current[m] # None => current[m] \in Pools
  BY DEF Mapping, CacheInv, SlotsInv, IInv, TypeOK
<1>3. \A q \in Pools, j \in Slots : owner'[q][j] = Orphan <=> owner[q][j] = Orphan
  BY <1>1
<1> QED BY <1>2, <1>3 DEF LeftLocked, Places

LEMMA UnownedOnly ==
  ASSUME Mapping, UNCHANGED current, NEW p \in Pools, NEW i \in Slots,
         Release(p, i), owner[p][i] # Orphan
  PROVE  \A l \in Places : LeftLocked(l)' <=> LeftLocked(l)
<1>1. CASE waiters[p][i] = <<>>
  BY <1>1, OtherLocksOnly, NullsAssumption DEF Release
<1>2. CASE waiters[p][i] # <<>>
  <2>1. waiters[p][i] \in Seq(Requests)
    BY DEF Mapping, CacheInv, SlotsInv, IInv, TypeOK
  <2>2. Head(waiters[p][i]) \in Requests
    BY <1>2, <2>1, HeadTailProperties
  <2> QED BY <1>2, <2>2, OtherLocksOnly, NullsAssumption DEF Release
<1> QED BY <1>1, <1>2

LEMMA SettleHolders ==
  ASSUME Mapping, HoldersOK', NEW r \in Requests, Settle(r)
  PROVE  UNCHANGED AbstractHolder
<1>1. \A q \in Requests : (Holds(q)' <=> Holds(q)) /\ Place(q)' = Place(q)
  BY DEF Settle, Goto, Holds, Place, Mapping, CacheInv, SlotsInv, IInv, TypeOK
<1>2. PICK n \in Counts(r) : KeepState(r, n) \/ ReplaceState(r, n)
  BY DEF Settle
<1>3. CASE KeepState(r, n)
  <2>1. UNCHANGED <<current, owner>>
    BY <1>3 DEF KeepState, lockVars
  <2> QED BY <1>1, <2>1, SameHolders DEF LeftLocked, Mapping
<1>4. CASE ReplaceState(r, n)
  <2>1. job[r] \in Jobs
    BY DEF Settle, Mapping, CacheInv, SlotsInv, IInv, RequestsOK
  <2>2. /\ job[r].model \in Models /\ job[r].override \in Overrides
        /\ n \in CountsFor(job[r].override)
    BY <2>1 DEF Jobs, Counts, CountsFor
  <2>3. current[job[r].model] = None
    BY <1>4, <2>2, OnlyTheFirst DEF ReplaceState, Mapping, CacheInv, SlotsInv
  <2>4. PICK p \in FreePools :
          /\ owner' = [owner EXCEPT ![p] = [i \in Slots |-> None]]
          /\ current' = [current EXCEPT ![job[r].model] = p]
    BY <1>4 DEF ReplaceState
  <2>5. /\ p \in Pools /\ \A m \in Models : current[m] # p
        /\ \A m \in Models : current'[m] = IF m = job[r].model THEN p ELSE current[m]
        /\ \A q \in Pools : q # p => owner'[q] = owner[q]
        /\ \A i \in Slots : owner'[p][i] = None
        /\ \A m \in Models : current[m] # None => current[m] \in Pools
    BY <2>4 DEF FreePools, Mapping, CacheInv, SlotsInv, IInv, TypeOK
  <2>6. \A l \in Places : LeftLocked(l)' <=> LeftLocked(l)
    BY <2>3, <2>5, NullsAssumption DEF LeftLocked, Places
  <2> QED BY <1>1, <2>6, SameHolders DEF Mapping
<1> QED BY <1>2, <1>3, <1>4

LEMMA AssignHolders ==
  ASSUME Mapping, HoldersOK', NEW r \in Requests, Assign(r)
  PROVE  UNCHANGED AbstractHolder
<1> DEFINE p == pool[r]
           i == slotOf'[p][job[r].session]
<1>1. /\ pc[r] = "assign" /\ p \in Pools /\ UNCHANGED <<current, job>>
      /\ slot' = [slot EXCEPT ![r] = i] /\ pc' = [pc EXCEPT ![r] = "wait"]
  BY DEF Assign, Goto, Mapping, CacheInv, SlotsInv, IInv, RequestsOK
<1>2. i \in Slots
  <2>1. IInv' /\ pc'[r] = "wait" /\ slot'[r] = i
    <3>1. IInv
      BY DEF Mapping, CacheInv, SlotsInv
    <3>2. Next
      BY DEF Next, Proceed
    <3>3. IInv'
      BY <3>1, <3>2, NextKeeps
    <3>4. pc'[r] = "wait" /\ slot'[r] = i
      BY <1>1, <3>1 DEF IInv, TypeOK
    <3> QED BY <3>3, <3>4
  <2> QED BY <2>1 DEF IInv, RequestsOK
<1>3. \A q \in Requests : (Holds(q)' <=> Holds(q)) /\ (Holds(q) => Place(q)' = Place(q))
  BY <1>1 DEF Holds, Place, Mapping, CacheInv, SlotsInv, IInv, TypeOK
<1>4. \/ UNCHANGED owner
      \/ owner[p][i] = None /\ owner' = [owner EXCEPT ![p][i] = r]
  BY DEF Assign, Acquire
<1>5. CASE UNCHANGED owner
  BY <1>1, <1>3, <1>5, SameHolders DEF LeftLocked, Mapping
<1>6. CASE owner[p][i] = None /\ owner' = [owner EXCEPT ![p][i] = r]
  <2> HIDE DEF p, i
  <2>1. \A l \in Places : LeftLocked(l)' <=> LeftLocked(l)
    BY <1>1, <1>2, <1>6, OtherLocksOnly, NullsAssumption
  <2> QED BY <1>3, <2>1, SameHolders DEF Mapping
<1> QED BY <1>4, <1>5, <1>6

LEMMA CancelHolders ==
  ASSUME Mapping, HoldersOK', NEW r \in Requests, Cancel(r)
  PROVE  UNCHANGED AbstractHolder
<1>1. /\ pc[r] \in Waiting /\ UNCHANGED current
      /\ \A q \in Requests : q # r => pc'[q] = pc[q] /\ job'[q] = job[q] /\ slot'[q] = slot[q]
      /\ pc'[r] = "idle"
  BY DEF Cancel, Ended, Goto, stateVars, Mapping, CacheInv, SlotsInv, IInv, TypeOK
<1>2. \A q \in Requests : (Holds(q)' <=> Holds(q)) /\ (Holds(q) => Place(q)' = Place(q))
  BY <1>1 DEF Holds, Place, Waiting
<1>3. CASE UNCHANGED owner
  BY <1>1, <1>2, <1>3, SameHolders DEF LeftLocked, Mapping
<1>4. CASE pc[r] = "wait" /\ owner[pool[r]][slot[r]] = r /\ Release(pool[r], slot[r])
  BY <1>1, <1>2, <1>4, LockOf, UnownedOnly, NullsAssumption, SameHolders DEF Mapping
<1> QED BY <1>3, <1>4 DEF Cancel, Withdraw, lockVars

LEMMA AllocateHolders ==
  ASSUME Mapping, HoldersOK', Allocate
  PROVE  UNCHANGED AbstractHolder
<1>1. ASSUME NEW n \in Overrides, Reconfigure(n) PROVE UNCHANGED AbstractHolder
  BY <1>1 DEF Reconfigure, stateVars, lockVars, requestVars, AbstractHolder, HolderOf, Taken,
              LeftLocked, Holds, Place
<1>2. ASSUME NEW m \in Models, ProbeExpires(m) PROVE UNCHANGED AbstractHolder
  BY <1>2 DEF ProbeExpires, lockVars, requestVars, AbstractHolder, HolderOf, Taken,
              LeftLocked, Holds, Place
<1>3. ASSUME NEW r \in Requests, Lookup(r) PROVE UNCHANGED AbstractHolder
  <2>1. /\ UNCHANGED <<current, owner, job, slot>>
        /\ \A q \in Requests : Holds(q)' <=> Holds(q)
    BY <1>3 DEF Lookup, Goto, Holds, stateVars, lockVars, Mapping, CacheInv, SlotsInv, IInv, TypeOK
  <2> QED BY <2>1, SameHolders DEF LeftLocked, Place, Mapping
<1> QED BY <1>1, <1>2, <1>3, SettleHolders, AssignHolders DEF Allocate

LEMMA AskHolders ==
  ASSUME Mapping, HoldersOK', NEW r \in Requests, NEW s \in Sessions, NEW m \in Models,
         Arrive(r, s, m)
  PROVE  UNCHANGED AbstractHolder
<1>1. UNCHANGED <<current, owner, slot>>
  BY DEF Arrive, stateVars, lockVars
<1>2. \A q \in Requests : (Holds(q)' <=> Holds(q)) /\ (Holds(q) => job'[q] = job[q])
  BY DEF Arrive, Goto, Holds, Mapping, CacheInv, SlotsInv, IInv, TypeOK
<1> QED BY <1>1, <1>2, SameHolders DEF LeftLocked, Place, Mapping

-----------------------------------------------------------------------------
(* The steps that do.                                                      *)

LEMMA EnterGrants ==
  ASSUME Mapping, HoldersOK', NEW r \in Requests, Enter(r), UNCHANGED kv
  PROVE  Lease!Grant(r, Place(r))
<1>1. /\ pc[r] = "wait" /\ owner[pool[r]][slot[r]] = r
      /\ UNCHANGED <<current, owner, job, slot>>
      /\ \A q \in Requests : Holds(q)' <=> (q = r \/ Holds(q))
  BY DEF Enter, Goto, Holds, stateVars, lockVars, Mapping, CacheInv, SlotsInv, IInv, TypeOK
<1>2. Place(r) \in Places /\ ~Taken(Place(r)) /\ ~LeftLocked(Place(r))
  BY <1>1, LockOf, OwnersAlone DEF Taken, Holds
<1>3. AbstractHolder[Place(r)] = None
  BY <1>2 DEF Mapping, HoldersOK
<1>4. ASSUME NEW k \in Places PROVE AbstractHolder[k] # r
  <2>1. CASE Taken(k)
    <3>1. PICK q \in Requests : Holds(q) /\ Place(q) = k
      BY <2>1 DEF Taken
    <3> QED BY <1>1, <3>1 DEF Mapping, HoldersOK, Holds
  <2> QED BY <2>1, NullsAssumption DEF Mapping, HoldersOK
<1>5. AbstractHolder'[Place(r)] = r
  BY <1>1, <1>2 DEF HoldersOK, Place
<1>6. /\ \A q \in Requests : Place(q) # Place(r) => (Holds(q)' <=> Holds(q))
      /\ \A q \in Requests : Place(q)' = Place(q)
      /\ \A l \in Places : LeftLocked(l)' <=> LeftLocked(l)
  BY <1>1 DEF Place, LeftLocked
<1>7. AbstractHolder' = [AbstractHolder EXCEPT ![Place(r)] = r]
  BY <1>2, <1>5, <1>6, OneHolder DEF Mapping
<1> QED BY <1>3, <1>4, <1>7 DEF Lease!Grant, AbstractContent, Places

\* Leaves and abandonments both give the place up; what becomes of it differs.
LEMMA GivenUp ==
  ASSUME Mapping, HoldersOK', NEW r \in Requests, Holds(r), Ended(r), UNCHANGED <<kv, current>>,
         NEW k \in Places, Place(r) = k,
         NEW end \in {None, Orphan}, LeftLocked(k)' <=> end = Orphan,
         \A l \in Places : l # k => (LeftLocked(l)' <=> LeftLocked(l))
  PROVE  Lease!Finish(k, end)
<1>1. /\ \A q \in Requests : Holds(q)' <=> (q # r /\ Holds(q))
      /\ \A q \in Requests : q # r => job'[q] = job[q] /\ slot'[q] = slot[q]
  BY DEF Ended, Goto, Holds, Mapping, CacheInv, SlotsInv, IInv, TypeOK
<1>2. owner[pool[r]][slot[r]] = r
  BY LockOf DEF Holds
<1>3. \A q \in Requests : Holds(q)' => Place(q)' = Place(q) /\ Holds(q)
  BY <1>1 DEF Place
<1>4. AbstractHolder[k] = r
  BY DEF Mapping, HoldersOK
<1>5. AbstractHolder'[k] = end
  <2>1. \A q \in Requests : Holds(q)' => Place(q)' # k
    BY <1>1, <1>2, <1>3, OwnersAlone DEF Holds
  <2>2. ~Taken(k)'
    BY <2>1 DEF Taken
  <2> QED BY <2>2 DEF HoldersOK
<1>6. AbstractHolder' = [AbstractHolder EXCEPT ![k] = end]
  BY <1>1, <1>3, <1>5, OneHolder DEF Mapping
<1> QED BY <1>4, <1>6 DEF Lease!Finish, AbstractContent, Places

LEMMA LeaveFinishes ==
  ASSUME Mapping, HoldersOK', NEW r \in Requests, Leave(r), UNCHANGED kv
  PROVE  Lease!Finish(Place(r), None)
<1>1. /\ Holds(r) /\ Ended(r) /\ Release(pool[r], slot[r]) /\ UNCHANGED current
  BY DEF Leave, Holds, stateVars
<1>2. /\ Place(r) \in Places /\ pool[r] \in Pools /\ slot[r] \in Slots
      /\ owner[pool[r]][slot[r]] = r
  BY <1>1, LockOf DEF Holds
<1>3. \A l \in Places : LeftLocked(l)' <=> LeftLocked(l)
  BY <1>1, <1>2, UnownedOnly, NullsAssumption
<1>4. ~LeftLocked(Place(r))
  BY <1>1, <1>2, OwnersAlone DEF Holds
<1>5. PICK k \in Places : Place(r) = k
  BY <1>2
<1>6. LeftLocked(k)' <=> None = Orphan
  BY <1>3, <1>4, <1>5, NullsAssumption
<1> QED BY <1>1, <1>3, <1>5, <1>6, GivenUp

LEMMA AbandonFinishes ==
  ASSUME Mapping, HoldersOK', NEW r \in Requests, Abandon(r), UNCHANGED kv
  PROVE  Lease!Finish(Place(r), Orphan)
<1>1. /\ Holds(r) /\ Ended(r) /\ UNCHANGED current
      /\ owner' = [owner EXCEPT ![pool[r]][slot[r]] = Orphan]
  BY DEF Abandon, Holds, stateVars
<1>2. /\ Place(r) \in Places /\ pool[r] \in Pools /\ slot[r] \in Slots
      /\ job[r].model \in Models /\ pool[r] = current[job[r].model]
  BY <1>1, LockOf DEF Holds
<1>3. PICK k \in Places : Place(r) = k
  BY <1>2
<1>4. /\ \A q \in Pools, j \in Slots :
           owner'[q][j] = IF q = pool[r] /\ j = slot[r] THEN Orphan ELSE owner[q][j]
      /\ \A m \in Models : current[m] # None => current[m] \in Pools
  BY <1>1, <1>2 DEF Mapping, CacheInv, SlotsInv, IInv, TypeOK
<1>5. LeftLocked(k)'
  <2>1. k[1] = InstanceOf[job[r].model] /\ k[2] = slot[r]
    BY <1>3 DEF Place
  <2> QED BY <1>1, <1>2, <1>4, <2>1, NullsAssumption DEF LeftLocked
<1>6. ASSUME NEW l \in Places, l # k PROVE LeftLocked(l)' <=> LeftLocked(l)
  <2>1. l[1] \in Instances /\ l[2] \in Slots /\ l = <<l[1], l[2]>>
    BY DEF Places
  <2>2. ASSUME NEW m \in Models, InstanceOf[m] = l[1], current[m] # None
        PROVE  owner'[current[m]][l[2]] = owner[current[m]][l[2]]
    <3>1. current[m] = pool[r] => m = job[r].model
      BY <1>2, <2>2 DEF Mapping, CacheInv, SlotsInv, Registered
    <3>2. ~(current[m] = pool[r] /\ l[2] = slot[r])
      BY <1>3, <1>6, <2>1, <2>2, <3>1 DEF Place
    <3> QED BY <1>4, <2>1, <2>2, <3>2
  <2> QED BY <1>1, <2>2 DEF LeftLocked
<1> QED BY <1>1, <1>3, <1>5, <1>6, GivenUp

LEMMA OneChanged ==
  ASSUME NEW S, NEW f, NEW g, NEW k \in S, NEW c,
         f = [x \in S |-> f[x]], g = [x \in S |-> g[x]],
         \A x \in S : g[x] = IF x = k THEN c ELSE f[x]
  PROVE  g = [f EXCEPT ![k] = c]
<1>1. DOMAIN f = S /\ [f EXCEPT ![k] = c] = [x \in S |-> IF x = k THEN c ELSE f[x]]
  OBVIOUS
<1>2. g = [x \in S |-> IF x = k THEN c ELSE f[x]]
  OBVIOUS
<1> QED BY <1>1, <1>2

LEMMA RestoreUses ==
  ASSUME Mapping, HoldersOK', NEW r \in Requests, Restore(r) \/ Generate(r)
  PROVE  [Lease!Next]_(Lease!vars)
<1>1. /\ stage[r] \in {"restore", "forward"} /\ UNCHANGED allocatorVars
      /\ \/ UNCHANGED kv
         \/ \E c \in {Snapshot(r), job[r].session} :
              kv' = [kv EXCEPT ![InstanceOf[job[r].model]][slot[r]] = c]
  BY DEF Restore, Generate
<1>2. Holds(r)
  BY <1>1, AbsentAssumption DEF Mapping, CacheInv, ProgressOK, Stages
<1>3. UNCHANGED AbstractHolder
  BY <1>1 DEF allocatorVars, stateVars, lockVars, requestVars, AbstractHolder, HolderOf, Taken,
              LeftLocked, Holds, Place
<1>4. CASE UNCHANGED kv
  BY <1>3, <1>4 DEF Lease!vars, AbstractContent
<1>5. ASSUME NEW c \in {Snapshot(r), job[r].session},
             kv' = [kv EXCEPT ![InstanceOf[job[r].model]][slot[r]] = c]
      PROVE  Lease!Next
  <2>1. /\ Place(r) \in Places /\ InstanceOf[job[r].model] \in Instances /\ slot[r] \in Slots
        /\ c \in Sessions \cup {None}
    BY <1>2, AtWork, LockOf DEF Mapping, CacheInv, ContentsOK, Snapshot, Holds
  <2>2. AbstractHolder[Place(r)] = r
    BY <1>2, <2>1 DEF Mapping, HoldersOK
  <2>3. ASSUME NEW l \in Places
        PROVE  kv'[l[1]][l[2]] = IF l = Place(r) THEN c ELSE kv[l[1]][l[2]]
    <3>1. l[1] \in Instances /\ l[2] \in Slots /\ l = <<l[1], l[2]>>
      BY DEF Places
    <3>2. l = Place(r) <=> l[1] = InstanceOf[job[r].model] /\ l[2] = slot[r]
      BY <3>1 DEF Place
    <3> QED BY <1>5, <2>1, <3>1, <3>2 DEF Mapping, CacheInv, ContentsOK
  <2>4. AbstractContent' = [AbstractContent EXCEPT ![Place(r)] = c]
    <3>1. \A l \in Places : AbstractContent'[l] = IF l = Place(r) THEN c ELSE AbstractContent[l]
      BY <2>3 DEF AbstractContent, Places
    <3>2. /\ AbstractContent = [l \in Places |-> AbstractContent[l]]
          /\ AbstractContent' = [l \in Places |-> AbstractContent'[l]]
      BY DEF AbstractContent, Places
    <3> QED BY <2>1, <3>1, <3>2, OneChanged
  <2>5. Lease!Use(Place(r), c)
    BY <1>3, <2>2, <2>4 DEF Lease!Use
  <2> QED BY <2>1, <2>5 DEF Lease!Next, Places
<1> QED BY <1>1, <1>4, <1>5

\* A step of the slot cache is a step of the lease, or changes nothing it shows.
LEMMA LeaseStep ==
  ASSUME Mapping, HoldersOK', [CacheNext]_vars
  PROVE  [Lease!Next]_(Lease!vars)
<1>1. ASSUME UNCHANGED AbstractHolder, UNCHANGED kv PROVE [Lease!Next]_(Lease!vars)
  BY <1>1 DEF Lease!vars, AbstractContent
<1>2. CASE Allocate
  BY <1>1, <1>2, AllocateHolders DEF Allocate, cacheVars
<1>3. ASSUME NEW r \in Requests, NEW s \in Sessions, NEW m \in Models, NEW k \in Paths,
             Ask(r, s, m, k)
      PROVE  [Lease!Next]_(Lease!vars)
  BY <1>1, <1>3, AskHolders DEF Ask
<1>4. ASSUME NEW r \in Requests, Begin(r) PROVE [Lease!Next]_(Lease!vars)
  <2>1. Lease!Grant(r, Place(r)) /\ pc[r] = "wait"
    BY <1>4, EnterGrants DEF Begin, Enter
  <2> QED BY <2>1, LockOf DEF Lease!Next, Places
<1>5. ASSUME NEW r \in Requests, Succeed(r) \/ Fail(r) \/ Report(r) \/ Save(r)
      PROVE  [Lease!Next]_(Lease!vars)
  <2>1. UNCHANGED <<allocatorVars, kv>>
    BY <1>5 DEF Succeed, Fail, Report, Save
  <2>2. UNCHANGED AbstractHolder
    BY <2>1 DEF allocatorVars, stateVars, lockVars, requestVars, AbstractHolder, HolderOf, Taken,
                LeftLocked, Holds, Place
  <2> QED BY <1>1, <2>1, <2>2
<1>6. ASSUME NEW r \in Requests, End(r) \/ Disconnect(r) \/ Desert(r)
      PROVE  [Lease!Next]_(Lease!vars)
  <2>1. UNCHANGED kv /\ (Leave(r) \/ Cancel(r) \/ Abandon(r))
    BY <1>6 DEF End, Disconnect, Desert, Over
  <2>2. CASE Cancel(r)
    BY <1>1, <2>1, <2>2, CancelHolders
  <2>3. CASE Leave(r)
    <3>1. Lease!Finish(Place(r), None) /\ pc[r] = "lease"
      BY <2>1, <2>3, LeaveFinishes DEF Leave
    <3> QED BY <3>1, LockOf DEF Lease!Next, Places
  <2>4. CASE Abandon(r)
    <3>1. Lease!Finish(Place(r), Orphan) /\ pc[r] = "lease"
      BY <2>1, <2>4, AbandonFinishes DEF Abandon
    <3> QED BY <3>1, LockOf DEF Lease!Next, Places
  <2> QED BY <2>1, <2>2, <2>3, <2>4
<1>7. CASE UNCHANGED vars
  <2>1. UNCHANGED AbstractHolder
    BY <1>7 DEF vars, allocatorVars, stateVars, lockVars, requestVars, AbstractHolder, HolderOf,
                Taken, LeftLocked, Holds, Place
  <2> QED BY <1>1, <1>7, <2>1 DEF vars, cacheVars
<1> QED BY <1>2, <1>3, <1>4, <1>5, <1>6, <1>7, RestoreUses DEF CacheNext

LEMMA LeaseInit == CacheInit => Lease!Init
<1> SUFFICES ASSUME CacheInit PROVE Lease!Init
  OBVIOUS
<1>1. \A l \in Places : ~Taken(l) /\ ~LeftLocked(l)
  BY NullsAssumption DEF CacheInit, Init, Taken, LeftLocked, Holds
<1>2. \A l \in Places : HolderOf(l) = None
  BY <1>1 DEF HolderOf
<1>3. AbstractHolder = [l \in Places |-> None]
  BY <1>2 DEF AbstractHolder, Places
<1>4. AbstractContent = [l \in Places |-> None]
  BY DEF CacheInit, AbstractContent, Places
<1> QED BY <1>3, <1>4 DEF Lease!Init, Places

\* With a stable slot state the slot cache implements the lease of SlotLease, for
\* any number of requests, conversations, instances and slots: a slot that was
\* granted is granted to nobody else before its lease is over, and only its holder
\* changes what it holds.
THEOREM LeasesKept == ASSUME Stable PROVE CacheSpec => ImplementsLease
<1>1. CacheInv => HoldersOK
  BY HoldersFound, LeasesApart DEF CacheInv, SlotsInv
<1>2. CacheInv /\ HoldersOK => Mapping
  BY DEF Mapping
<1>3. Mapping /\ HoldersOK' /\ [CacheNext]_vars => [Lease!Next]_(Lease!vars)
  BY LeaseStep
<1> QED BY <1>1, <1>2, <1>3, LeaseInit, CacheInvariance, PTL DEF CacheSpec, ImplementsLease, Lease!Spec

-----------------------------------------------------------------------------
(* What a slot holds, and what is saved of it.                             *)

\* Unless it is stale a slot holds the conversation of the request that has it ...
LeasedOwn ==
  \A r \in Requests : Holds(r) /\ Place(r) \notin stale => Contents(r) = job[r].session

\* ... and, if nobody has it, of the session that last_session names.
LastOwn ==
  \A m \in Models, i \in Slots :
    /\ current[m] # None
    /\ lastSession[current[m]][i] # None
    /\ <<InstanceOf[m], i>> \notin stale
    /\ ~Taken(<<InstanceOf[m], i>>)
    => kv[InstanceOf[m]][i] = lastSession[current[m]][i]

\* Who is about to restore has a stale slot.
RestoringStale == \A r \in Requests : stage[r] = "restore" => Place(r) \in stale

FreshOK == LeasedOwn /\ LastOwn /\ RestoringStale

\* Steps that keep the leases, what the slots hold, and who had them last.
LEMMA FreshStays ==
  ASSUME FreshOK, UNCHANGED <<kv, stale>>,
         \A q \in Requests : Holds(q)' <=> Holds(q),
         \A q \in Requests : Holds(q) => job'[q] = job[q] /\ slot'[q] = slot[q],
         \A q \in Requests : stage'[q] = "restore" => stage[q] = "restore" /\ Holds(q),
         \A m \in Models, i \in Slots :
           current'[m] # None /\ lastSession'[current'[m]][i] # None =>
             /\ current[m] # None
             /\ lastSession[current[m]][i] = lastSession'[current'[m]][i]
  PROVE  FreshOK'
<1>1. \A q \in Requests : Holds(q) => Place(q)' = Place(q) /\ Contents(q)' = Contents(q)
  BY DEF Place, Contents
<1>2. \A l : Taken(l)' <=> Taken(l)
  BY <1>1 DEF Taken
<1>3. LeasedOwn'
  BY <1>1 DEF FreshOK, LeasedOwn
<1>4. LastOwn'
  BY <1>2 DEF FreshOK, LastOwn
<1>5. RestoringStale'
  BY <1>1 DEF FreshOK, RestoringStale
<1> QED BY <1>3, <1>4, <1>5 DEF FreshOK

LEMMA RestoringHolds ==
  ASSUME CacheInv, NEW r \in Requests, stage[r] = "restore" PROVE Holds(r)
  BY AbsentAssumption DEF CacheInv, ProgressOK, Stages

LEMMA AllocateFresh ==
  ASSUME Mapping, FreshOK, Allocate PROVE FreshOK'
<1>1. UNCHANGED <<stage, kv, stale>>
  BY DEF Allocate, cacheVars
<1>2. \A q \in Requests : stage'[q] = "restore" => stage[q] = "restore" /\ Holds(q)
  BY <1>1, RestoringHolds DEF Mapping
<1>3. ASSUME UNCHANGED <<current, lastSession>>,
             \A q \in Requests : Holds(q)' <=> Holds(q),
             \A q \in Requests : Holds(q) => job'[q] = job[q] /\ slot'[q] = slot[q]
      PROVE  FreshOK'
  BY <1>1, <1>2, <1>3, FreshStays
<1>4. ASSUME NEW r \in Requests, Lookup(r) \/ Assign(r) PROVE FreshOK'
  <2>1. /\ UNCHANGED <<current, lastSession, job>>
        /\ \A q \in Requests : (Holds(q)' <=> Holds(q)) /\ (Holds(q) => slot'[q] = slot[q])
    BY <1>4 DEF Lookup, Assign, Goto, Holds, stateVars, Mapping, CacheInv, SlotsInv, IInv, TypeOK
  <2> QED BY <2>1, <1>3
<1>5. ASSUME NEW r \in Requests, Settle(r) PROVE FreshOK'
  <2>1. /\ UNCHANGED <<job, slot>>
        /\ \A q \in Requests : Holds(q)' <=> Holds(q)
    BY <1>5 DEF Settle, Goto, Holds, Mapping, CacheInv, SlotsInv, IInv, TypeOK
  <2>2. PICK n \in Counts(r) : KeepState(r, n) \/ ReplaceState(r, n)
    BY <1>5 DEF Settle
  <2>3. CASE KeepState(r, n)
    BY <1>3, <2>1, <2>3 DEF KeepState
  <2>4. CASE ReplaceState(r, n)
    <3>1. job[r].model \in Models
      BY <1>5 DEF Settle, Mapping, CacheInv, SlotsInv, IInv, RequestsOK, Jobs
    <3>2. PICK p \in FreePools :
            /\ lastSession' = [lastSession EXCEPT ![p] = [i \in Slots |-> None]]
            /\ current' = [current EXCEPT ![job[r].model] = p]
      BY <2>4 DEF ReplaceState
    <3>3. /\ p \in Pools /\ \A m \in Models : current[m] # p
          /\ \A m \in Models : current'[m] = IF m = job[r].model THEN p ELSE current[m]
          /\ \A q \in Pools : q # p => lastSession'[q] = lastSession[q]
          /\ \A i \in Slots : lastSession'[p][i] = None
          /\ \A m \in Models : current[m] # None => current[m] \in Pools
      BY <3>1, <3>2 DEF FreePools, Mapping, CacheInv, SlotsInv, IInv, TypeOK
    <3>4. ASSUME NEW m \in Models, NEW i \in Slots,
                 current'[m] # None, lastSession'[current'[m]][i] # None
          PROVE  current[m] # None /\ lastSession[current[m]][i] = lastSession'[current'[m]][i]
      BY <3>3, <3>4
    <3> QED BY <1>1, <1>2, <2>1, <3>4, FreshStays
  <2> QED BY <2>2, <2>3, <2>4
<1>6. CASE UNCHANGED requestVars /\ UNCHANGED <<current, lastSession>>
  BY <1>3, <1>6 DEF requestVars, Holds
<1> QED BY <1>4, <1>5, <1>6 DEF Allocate, Reconfigure, ProbeExpires, stateVars

LEMMA AskFresh ==
  ASSUME Mapping, FreshOK, NEW r \in Requests, NEW s \in Sessions, NEW m \in Models,
         NEW k \in Paths, Ask(r, s, m, k)
  PROVE  FreshOK'
<1>1. UNCHANGED <<stage, kv, stale, current, lastSession, slot>>
  BY DEF Ask, Arrive, stateVars
<1>2. \A q \in Requests : (Holds(q)' <=> Holds(q)) /\ (Holds(q) => job'[q] = job[q])
  BY DEF Ask, Arrive, Goto, Holds, Mapping, CacheInv, SlotsInv, IInv, TypeOK
<1>3. \A q \in Requests : stage'[q] = "restore" => stage[q] = "restore" /\ Holds(q)
  BY <1>1, RestoringHolds DEF Mapping
<1> QED BY <1>1, <1>2, <1>3, FreshStays

\* A slot that counts as resident and is not stale holds the session's conversation.
LEMMA BeginFresh ==
  ASSUME Mapping, FreshOK, NEW r \in Requests, Begin(r) PROVE FreshOK'
<1>1. /\ pc[r] = "wait" /\ owner[pool[r]][slot[r]] = r
      /\ UNCHANGED <<current, lastSession, job, slot, kv>>
      /\ stale' = IF Resident(r) THEN stale ELSE stale \cup {Place(r)}
      /\ \A q \in Requests : Holds(q)' <=> (q = r \/ Holds(q))
      /\ \A q \in Requests : q # r => stage'[q] = stage[q]
      /\ stage'[r] = IF Resident(r) THEN "forward" ELSE "restore"
  BY DEF Begin, At, Enter, Goto, Holds, stateVars, Mapping, CacheInv, ProgressOK, SlotsInv, IInv, TypeOK
<1>2. /\ \A q \in Requests : Place(q)' = Place(q) /\ Contents(q)' = Contents(q)
      /\ \A l : Taken(l) => Taken(l)'
  BY <1>1 DEF Place, Contents, Taken
<1>3. ASSUME Resident(r), Place(r) \notin stale PROVE Contents(r) = job[r].session
  <2>1. /\ job[r].model \in Models /\ slot[r] \in Slots /\ pool[r] \in Pools
        /\ pool[r] = current[job[r].model]
    BY <1>1, LockOf
  <2>2. ~Taken(Place(r))
    BY <1>1, OwnersAlone DEF Taken, Holds
  <2>3. job[r].session \in Sessions
    BY <1>1 DEF Mapping, CacheInv, SlotsInv, IInv, RequestsOK, Jobs
  <2>4. pool[r] # None /\ job[r].session # None
    BY <2>1, <2>3, NullsAssumption
  <2>5. lastSession[current[job[r].model]][slot[r]] = job[r].session
    BY <1>3, <2>1 DEF Resident
  <2> QED BY <1>3, <2>1, <2>2, <2>4, <2>5 DEF FreshOK, LastOwn, Place, Contents
<1>4. LeasedOwn'
  BY <1>1, <1>2, <1>3 DEF FreshOK, LeasedOwn
<1>5. LastOwn'
  BY <1>1, <1>2 DEF FreshOK, LastOwn
<1>6. RestoringStale'
  BY <1>1, <1>2 DEF FreshOK, RestoringStale
<1> QED BY <1>4, <1>5, <1>6 DEF FreshOK

\* Restoring a snapshot, and generating, concern the slot of the request.
LEMMA UseFresh ==
  ASSUME Mapping, FreshOK, NEW r \in Requests, Holds(r), NEW c, NEW label,
         kv' = [kv EXCEPT ![InstanceOf[job[r].model]][slot[r]] = c],
         stale' = IF c = job[r].session THEN stale \ {Place(r)} ELSE stale,
         c = job[r].session \/ Place(r) \in stale,
         stage' = [stage EXCEPT ![r] = label], label # "restore",
         UNCHANGED allocatorVars
  PROVE  FreshOK'
<1>1. /\ UNCHANGED <<current, lastSession, job, slot, pc>>
      /\ \A q \in Requests : Place(q)' = Place(q) /\ (Holds(q)' <=> Holds(q))
      /\ \A l : Taken(l)' <=> Taken(l)
  BY DEF allocatorVars, stateVars, requestVars, Place, Holds, Taken
<1>2. /\ Contents(r)' = c
      /\ \A q \in Requests : Holds(q) /\ q # r => Contents(q)' = Contents(q)
  BY <1>1, OwnSlotOnly DEF Mapping
<1>3. \A q \in Requests : Holds(q) /\ q # r => Place(q) # Place(r)
  BY WorkApart DEF Mapping, CacheInv, Place
<1>4. LeasedOwn'
  <2> SUFFICES ASSUME NEW q \in Requests, Holds(q), Place(q) \notin stale'
               PROVE  Contents(q)' = job[q].session
    BY <1>1 DEF LeasedOwn
  <2>1. CASE q = r
    BY <1>2, <2>1
  <2>2. CASE q # r
    BY <1>2, <1>3, <2>2 DEF FreshOK, LeasedOwn
  <2> QED BY <2>1, <2>2
<1>5. LastOwn'
  <2> SUFFICES ASSUME NEW m \in Models, NEW i \in Slots,
                      current[m] # None, lastSession[current[m]][i] # None,
                      <<InstanceOf[m], i>> \notin stale', ~Taken(<<InstanceOf[m], i>>)
               PROVE  kv'[InstanceOf[m]][i] = lastSession[current[m]][i]
    BY <1>1 DEF LastOwn
  <2>1. <<InstanceOf[m], i>> # Place(r)
    BY DEF Taken
  <2>2. kv'[InstanceOf[m]][i] = kv[InstanceOf[m]][i]
    <3>1. InstanceOf[job[r].model] \in Instances /\ slot[r] \in Slots /\ InstanceOf[m] \in Instances
      BY AtWork, SizesAssumption DEF Mapping, CacheInv
    <3> QED BY <2>1, <3>1 DEF Place, Mapping, CacheInv, ContentsOK
  <2> QED BY <2>1, <2>2 DEF FreshOK, LastOwn
<1>6. RestoringStale'
  <2>1. \A q \in Requests : stage'[q] = "restore" => q # r /\ stage[q] = "restore" /\ Holds(q)
    BY RestoringHolds DEF Mapping, CacheInv, ProgressOK
  <2> QED BY <1>1, <1>3, <2>1 DEF FreshOK, RestoringStale
<1> QED BY <1>4, <1>5, <1>6 DEF FreshOK

LEMMA RestoreFresh ==
  ASSUME Mapping, FreshOK, NEW r \in Requests, Restore(r) PROVE FreshOK'
<1>1. /\ stage[r] = "restore" /\ stage' = [stage EXCEPT ![r] = "forward"]
      /\ UNCHANGED allocatorVars
  BY DEF Restore, At
<1>2. Holds(r) /\ Place(r) \in stale
  BY <1>1, RestoringHolds DEF Mapping, FreshOK, RestoringStale
<1>3. CASE UNCHANGED <<kv, stale>>
  <2>1. /\ UNCHANGED <<current, lastSession, job, slot, pc>>
        /\ \A q \in Requests : stage'[q] = "restore" => stage[q] = "restore" /\ Holds(q)
    BY <1>1, RestoringHolds DEF allocatorVars, stateVars, requestVars, Mapping, CacheInv, ProgressOK
  <2> QED BY <1>3, <2>1, FreshStays DEF Holds
<1>4. CASE /\ kv' = [kv EXCEPT ![InstanceOf[job[r].model]][slot[r]] = Snapshot(r)]
           /\ stale' = IF Snapshot(r) = job[r].session THEN stale \ {Place(r)} ELSE stale
  <2> DEFINE c == Snapshot(r)
  <2> HIDE DEF c
  <2>1. /\ kv' = [kv EXCEPT ![InstanceOf[job[r].model]][slot[r]] = c]
        /\ stale' = IF c = job[r].session THEN stale \ {Place(r)} ELSE stale
    BY <1>4 DEF c
  <2>2. \E d : d = c
    OBVIOUS
  <2> QED BY <1>1, <1>2, <2>1, <2>2, UseFresh
<1> QED BY <1>3, <1>4 DEF Restore

LEMMA GenerateFresh ==
  ASSUME Mapping, FreshOK, NEW r \in Requests, Generate(r) PROVE FreshOK'
<1>1. /\ stage[r] = "forward" /\ stage' = [stage EXCEPT ![r] = "generate"]
      /\ UNCHANGED allocatorVars
      /\ kv' = [kv EXCEPT ![InstanceOf[job[r].model]][slot[r]] = job[r].session]
      /\ stale' = stale \ {Place(r)}
  BY DEF Generate, At
<1>2. Holds(r)
  BY <1>1, AbsentAssumption DEF Mapping, CacheInv, ProgressOK, Stages
<1>3. job[r].session \in Sessions
  BY <1>2, AtWork DEF Mapping, CacheInv
<1> QED BY <1>1, <1>2, <1>3, UseFresh

\* Who gives a slot up that is not stale leaves it with the session it names.
LEMMA OverFresh ==
  ASSUME Mapping, FreshOK, NEW r \in Requests, Holds(r), Ended(r), Recorded(r), Over(r),
         UNCHANGED current
  PROVE  FreshOK'
<1>1. /\ UNCHANGED <<kv, stale>>
      /\ \A q \in Requests : Holds(q)' <=> (q # r /\ Holds(q))
      /\ \A q \in Requests : q # r => /\ job'[q] = job[q] /\ slot'[q] = slot[q]
                                      /\ stage'[q] = stage[q]
      /\ stage'[r] = None
  BY DEF Ended, Over, At, Goto, Holds, Mapping, CacheInv, ProgressOK, SlotsInv, IInv, TypeOK
<1>2. \A q \in Requests : q # r => Place(q)' = Place(q) /\ Contents(q)' = Contents(q)
  BY <1>1 DEF Place, Contents
<1>3. LeasedOwn'
  BY <1>1, <1>2 DEF FreshOK, LeasedOwn
<1>4. LastOwn'
  <2> SUFFICES ASSUME NEW m \in Models, NEW i \in Slots,
                      current[m] # None, lastSession'[current[m]][i] # None,
                      <<InstanceOf[m], i>> \notin stale, ~Taken(<<InstanceOf[m], i>>)'
               PROVE  kv[InstanceOf[m]][i] = lastSession'[current[m]][i]
    BY <1>1 DEF LastOwn
  <2>1. /\ Place(r) \in Places /\ pool[r] \in Pools /\ slot[r] \in Slots
        /\ job[r].model \in Models /\ pool[r] = current[job[r].model]
        /\ current[m] \in Pools
    <3>1. current[m] \in Pools
      BY DEF Mapping, CacheInv, SlotsInv, IInv, TypeOK
    <3> QED BY <3>1, LockOf DEF Holds
  <2>2. lastSession'[current[m]][i] = IF current[m] = pool[r] /\ i = slot[r] THEN job[r].session
                                      ELSE lastSession[current[m]][i]
    BY <2>1 DEF Recorded, Mapping, CacheInv, SlotsInv, IInv, TypeOK
  <2>3. current[m] = pool[r] => m = job[r].model
    BY <2>1 DEF Mapping, CacheInv, SlotsInv, Registered
  <2>4. CASE current[m] = pool[r] /\ i = slot[r]
    BY <2>2, <2>3, <2>4 DEF FreshOK, LeasedOwn, Place, Contents
  <2>5. CASE ~(current[m] = pool[r] /\ i = slot[r])
    <3>1. <<InstanceOf[m], i>> # Place(r)
      BY <2>1, <2>5 DEF Place, Mapping, Stable
    <3>2. ~Taken(<<InstanceOf[m], i>>)
      BY <1>1, <1>2, <3>1 DEF Taken
    <3> QED BY <2>2, <2>5, <3>2 DEF FreshOK, LastOwn
  <2> QED BY <2>4, <2>5
<1>5. RestoringStale'
  BY <1>1, <1>2, AbsentAssumption DEF FreshOK, RestoringStale, Stages
<1> QED BY <1>3, <1>4, <1>5 DEF FreshOK

LEMMA EndFresh ==
  ASSUME Mapping, FreshOK, NEW r \in Requests, End(r) \/ Disconnect(r) \/ Desert(r)
  PROVE  FreshOK'
<1>1. Over(r) /\ Ended(r) /\ (Leave(r) \/ Cancel(r) \/ Abandon(r))
  BY DEF End, Disconnect, Desert, Leave, Cancel, Abandon
<1>2. CASE Leave(r) \/ Abandon(r)
  BY <1>1, <1>2, OverFresh DEF Leave, Abandon, Holds, stateVars
<1>3. CASE Cancel(r)
  <2>1. /\ pc[r] \in Waiting /\ UNCHANGED <<current, lastSession, kv, stale>>
        /\ \A q \in Requests : q # r => /\ pc'[q] = pc[q] /\ job'[q] = job[q] /\ slot'[q] = slot[q]
                                        /\ stage'[q] = stage[q]
        /\ pc'[r] = "idle" /\ stage'[r] = None
    BY <1>1, <1>3 DEF Cancel, Over, Ended, At, Goto, stateVars, Mapping, CacheInv, ProgressOK,
                      SlotsInv, IInv, TypeOK
  <2>2. \A q \in Requests : (Holds(q)' <=> Holds(q)) /\ (Holds(q) => q # r)
    BY <2>1 DEF Holds, Waiting
  <2>3. \A q \in Requests : stage'[q] = "restore" => stage[q] = "restore" /\ Holds(q)
    BY <2>1, RestoringHolds, AbsentAssumption DEF Mapping, Stages
  <2> QED BY <2>1, <2>2, <2>3, FreshStays
<1> QED BY <1>1, <1>2, <1>3

LEMMA FreshStep ==
  ASSUME Mapping, FreshOK, [CacheNext]_vars PROVE FreshOK'
<1>1. ASSUME UNCHANGED <<allocatorVars, kv, stale>>,
             \A q \in Requests : stage'[q] = "restore" => stage[q] = "restore"
      PROVE  FreshOK'
  <2>1. /\ UNCHANGED <<current, lastSession, job, slot, pc>>
        /\ \A q \in Requests : stage'[q] = "restore" => stage[q] = "restore" /\ Holds(q)
    BY <1>1, RestoringHolds DEF allocatorVars, stateVars, requestVars, Mapping
  <2> QED BY <1>1, <2>1, FreshStays DEF Holds
<1>2. ASSUME NEW r \in Requests, Succeed(r) \/ Fail(r) \/ Report(r) \/ Save(r) PROVE FreshOK'
  <2>1. UNCHANGED <<allocatorVars, kv, stale>>
    BY <1>2 DEF Succeed, Fail, Report, Save
  <2>2. PICK label \in {"save", "leave", "report"} : stage' = [stage EXCEPT ![r] = label]
    BY <1>2 DEF Succeed, Fail, Report, Save, At
  <2> QED BY <1>1, <2>1, <2>2 DEF Mapping, CacheInv, ProgressOK
<1>3. CASE UNCHANGED vars
  BY <1>1, <1>3 DEF vars, cacheVars
<1> QED BY <1>2, <1>3, AllocateFresh, AskFresh, BeginFresh, RestoreFresh, GenerateFresh, EndFresh
        DEF CacheNext

\* With a stable slot state a save writes the conversation a snapshot is named after,
\* unless it is one of the events path, of a slot that has got nothing of the session
\* since it was leased to it: for any number of requests, conversations and slots.
THEOREM SavesOwn == ASSUME Stable PROVE CacheSpec => SnapshotsOwn
<1> DEFINE Saved == \A s \in Sessions, m \in Models :
                      disk'[s][m] # disk[s][m] =>
                        \/ disk'[s][m] = s
                        \/ \E r \in Requests : /\ path[r] = "events" /\ Holds(r) /\ Place(r) \in stale
                                               /\ job[r].session = s /\ job[r].model = m
<1>1. Mapping /\ FreshOK /\ [CacheNext]_vars => [Saved]_vars
  <2> SUFFICES ASSUME Mapping, FreshOK, CacheNext PROVE Saved
    OBVIOUS
  <2>1. CASE UNCHANGED disk
    BY <2>1
  <2>2. ASSUME NEW r \in Requests, Holds(r), disk' = SaveInto(r),
               path[r] = "events" \/ Settled(r)
        PROVE  Saved
    <3>1. job[r].session \in Sessions /\ job[r].model \in Models
      BY <2>2, AtWork DEF Mapping, CacheInv
    <3>2. \A s \in Sessions, m \in Models :
            disk'[s][m] = IF s = job[r].session /\ m = job[r].model THEN Contents(r) ELSE disk[s][m]
      BY <2>2, <3>1 DEF Mapping, CacheInv, ContentsOK, SaveInto
    <3>3. CASE path[r] = "events" /\ Place(r) \in stale
      BY <2>2, <3>2, <3>3
    <3>4. CASE Settled(r) \/ Place(r) \notin stale
      <4>1. Contents(r) = job[r].session
        BY <2>2, <3>4 DEF Mapping, CacheInv, SettledOwn, FreshOK, LeasedOwn
      <4> QED BY <3>2, <4>1
    <3> QED BY <2>2, <3>3, <3>4
  <2>3. ASSUME NEW r \in Requests, Save(r) PROVE Saved
    <3>1. Holds(r) /\ (path[r] = "events" \/ Settled(r))
      BY <2>3, AbsentAssumption DEF Save, Mapping, CacheInv, ProgressOK, Settled, Stages
    <3> QED BY <2>1, <2>2, <2>3, <3>1 DEF Save
  <2>4. ASSUME NEW r \in Requests, Desert(r) PROVE Saved
    BY <2>1, <2>2, <2>4 DEF Desert, Abandon, Holds
  <2> QED BY <2>1, <2>3, <2>4 DEF CacheNext, Allocate, cacheVars, Ask, Begin, Restore, Generate,
                                  Succeed, Fail, Report, End, Disconnect
<1>2. CacheInv => Mapping
  BY HoldersFound, LeasesApart DEF CacheInv, SlotsInv, Mapping
<1>3. CacheInit => FreshOK
  BY NullsAssumption, AbsentAssumption
     DEF CacheInit, Init, FreshOK, LeasedOwn, LastOwn, RestoringStale, Holds, Stages
<1>4. Mapping /\ FreshOK /\ [CacheNext]_vars => FreshOK'
  BY FreshStep
<1> QED BY <1>1, <1>2, <1>3, <1>4, CacheInvariance, PTL DEF CacheSpec, SnapshotsOwn
=============================================================================
