------------------------- MODULE ModelTrackerProofs -------------------------
(***************************************************************************)
(* Proofs about ModelTracker: the lock keeps the choice of a victim valid  *)
(* until it is unloaded, and max_models is exceeded only in the ways that  *)
(* the history variables name.                                             *)
(***************************************************************************)
EXTENDS ModelTracker, SequenceLemmas, FiniteSetTheorems

-----------------------------------------------------------------------------
(* The inductive invariant.                                                *)

\* A request that is under way has a job, only one that respects a limit of one or
\* more is inside ensure_capacity, and nothing is unloaded before the server was listed.
JobsOK ==
  \A r \in Requests :
    /\ pc[r] # "idle" => job[r] \in Jobs
    /\ pc[r] \in InLock => job[r].limit >= 1
    /\ pc[r] \in {"unload", "unloaded"} => initialized

Undisturbed == ~lapsed /\ ~raced

\* As long as nothing went wrong, requests know the limit, what the server holds is
\* listed, the list is within the limit, and what was unloaded stays unloaded.
ListOK ==
  Undisturbed =>
    /\ \A r \in Requests :
         /\ pc[r] # "idle" => job[r].limit = limit
         /\ pc[r] = "unloaded" => victim[r] \notin resident
    /\ limit > 0 /\ initialized => resident \subseteq Tracked /\ Len(loaded) <= limit

IInv == TypeOK /\ VictimStillLast /\ JobsOK /\ ListOK

USE LimitsAssumption, NoneAssumption, ModelsAssumption

-----------------------------------------------------------------------------
(* Sequences as sets.                                                      *)

\* The elements of a sequence are those it contains.
LEMMA ToSetContains ==
  ASSUME NEW S, NEW q \in Seq(S)
  PROVE  /\ Len(q) \in Nat
         /\ ToSet(q) \subseteq S
         /\ \A x : x \in ToSet(q) <=> Contains(q, x)
<1>1. Len(q) \in Nat /\ DOMAIN q = 1..Len(q) /\ \A i \in 1..Len(q) : q[i] \in S
  BY LenProperties, ElementOfSeq
<1> QED BY <1>1 DEF ToSet, Contains

\* A sequence has at most as many elements as it is long.
LEMMA ToSetCardinality ==
  ASSUME NEW S, NEW q \in Seq(S)
  PROVE  IsFiniteSet(ToSet(q)) /\ Cardinality(ToSet(q)) <= Len(q)
<1>1. Len(q) \in Nat /\ q \in [1..Len(q) -> S]
  BY LenProperties
<1>2. IsFiniteSet(1..Len(q)) /\ Cardinality(1..Len(q)) = Len(q)
  <2>1. 1 \in Int /\ Len(q) \in Int
    BY <1>1
  <2>2. /\ IsFiniteSet(1..Len(q))
        /\ Cardinality(1..Len(q)) = IF 1 > Len(q) THEN 0 ELSE Len(q) - 1 + 1
    BY <2>1, FS_Interval
  <2> QED BY <1>1, <2>2
<1>3. q \in Surjection(1..Len(q), ToSet(q))
  BY <1>1 DEF ToSet, Surjection
<1> QED BY <1>2, <1>3, FS_Surjection

\* What SetToSeqs returns: each element once, and no others.
LEMMA SetToSeqsProperties ==
  ASSUME NEW T, NEW S \in SUBSET T, IsFiniteSet(S), NEW q \in SetToSeqs(S)
  PROVE  q \in Seq(T) /\ Distinct(q) /\ ToSet(q) = S
<1> DEFINE n == Cardinality(S)
<1>1. n \in Nat
  BY FS_CardinalityType
<1>2. /\ q \in [1..n -> S]
      /\ \A i, j \in 1..n : i # j => q[i] # q[j]
  BY DEF SetToSeqs
<1>3. q \in Seq(T) /\ Len(q) = n
  BY <1>1, <1>2
<1>4. Distinct(q)
  BY <1>2, <1>3 DEF Distinct
<1>5. ToSet(q) \subseteq S /\ DOMAIN q = 1..n
  BY <1>2 DEF ToSet
<1>6. q \in Bijection(1..n, ToSet(q))
  BY <1>2, <1>5 DEF ToSet, Bijection, Injection, Surjection, IsInjective
<1>7. IsFiniteSet(1..n) /\ Cardinality(1..n) = n
  <2>1. 1 \in Int /\ n \in Int
    BY <1>1
  <2>2. IsFiniteSet(1..n) /\ Cardinality(1..n) = IF 1 > n THEN 0 ELSE n - 1 + 1
    BY <2>1, FS_Interval
  <2> QED BY <1>1, <2>2
<1>8. Cardinality(ToSet(q)) = n
  BY <1>6, <1>7, FS_Bijection DEF ExistsBijection
<1> QED BY <1>3, <1>4, <1>5, <1>8, FS_Subset

-----------------------------------------------------------------------------
(* Admit.                                                                  *)

\* Only one request is past the lock.
LEMMA PastLockAlone ==
  ASSUME TypeOK, NEW r \in Requests, HasTurn(r),
         NEW s \in Requests, pc[s] \in InLock \ {"queue"}
  PROVE  s = r
BY DEF TypeOK, HasTurn

\* What Admit does to the tracker, q being what is listed before.
Admitted(r, q) ==
  /\ initialized' = TRUE
  /\ loaded' \in Seq(Models) /\ Distinct(loaded')
  /\ victim' \in [Requests -> Models \cup {None}]
  /\ turn' \in Seq(Requests) /\ Distinct(turn')
  /\ \/ /\ pc' = [pc EXCEPT ![r] = "ready"]
        /\ \A s : Contains(turn', s) <=> Contains(turn, s) /\ s # r
        /\ \A m : Contains(loaded', m) <=> Contains(q, m) \/ m = job[r].model
        /\ Len(q) \in Nat /\ Len(loaded') \in Nat
        /\ Len(loaded') <= Len(q) \/ Len(loaded') <= job[r].limit
     \/ /\ pc' = [pc EXCEPT ![r] = "unload"]
        /\ turn' = turn
        /\ loaded' = q /\ q # <<>> /\ victim'[r] = Head(q)

LEMMA AdmitEffect ==
  ASSUME TypeOK, JobsOK, NEW r \in Requests, pc[r] \in InLock,
         NEW q \in Seq(Models), Distinct(q), Admit(r, q)
  PROVE  Admitted(r, q)
<1>1. /\ job[r] \in Jobs /\ job[r].model \in Models /\ job[r].limit \in Nat /\ job[r].limit >= 1
      /\ pc \in [Requests -> Phases] /\ victim \in [Requests -> Models \cup {None}]
      /\ turn \in Seq(Requests) /\ Distinct(turn)
  BY DEF TypeOK, JobsOK, Jobs, InLock, LimitsAssumption
<1>2. Len(q) \in Nat /\ initialized' = TRUE
  BY LenProperties DEF Admit
<1>3. CASE job[r].model \in ToSet(q) \/ Len(q) < job[r].limit
  <2>1. /\ loaded' = MovedToEnd(q, job[r].model)
        /\ victim' = [victim EXCEPT ![r] = None]
        /\ pc' = [pc EXCEPT ![r] = "ready"]
        /\ turn' = Without(turn, r)
    BY <1>3 DEF Admit, Goto
  <2>2. /\ loaded' \in Seq(Models) /\ Distinct(loaded')
        /\ \A m : Contains(loaded', m) <=> Contains(q, m) \/ m = job[r].model
        /\ Len(loaded') = IF Contains(q, job[r].model) THEN Len(q) ELSE Len(q) + 1
    <3> DEFINE model == job[r].model
               l == MovedToEnd(q, model)
    <3>1. model \in Models
      BY <1>1
    <3>2. loaded' = l
      BY <2>1
    <3> HIDE DEF model
    <3>3. /\ l \in Seq(Models) /\ Distinct(l)
          /\ \A m : Contains(l, m) <=> Contains(q, m) \/ m = model
          /\ Len(l) = IF Contains(q, model) THEN Len(q) ELSE Len(q) + 1
      BY <3>1, MovedToEndMembers
    <3> QED BY <3>2, <3>3 DEF model
  <2>3. /\ turn' \in Seq(Requests) /\ Distinct(turn')
        /\ \A s : Contains(turn', s) <=> Contains(turn, s) /\ s # r
    BY <1>1, <2>1, WithoutMembers
  <2>4. job[r].model \in ToSet(q) <=> Contains(q, job[r].model)
    BY ToSetContains
  <2>5. Len(loaded') \in Nat /\ (Len(loaded') <= Len(q) \/ Len(loaded') <= job[r].limit)
    BY <1>1, <1>2, <1>3, <2>2, <2>4
  <2> QED BY <1>1, <1>2, <2>1, <2>2, <2>3, <2>5 DEF Admitted
<1>4. CASE ~(job[r].model \in ToSet(q) \/ Len(q) < job[r].limit)
  <2>1. /\ loaded' = q
        /\ victim' = [victim EXCEPT ![r] = Head(q)]
        /\ pc' = [pc EXCEPT ![r] = "unload"]
        /\ turn' = turn
    BY <1>4 DEF Admit, Goto
  <2>2. q # <<>>
    BY <1>1, <1>2, <1>4, EmptySeq
  <2>3. Head(q) \in Models
    BY <2>2, TailMembers
  <2> QED BY <1>1, <1>2, <2>1, <2>2, <2>3 DEF Admitted
<1> QED BY <1>3, <1>4

\* Whoever goes on with Admit keeps the types, everybody's victim, and the jobs.
LEMMA AdmitTypes ==
  ASSUME TypeOK, VictimStillLast, JobsOK,
         NEW r \in Requests, pc[r] \in InLock, HasTurn(r),
         NEW q \in Seq(Models), Distinct(q), Admit(r, q),
         resident' \subseteq Models, {lapsed', raced'} \subseteq BOOLEAN,
         limit' = limit, job' = job
  PROVE  TypeOK' /\ VictimStillLast' /\ JobsOK'
<1>0. Admitted(r, q)
  BY AdmitEffect
<1>1. \A s \in Requests : s # r => pc'[s] = pc[s] /\ pc[s] \notin InLock \ {"queue"}
  <2>1. \A s \in Requests : pc[s] \in InLock \ {"queue"} => s = r
    BY PastLockAlone
  <2> QED BY <1>0, <2>1 DEF Admitted, TypeOK
<1>2. pc' \in [Requests -> Phases] /\ pc'[r] \in {"ready", "unload"}
  BY <1>0 DEF Admitted, TypeOK, Phases
<1>3. turn' \in Seq(Requests) /\ turn \in Seq(Requests)
  BY <1>0 DEF Admitted, TypeOK
<1>4. \A s \in Requests : /\ s \in ToSet(turn) <=> Contains(turn, s)
                          /\ s \in ToSet(turn') <=> Contains(turn', s)
  BY <1>3, ToSetContains
<1>5. \A s \in Requests : s \in ToSet(turn') <=> pc'[s] \in InLock
  <2>1. CASE pc'[r] = "ready"
    <3>1. \A s \in Requests : Contains(turn', s) <=> Contains(turn, s) /\ s # r
      BY <2>1, <1>0 DEF Admitted, TypeOK
    <3> QED BY <1>1, <1>4, <2>1, <3>1 DEF TypeOK, InLock
  <2>2. CASE pc'[r] = "unload"
    <3>1. turn' = turn
      BY <2>2, <1>0 DEF Admitted, TypeOK
    <3> QED BY <1>1, <2>2, <3>1 DEF TypeOK, InLock
  <2> QED BY <1>2, <2>1, <2>2
<1>6. \A s \in Requests : pc'[s] \in InLock \ {"queue"} => HasTurn(s)' /\ s = r /\ pc'[r] = "unload"
  <2>1. pc'[r] = "unload" => turn' = turn
    BY <1>0 DEF Admitted, TypeOK
  <2> QED BY <1>1, <1>2, <2>1 DEF HasTurn, InLock
<1>7. TypeOK'
  BY <1>2, <1>5, <1>6, <1>0 DEF Admitted, TypeOK
<1>8. VictimStillLast'
  <2>1. pc'[r] = "unload" => loaded' # <<>> /\ victim'[r] = Head(loaded')
    BY <1>0 DEF Admitted, TypeOK
  <2> QED BY <1>6, <2>1 DEF VictimStillLast, InLock
<1>9. JobsOK'
  BY <1>0, <1>1, <1>2 DEF Admitted, JobsOK, InLock
<1> QED BY <1>7, <1>8, <1>9

\* And if what was listed covers what the server holds, so does what is listed now.
LEMMA AdmitList ==
  ASSUME TypeOK, JobsOK, ListOK,
         NEW r \in Requests, pc[r] \in InLock, HasTurn(r),
         NEW q \in Seq(Models), Distinct(q), Admit(r, q),
         Undisturbed' => Undisturbed /\ resident' \subseteq ToSet(q) /\ Len(q) <= limit,
         resident' = resident, limit' = limit, job' = job
  PROVE  ListOK'
<1> SUFFICES ASSUME Undisturbed'
             PROVE  /\ \A s \in Requests :
                         /\ pc'[s] # "idle" => job[s].limit = limit
                         /\ pc'[s] # "unloaded"
                    /\ resident \subseteq ToSet(loaded') /\ Len(loaded') <= limit
  BY DEF ListOK, Tracked
<1>0. Admitted(r, q)
  BY AdmitEffect
<1>1. /\ Undisturbed /\ resident \subseteq ToSet(q) /\ Len(q) <= limit
      /\ limit \in Nat /\ pc[r] # "idle" /\ job[r].limit = limit
  BY DEF ListOK, TypeOK, InLock, LimitsAssumption
<1>2. /\ pc'[r] \in {"ready", "unload"}
      /\ \A s \in Requests : s # r => pc'[s] = pc[s] /\ pc[s] \notin InLock \ {"queue"}
  <2>1. \A s \in Requests : pc[s] \in InLock \ {"queue"} => s = r
    BY PastLockAlone
  <2> QED BY <1>0, <2>1 DEF Admitted, TypeOK
<1>3. \A s \in Requests : pc'[s] # "unloaded" /\ (pc'[s] # "idle" => job[s].limit = limit)
  BY <1>1, <1>2 DEF ListOK, InLock
<1>4. /\ \A m : m \in ToSet(q) <=> Contains(q, m)
      /\ \A m : m \in ToSet(loaded') <=> Contains(loaded', m)
  <2>1. loaded' \in Seq(Models)
    BY <1>0 DEF Admitted
  <2> QED BY <2>1, ToSetContains
<1>5. resident \subseteq ToSet(loaded') /\ Len(loaded') <= limit
  <2>1. CASE pc'[r] = "ready"
    <3>1. /\ \A m : Contains(loaded', m) <=> Contains(q, m) \/ m = job[r].model
          /\ Len(q) \in Nat /\ Len(loaded') \in Nat
          /\ Len(loaded') <= Len(q) \/ Len(loaded') <= job[r].limit
      BY <2>1, <1>0 DEF Admitted, TypeOK
    <3> QED BY <1>1, <1>4, <3>1
  <2>2. CASE pc'[r] = "unload"
    <3>1. loaded' = q
      BY <2>2, <1>0 DEF Admitted, TypeOK
    <3> QED BY <1>1, <3>1
  <2> QED BY <1>2, <2>1, <2>2
<1> QED BY <1>3, <1>5

-----------------------------------------------------------------------------
(* The steps.                                                              *)

LEMMA ArriveKeeps ==
  ASSUME IInv, NEW r \in Requests, NEW m \in Models, Arrive(r, m)
  PROVE  IInv'
<1>1. /\ limit \in Nat /\ turn \in Seq(Requests) /\ Distinct(turn) /\ pc[r] = "idle"
      /\ job' = [job EXCEPT ![r] = [model |-> m, limit |-> limit]]
      /\ UNCHANGED <<limit, initialized, loaded, victim, resident, lapsed, raced>>
  BY DEF Arrive, historyVars, IInv, TypeOK, LimitsAssumption
<1>2. job' \in [Requests -> Jobs \cup {None}] /\ job'[r] \in Jobs /\ job'[r].limit = limit
  BY <1>1 DEF IInv, TypeOK, Jobs
<1>3. CASE limit < 1
  <2>1. pc' = [pc EXCEPT ![r] = "ready"] /\ turn' = turn
    BY <1>3 DEF Arrive, Goto
  <2>2. TypeOK'
    BY <1>1, <1>2, <2>1 DEF IInv, TypeOK, Phases, InLock, HasTurn
  <2>3. VictimStillLast' /\ JobsOK' /\ ListOK'
    BY <1>1, <1>2, <2>1 DEF IInv, TypeOK, VictimStillLast, JobsOK, ListOK, Undisturbed, Tracked, InLock
  <2> QED BY <2>2, <2>3 DEF IInv
<1>4. CASE ~(limit < 1)
  <2>1. pc' = [pc EXCEPT ![r] = "queue"] /\ turn' = Append(turn, r)
    BY <1>4 DEF Arrive, Goto
  <2>2. \A s : s \in ToSet(turn) <=> Contains(turn, s)
    BY <1>1, ToSetContains
  <2>3. ~Contains(turn, r)
    BY <1>1, <2>2 DEF IInv, TypeOK, InLock
  <2>4. /\ turn' \in Seq(Requests) /\ Distinct(turn')
        /\ \A s : Contains(turn', s) <=> Contains(turn, s) \/ s = r
    BY <1>1, <2>1, <2>3, AppendMembers
  <2>5. \A s : s \in ToSet(turn') <=> s \in ToSet(turn) \/ s = r
    <3>1. \A s : s \in ToSet(turn') <=> Contains(turn', s)
      BY <2>4, ToSetContains
    <3> QED BY <2>2, <2>4, <3>1
  <2>6. turn # <<>> => turn' # <<>> /\ Head(turn') = Head(turn)
    BY <1>1, <2>1
  <2>7. pc' \in [Requests -> Phases] /\ pc'[r] = "queue" /\ \A s \in Requests : s # r => pc'[s] = pc[s]
    BY <2>1 DEF IInv, TypeOK, Phases
  <2>8. \A s \in Requests : /\ s \in ToSet(turn') <=> pc'[s] \in InLock
                            /\ pc'[s] \in InLock \ {"queue"} => HasTurn(s)'
    <3> TAKE s \in Requests
    <3>1. /\ s \in ToSet(turn) <=> pc[s] \in InLock
          /\ pc[s] \in InLock \ {"queue"} => HasTurn(s)
      BY DEF IInv, TypeOK
    <3>2. "queue" \in InLock
      BY DEF InLock
    <3> QED BY <2>5, <2>6, <2>7, <3>1, <3>2 DEF HasTurn
  <2>9. TypeOK'
    BY <1>1, <1>2, <2>4, <2>7, <2>8 DEF IInv, TypeOK
  <2>10. VictimStillLast' /\ JobsOK' /\ ListOK'
    BY <1>1, <1>2, <1>4, <2>7 DEF IInv, TypeOK, VictimStillLast, JobsOK, ListOK, Undisturbed, Tracked, InLock
  <2> QED BY <2>9, <2>10 DEF IInv
<1> QED BY <1>3, <1>4

LEMMA EnterKeeps ==
  ASSUME IInv, NEW r \in Requests, Enter(r)
  PROVE  IInv'
<1>1. /\ TypeOK /\ VictimStillLast /\ JobsOK /\ ListOK
      /\ pc[r] = "queue" /\ pc[r] \in InLock /\ HasTurn(r)
      /\ limit' = limit /\ job' = job /\ resident' = resident /\ lapsed' = lapsed /\ raced' = raced
  BY DEF Enter, historyVars, IInv, InLock
<1>2. CASE initialized
  <2>1. Admit(r, loaded) /\ loaded \in Seq(Models) /\ Distinct(loaded)
    BY <1>1, <1>2 DEF Enter, TypeOK
  <2>2. resident' \subseteq Models /\ {lapsed', raced'} \subseteq BOOLEAN
    BY <1>1 DEF TypeOK
  <2>3. Undisturbed' => Undisturbed /\ resident' \subseteq ToSet(loaded) /\ Len(loaded) <= limit
    BY <1>1, <1>2 DEF Undisturbed, ListOK, JobsOK, Tracked, TypeOK, LimitsAssumption
  <2>4. TypeOK' /\ VictimStillLast' /\ JobsOK'
    BY <1>1, <2>1, <2>2, AdmitTypes
  <2>5. ListOK'
    BY <1>1, <2>1, <2>3, AdmitList
  <2> QED BY <2>4, <2>5 DEF IInv
<1>3. CASE ~initialized
  <2>1. pc' = [pc EXCEPT ![r] = "init"] /\ UNCHANGED <<initialized, loaded, victim, turn>>
    BY <1>3 DEF Enter, Goto
  <2>2. TypeOK'
    BY <1>1, <2>1 DEF TypeOK, Phases, InLock, HasTurn
  <2>3. VictimStillLast' /\ JobsOK' /\ ListOK'
    BY <1>1, <2>1 DEF TypeOK, VictimStillLast, JobsOK, ListOK, Undisturbed, Tracked, InLock
  <2> QED BY <2>2, <2>3 DEF IInv
<1> QED BY <1>2, <1>3

LEMMA InitializeKeeps ==
  ASSUME IInv, NEW r \in Requests, Initialize(r)
  PROVE  IInv'
<1>1. /\ TypeOK /\ VictimStillLast /\ JobsOK /\ ListOK
      /\ pc[r] = "init" /\ pc[r] \in InLock /\ HasTurn(r)
      /\ limit' = limit /\ job' = job /\ resident' = resident /\ raced' = raced
      /\ resident \in SUBSET Models /\ resident' \subseteq Models /\ raced' \in BOOLEAN
  BY DEF Initialize, IInv, InLock, TypeOK
<1>2. job[r].limit \in Nat
  BY <1>1 DEF JobsOK, Jobs, LimitsAssumption
<1>3. ASSUME NEW q \in SetToSeqs(resident), Admit(r, q), lapsed' = (lapsed \/ Len(q) > job[r].limit)
      PROVE  IInv'
  <2>1. IsFiniteSet(resident)
    BY <1>1, FS_Subset DEF ModelsAssumption
  <2>2. q \in Seq(Models) /\ Distinct(q) /\ ToSet(q) = resident
    BY <1>1, <2>1, SetToSeqsProperties
  <2>3. Len(q) \in Nat
    BY <2>2, LenProperties
  <2>4. {lapsed', raced'} \subseteq BOOLEAN
    BY <1>1, <1>3 DEF TypeOK
  <2>5. Undisturbed' => Undisturbed /\ resident' \subseteq ToSet(q) /\ Len(q) <= limit
    <3> SUFFICES ASSUME Undisturbed'
                 PROVE  Undisturbed /\ resident' \subseteq ToSet(q) /\ Len(q) <= limit
      OBVIOUS
    <3>1. Undisturbed /\ ~(Len(q) > job[r].limit)
      BY <1>1, <1>3 DEF Undisturbed, TypeOK
    <3>2. job[r].limit = limit
      BY <1>1, <3>1 DEF ListOK
    <3> QED BY <1>1, <1>2, <2>2, <2>3, <3>1, <3>2
  <2>6. TypeOK' /\ VictimStillLast' /\ JobsOK'
    BY <1>1, <1>3, <2>2, <2>4, AdmitTypes
  <2>7. ListOK'
    BY <1>1, <1>3, <2>2, <2>5, AdmitList
  <2> QED BY <2>6, <2>7 DEF IInv
<1>4. ASSUME Admit(r, <<>>), lapsed' = (lapsed \/ resident # {})
      PROVE  IInv'
  <2>1. <<>> \in Seq(Models) /\ Distinct(<<>>) /\ Len(<<>>) = 0
    BY EmptySeq DEF Distinct
  <2>2. {lapsed', raced'} \subseteq BOOLEAN
    BY <1>1, <1>4 DEF TypeOK
  <2>3. Undisturbed' => Undisturbed /\ resident' \subseteq ToSet(<<>>) /\ Len(<<>>) <= limit
    <3>1. limit \in Nat
      BY <1>1 DEF TypeOK, LimitsAssumption
    <3>2. Undisturbed' => Undisturbed /\ resident = {}
      BY <1>1, <1>4 DEF Undisturbed, TypeOK
    <3> QED BY <1>1, <2>1, <3>1, <3>2
  <2>4. TypeOK' /\ VictimStillLast' /\ JobsOK'
    BY <1>1, <1>4, <2>1, <2>2, AdmitTypes
  <2>5. ListOK'
    BY <1>1, <1>4, <2>1, <2>3, AdmitList
  <2> QED BY <2>4, <2>5 DEF IInv
<1> QED BY <1>3, <1>4 DEF Initialize

LEMMA UnloadKeeps ==
  ASSUME IInv, NEW r \in Requests, Unload(r)
  PROVE  IInv'
<1>1. /\ TypeOK /\ VictimStillLast /\ JobsOK /\ ListOK
      /\ pc[r] = "unload" /\ pc' = [pc EXCEPT ![r] = "unloaded"]
      /\ UNCHANGED <<limit, initialized, loaded, turn, job, victim, raced>>
      /\ \/ resident' = resident \ {victim[r]} /\ lapsed' = lapsed
         \/ lapsed' = TRUE /\ resident' = resident
  BY DEF Unload, Goto, IInv
<1>2. TypeOK'
  BY <1>1 DEF TypeOK, Phases, InLock, HasTurn
<1>3. VictimStillLast' /\ JobsOK'
  BY <1>1 DEF TypeOK, VictimStillLast, JobsOK, InLock
<1>4. ListOK'
  BY <1>1 DEF TypeOK, ListOK, Undisturbed, Tracked
<1> QED BY <1>2, <1>3, <1>4 DEF IInv

LEMMA ResumeKeeps ==
  ASSUME IInv, NEW r \in Requests, Resume(r)
  PROVE  IInv'
<1> DEFINE q == Without(loaded, victim[r])
<1>1. /\ TypeOK /\ VictimStillLast /\ JobsOK /\ ListOK
      /\ pc[r] = "unloaded" /\ pc[r] \in InLock /\ HasTurn(r) /\ Admit(r, q)
      /\ limit' = limit /\ job' = job /\ resident' = resident /\ lapsed' = lapsed /\ raced' = raced
      /\ loaded \in Seq(Models) /\ Distinct(loaded) /\ limit \in Nat
      /\ resident' \subseteq Models /\ {lapsed', raced'} \subseteq BOOLEAN
  BY DEF Resume, historyVars, IInv, InLock, TypeOK, LimitsAssumption
<1>2. /\ q \in Seq(Models) /\ Distinct(q)
      /\ \A m : Contains(q, m) <=> Contains(loaded, m) /\ m # victim[r]
      /\ Len(q) = IF Contains(loaded, victim[r]) THEN Len(loaded) - 1 ELSE Len(loaded)
  BY <1>1, WithoutMembers
<1> HIDE DEF q
<1>3. /\ Len(loaded) \in Nat
      /\ \A m : m \in ToSet(loaded) <=> Contains(loaded, m)
      /\ \A m : m \in ToSet(q) <=> Contains(q, m)
  BY <1>1, <1>2, ToSetContains
<1>4. Undisturbed' => Undisturbed /\ resident' \subseteq ToSet(q) /\ Len(q) <= limit
  <2> SUFFICES ASSUME Undisturbed'
               PROVE  Undisturbed /\ resident \subseteq ToSet(q) /\ Len(q) <= limit
    BY <1>1
  <2>1. Undisturbed
    BY <1>1 DEF Undisturbed
  <2>2. limit > 0 /\ initialized
    BY <1>1, <2>1 DEF ListOK, JobsOK, InLock
  <2>3. resident \subseteq ToSet(loaded) /\ Len(loaded) <= limit /\ victim[r] \notin resident
    BY <1>1, <2>1, <2>2 DEF ListOK, Tracked
  <2>4. resident \subseteq ToSet(q)
    BY <1>2, <1>3, <2>3
  <2>5. Len(q) <= limit
    BY <1>1, <1>2, <1>3, <2>3
  <2> QED BY <2>1, <2>4, <2>5
<1>5. TypeOK' /\ VictimStillLast' /\ JobsOK'
  BY <1>1, <1>2, AdmitTypes
<1>6. ListOK'
  BY <1>1, <1>2, <1>4, AdmitList
<1> QED BY <1>5, <1>6 DEF IInv

\* Outside the lock only the server's memory, and whether a dropped model is loaded again,
\* are at stake.
LEMMA ForwardKeeps ==
  ASSUME IInv, NEW r \in Requests, Forward(r)
  PROVE  IInv'
<1>1. /\ TypeOK /\ VictimStillLast /\ JobsOK /\ ListOK
      /\ pc[r] = "ready" /\ pc' = [pc EXCEPT ![r] = "running"]
      /\ resident' = resident \cup {job[r].model}
      /\ raced' = (raced \/ Dropped(job[r].model))
      /\ UNCHANGED <<limit, initialized, loaded, turn, job, victim, lapsed>>
  BY DEF Forward, Goto, IInv
<1>2. job[r].model \in Models
  BY <1>1 DEF JobsOK, Jobs
<1>3. raced' \in BOOLEAN
  BY <1>1 DEF Dropped, TypeOK
<1>4. TypeOK'
  BY <1>1, <1>2, <1>3 DEF TypeOK, Phases, InLock, HasTurn
<1>5. VictimStillLast' /\ JobsOK'
  BY <1>1 DEF TypeOK, VictimStillLast, JobsOK, InLock
<1>6. ListOK'
  <2> SUFFICES ASSUME Undisturbed' PROVE ListOK'
    BY DEF ListOK
  <2>1. Undisturbed /\ ~Dropped(job[r].model)
    BY <1>1 DEF Undisturbed
  <2>2. job[r].model \in Tracked /\ \A s \in Requests : victim[s] # job[r].model
    BY <2>1 DEF Dropped
  <2>3. \A s \in Requests : /\ pc'[s] # "idle" => pc[s] # "idle"
                            /\ pc'[s] = "unloaded" => pc[s] = "unloaded"
    BY <1>1 DEF TypeOK
  <2> QED BY <1>1, <2>1, <2>2, <2>3 DEF ListOK, Tracked
<1> QED BY <1>4, <1>5, <1>6 DEF IInv

LEMMA OutsideKeeps ==
  ASSUME IInv, NEW r \in Requests, Again(r) \/ Finish(r)
  PROVE  IInv'
<1>1. /\ TypeOK /\ VictimStillLast /\ JobsOK /\ ListOK
      /\ pc[r] \in {"ready", "running"}
      /\ \/ pc' = [pc EXCEPT ![r] = "ready"] /\ job' = job
         \/ pc' = [pc EXCEPT ![r] = "idle"] /\ job' = [job EXCEPT ![r] = None]
      /\ UNCHANGED <<limit, initialized, loaded, turn, victim, resident, lapsed, raced>>
  BY DEF Again, Finish, Goto, historyVars, IInv
<1>2. TypeOK'
  BY <1>1 DEF TypeOK, Phases, InLock, HasTurn
<1>3. VictimStillLast' /\ JobsOK'
  BY <1>1 DEF TypeOK, VictimStillLast, JobsOK, InLock
<1>4. ListOK'
  BY <1>1 DEF TypeOK, ListOK, Undisturbed, Tracked
<1> QED BY <1>2, <1>3, <1>4 DEF IInv

LEMMA ReconfigureKeeps ==
  ASSUME IInv, NEW n \in Limits, Reconfigure(n)
  PROVE  IInv'
<1>1. /\ TypeOK /\ VictimStillLast /\ JobsOK /\ limit' = n /\ lapsed' = TRUE
      /\ UNCHANGED <<initialized, loaded, turn, pc, job, victim, resident, raced>>
  BY DEF Reconfigure, IInv
<1>2. TypeOK'
  BY <1>1 DEF TypeOK, HasTurn
<1>3. VictimStillLast' /\ JobsOK' /\ ListOK'
  BY <1>1 DEF VictimStillLast, JobsOK, ListOK, Undisturbed
<1> QED BY <1>2, <1>3 DEF IInv

-----------------------------------------------------------------------------
(* The theorems.                                                           *)

\* The inductive invariant of the tracker.
THEOREM Invariance == Spec => []IInv
<1>1. Init => IInv
  <2> SUFFICES ASSUME Init PROVE IInv
    OBVIOUS
  <2>1. <<>> \in Seq(Models) /\ <<>> \in Seq(Requests) /\ Len(<<>>) = 0 /\ ToSet(<<>>) = {}
    BY EmptySeq DEF ToSet
  <2>2. Distinct(<<>>)
    BY DEF Distinct
  <2>3. TypeOK
    BY <2>1, <2>2 DEF Init, TypeOK, Phases, InLock
  <2>4. VictimStillLast /\ JobsOK /\ ListOK
    BY DEF Init, VictimStillLast, JobsOK, ListOK, InLock
  <2> QED BY <2>3, <2>4 DEF IInv
<1>2. IInv /\ [Next]_vars => IInv'
  <2> SUFFICES ASSUME IInv, [Next]_vars PROVE IInv'
    OBVIOUS
  <2>1. ASSUME NEW n \in Limits, Reconfigure(n) PROVE IInv'
    BY <2>1, ReconfigureKeeps
  <2>2. ASSUME NEW r \in Requests, NEW m \in Models, Arrive(r, m) PROVE IInv'
    BY <2>2, ArriveKeeps
  <2>3. ASSUME NEW r \in Requests, Ensure(r) PROVE IInv'
    BY <2>3, EnterKeeps, InitializeKeeps, UnloadKeeps, ResumeKeeps DEF Ensure
  <2>4. ASSUME NEW r \in Requests, Forward(r) PROVE IInv'
    BY <2>4, ForwardKeeps
  <2>5. ASSUME NEW r \in Requests, Again(r) \/ Finish(r) PROVE IInv'
    BY <2>5, OutsideKeeps
  <2>6. CASE UNCHANGED vars
    BY <2>6 DEF vars, trackerVars, historyVars, IInv, TypeOK, HasTurn, VictimStillLast, JobsOK,
                ListOK, Undisturbed, Tracked
  <2> QED BY <2>1, <2>2, <2>3, <2>4, <2>5, <2>6 DEF Next
<1> QED BY <1>1, <1>2, PTL DEF Spec

\* Type correctness, and that of those inside ensure_capacity only the first in line is
\* past its lock.
THEOREM TypeCorrectness == Spec => []TypeOK
<1>1. IInv => TypeOK
  BY DEF IInv
<1> QED BY <1>1, Invariance, PTL

\* For any number of requests and models: the model that is unloaded is listed, and still
\* the least recently used one, until the unload call is answered.
THEOREM VictimStays == Spec => []VictimStillLast
<1>1. IInv => VictimStillLast
  BY DEF IInv
<1> QED BY <1>1, Invariance, PTL

\* For any number of requests and models and any max_models: the server holds no more
\* models than max_models, unless a management call failed, the setting was edited, or a
\* request reached the server after its model was dropped.
THEOREM CapExceededByRacesOnly == Spec => []CapUnlessRaced
<1>1. IInv => CapUnlessRaced
  <2> SUFFICES ASSUME IInv, ~lapsed, ~raced, limit > 0, initialized
               PROVE  Cardinality(resident) <= limit
    BY DEF CapUnlessRaced
  <2>1. resident \subseteq ToSet(loaded) /\ Len(loaded) <= limit
    BY DEF IInv, ListOK, Undisturbed, Tracked
  <2>2. loaded \in Seq(Models) /\ limit \in Nat
    BY DEF IInv, TypeOK, LimitsAssumption
  <2>3. IsFiniteSet(ToSet(loaded)) /\ Cardinality(ToSet(loaded)) <= Len(loaded)
    BY <2>2, ToSetCardinality
  <2>4. IsFiniteSet(resident) /\ Cardinality(resident) <= Cardinality(ToSet(loaded))
    BY <2>1, <2>3, FS_Subset
  <2>5. /\ Cardinality(resident) \in Nat /\ Cardinality(ToSet(loaded)) \in Nat
        /\ Len(loaded) \in Nat
    BY <2>2, <2>3, <2>4, FS_CardinalityType, LenProperties
  <2> QED BY <2>1, <2>2, <2>3, <2>4, <2>5
<1> QED BY <1>1, Invariance, PTL
=============================================================================
