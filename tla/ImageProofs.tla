---------------------------- MODULE ImageProofs ----------------------------
(***************************************************************************)
(* Proofs about the image runtime: the schedulers' accounts, queues and    *)
(* rotations, and the generations, for any of them, any jobs and bounds.   *)
(***************************************************************************)
EXTENDS ImageRuntime, WaitlistProofs, FiniteSetTheorems, TLAPS

(* A scheduler that was shut down has nobody waiting.                      *)
NoneAtClosed == \A p \in Places : p[1] \in shuttingDown => tenantOrder[p] = << >>

SchedInv ==
  /\ SchedTypeOK
  /\ WaitingCounted
  /\ QueuesExact
  /\ RotationExact
  /\ FullWhileWaiting
  /\ NoneAtClosed

-----------------------------------------------------------------------------
(* Counting.                                                               *)

LEMMA PlaceParts ==
  /\ \A p \in Places : p[1] \in Schedulers
  /\ \A s \in Schedulers, a \in Accounts : <<s, a>> \in Places /\ <<s, a>>[1] = s
  /\ Nowhere \in Places
<1>1. \A s \in Schedulers, a \in Accounts : <<s, a>> \in Places /\ <<s, a>>[1] = s
  BY DEF Places
<1>2. \E s \in Schedulers, a \in Accounts : TRUE
  BY SchedulerAssumption
<1>3. Nowhere \in Places
  BY <1>1, <1>2 DEF Nowhere
<1> QED
  BY <1>1, <1>3 DEF Places

LEMMA JobsCounted ==
  ASSUME NEW S, S \subseteq Jobs
  PROVE  IsFiniteSet(S) /\ Cardinality(S) \in Nat
BY SchedulerAssumption, FS_Subset, FS_CardinalityType

LEMMA OneMore ==
  ASSUME NEW S, S \subseteq Jobs, NEW j \in Jobs, j \notin S
  PROVE  Cardinality(S \cup {j}) = Cardinality(S) + 1
BY JobsCounted, FS_AddElement

LEMMA OneFewer ==
  ASSUME NEW S, S \subseteq Jobs, NEW j \in S
  PROVE  Cardinality(S) >= 1 /\ Cardinality(S \ {j}) = Cardinality(S) - 1
<1>1. S \ {j} \subseteq Jobs /\ j \notin S \ {j} /\ S = (S \ {j}) \cup {j} /\ j \in Jobs
  OBVIOUS
<1>2. Cardinality(S) = Cardinality(S \ {j}) + 1
  BY <1>1, OneMore
<1> QED
  BY <1>1, <1>2, JobsCounted

LEMMA NoneCounted == Cardinality({}) = 0
BY FS_EmptySet

(* The step leaves the accounts alone, and who waits and runs where.       *)
LEMMA NothingMoves ==
  ASSUME SchedInv,
         UNCHANGED <<activeJobs, tenantQueues, tenantOrder, waitingJobs, shuttingDown>>,
         \A i \in Jobs : /\ Waiting(i)' <=> Waiting(i)
                         /\ job'[i] = "running" <=> job[i] = "running"
                         /\ job[i] \in {"waiting", "running"} => place'[i] = place[i]
  PROVE  /\ WaitingCounted' /\ QueuesExact' /\ RotationExact' /\ FullWhileWaiting'
         /\ NoneAtClosed'
<1>1. \A s \in Schedulers : WaitingAt(s)' = WaitingAt(s)
  BY DEF WaitingAt, Waiting
<1>2. \A p \in Places : RunningAt(p)' = RunningAt(p)
  BY DEF RunningAt
<1>3. WaitingCounted'
  BY <1>1 DEF WaitingCounted, SchedInv
<1>4. FullWhileWaiting'
  BY <1>2 DEF FullWhileWaiting, SchedInv
<1>5. QueuesExact'
  BY DEF QueuesExact, SchedInv, Waiting
<1> QED
  BY <1>3, <1>4, <1>5 DEF SchedInv, RotationExact, NoneAtClosed

LEMMA IdleStep ==
  ASSUME SchedInv, NEW j \in Jobs,
         \/ Enter(j) \/ AcquireRefused(j) \/ Leave(j)
         \/ \E p \in Places : AcquireFull(j, p)
  PROVE  SchedInv'
<1>1. /\ UNCHANGED <<activeJobs, tenantQueues, tenantOrder, waitingJobs, shuttingDown>>
      /\ job[j] \notin {"waiting", "running"} /\ job'[j] \notin {"waiting", "running"}
      /\ \A i \in Jobs : i # j => job'[i] = job[i] /\ place'[i] = place[i]
      /\ job' \in [Jobs -> JobPhases] /\ place' \in [Jobs -> Places]
  <2> USE DEF SchedInv, SchedTypeOK, JobPhases
  <2>1. CASE Enter(j)
    BY <2>1 DEF Enter
  <2>2. CASE AcquireRefused(j)
    BY <2>2 DEF AcquireRefused
  <2>3. CASE Leave(j)
    BY <2>3, PlaceParts DEF Leave
  <2>4. CASE \E p \in Places : AcquireFull(j, p)
    BY <2>4 DEF AcquireFull, Submit
  <2> QED BY <2>1, <2>2, <2>3, <2>4
<1>2. SchedTypeOK'
  BY <1>1 DEF SchedInv, SchedTypeOK
<1>3. \A i \in Jobs : /\ Waiting(i)' <=> Waiting(i)
                      /\ job'[i] = "running" <=> job[i] = "running"
                      /\ job[i] \in {"waiting", "running"} => place'[i] = place[i]
  BY <1>1 DEF Waiting
<1> QED
  BY <1>1, <1>2, <1>3, NothingMoves DEF SchedInv

LEMMA GrantedStep ==
  ASSUME SchedInv, NEW j \in Jobs, NEW p \in Places, AcquireGranted(j, p)
  PROVE  SchedInv'
<1>1. /\ UNCHANGED <<tenantQueues, tenantOrder, waitingJobs, shuttingDown>>
      /\ job[j] = "ready" /\ job'[j] = "running" /\ place'[j] = p
      /\ \A i \in Jobs : i # j => job'[i] = job[i] /\ place'[i] = place[i]
      /\ activeJobs'[p] = activeJobs[p] + 1
      /\ \A q \in Places : q # p => activeJobs'[q] = activeJobs[q]
      /\ activeJobs[p] < MaxActive[p[1]]
  BY DEF AcquireGranted, Submit, HasSlot, SchedInv, SchedTypeOK
<1>2. SchedTypeOK'
  BY DEF AcquireGranted, Submit, SchedInv, SchedTypeOK, JobPhases
<1>3. \A s \in Schedulers : WaitingAt(s)' = WaitingAt(s)
  BY <1>1 DEF WaitingAt, Waiting
<1>4. WaitingCounted'
  BY <1>1, <1>3 DEF WaitingCounted, SchedInv
<1>5. QueuesExact'
  BY <1>1 DEF QueuesExact, SchedInv, Waiting
<1>6. FullWhileWaiting'
  <2> SUFFICES ASSUME NEW q \in Places
               PROVE  /\ activeJobs'[q] = Cardinality(RunningAt(q)')
                      /\ activeJobs'[q] <= MaxActive[q[1]]
                      /\ tenantOrder'[q] # << >> => activeJobs'[q] = MaxActive[q[1]]
    BY DEF FullWhileWaiting
  <2>1. CASE q = p
    <3>1. RunningAt(p)' = RunningAt(p) \cup {j} /\ j \notin RunningAt(p)
          /\ RunningAt(p) \subseteq Jobs
      BY <1>1 DEF RunningAt
    <3>2. Cardinality(RunningAt(p)') = Cardinality(RunningAt(p)) + 1
      BY <3>1, OneMore
    <3>3. p[1] \in Schedulers /\ MaxActive[p[1]] \in Nat /\ activeJobs[p] \in Nat
      BY PlaceParts, SchedulerAssumption DEF SchedInv, SchedTypeOK
    <3> QED BY <1>1, <2>1, <3>2, <3>3 DEF SchedInv, FullWhileWaiting
  <2>2. CASE q # p
    <3>1. RunningAt(q)' = RunningAt(q)
      BY <1>1, <2>2 DEF RunningAt
    <3> QED BY <1>1, <2>2, <3>1 DEF SchedInv, FullWhileWaiting
  <2> QED BY <2>1, <2>2
<1> QED
  BY <1>1, <1>2, <1>4, <1>5, <1>6 DEF SchedInv, RotationExact, NoneAtClosed

-----------------------------------------------------------------------------
(* A waiter more, a waiter less.                                           *)

LEMMA WaiterJoins ==
  ASSUME NEW j \in Jobs, NEW p \in Places, ~Waiting(j), Waiting(j)', place'[j] = p,
         \A i \in Jobs : i # j => (Waiting(i)' <=> Waiting(i)) /\ place'[i] = place[i]
  PROVE  /\ Cardinality(WaitingAt(p[1])') = Cardinality(WaitingAt(p[1])) + 1
         /\ \A s \in Schedulers : s # p[1] => WaitingAt(s)' = WaitingAt(s)
<1>1. WaitingAt(p[1])' = WaitingAt(p[1]) \cup {j} /\ j \notin WaitingAt(p[1])
      /\ WaitingAt(p[1]) \subseteq Jobs
  BY DEF WaitingAt
<1>2. \A s \in Schedulers : s # p[1] => WaitingAt(s)' = WaitingAt(s)
  BY DEF WaitingAt
<1> QED
  BY <1>1, <1>2, OneMore

LEMMA WaiterGoes ==
  ASSUME NEW j \in Jobs, NEW p \in Places, Waiting(j), ~Waiting(j)', place[j] = p,
         \A i \in Jobs : i # j => (Waiting(i)' <=> Waiting(i)) /\ place'[i] = place[i]
  PROVE  /\ Cardinality(WaitingAt(p[1])) >= 1
         /\ Cardinality(WaitingAt(p[1])') = Cardinality(WaitingAt(p[1])) - 1
         /\ \A s \in Schedulers : s # p[1] => WaitingAt(s)' = WaitingAt(s)
<1>1. WaitingAt(p[1])' = WaitingAt(p[1]) \ {j} /\ j \in WaitingAt(p[1])
      /\ WaitingAt(p[1]) \subseteq Jobs
  BY DEF WaitingAt
<1>2. \A s \in Schedulers : s # p[1] => WaitingAt(s)' = WaitingAt(s)
  BY DEF WaitingAt
<1> QED
  BY <1>1, <1>2, OneFewer

LEMMA QueuedStep ==
  ASSUME SchedInv, NEW j \in Jobs, NEW p \in Places, AcquireQueued(j, p)
  PROVE  SchedInv'
<1> DEFINE t == TenantOf[j]
           old == tenantQueues[p][t]
<1>1. t \in Tenants /\ p[1] \in Schedulers /\ MaxActive[p[1]] \in Nat
      /\ MaxQueued[p[1]] \in Nat
  BY PlaceParts, SchedulerAssumption
<1>2. /\ UNCHANGED <<activeJobs, shuttingDown>>
      /\ job[j] = "ready" /\ job'[j] = "waiting" /\ place'[j] = p
      /\ \A i \in Jobs : i # j => job'[i] = job[i] /\ place'[i] = place[i]
      /\ p[1] \notin shuttingDown
  BY DEF AcquireQueued, Submit, SchedInv, SchedTypeOK
<1>3. /\ activeJobs[p] >= MaxActive[p[1]] /\ waitingJobs[p[1]] < MaxQueued[p[1]]
      /\ waitingJobs'[p[1]] = waitingJobs[p[1]] + 1
      /\ \A s \in Schedulers : s # p[1] => waitingJobs'[s] = waitingJobs[s]
  BY <1>1 DEF AcquireQueued, HasSlot, QueueFull, SchedInv, SchedTypeOK
<1>4. /\ tenantQueues'[p][t] = Append(old, j)
      /\ \A q \in Places, u \in Tenants :
           q # p \/ u # t => tenantQueues'[q][u] = tenantQueues[q][u]
  BY <1>1 DEF AcquireQueued, SchedInv, SchedTypeOK
<1>5. /\ tenantOrder'[p] = IF old = << >> THEN Append(tenantOrder[p], t) ELSE tenantOrder[p]
      /\ \A q \in Places : q # p => tenantOrder'[q] = tenantOrder[q]
  BY DEF AcquireQueued, JoinRotation, SchedInv, SchedTypeOK
<1>6. old \in Seq(Jobs) /\ Distinct(old) /\ ~Queued(old, j)
  BY <1>1, <1>2 DEF SchedInv, SchedTypeOK, QueuesExact, Waiting
<1>7. /\ Append(old, j) # << >> /\ Distinct(Append(old, j))
      /\ \A i : Queued(Append(old, j), i) <=> i = j \/ Queued(old, i)
  BY <1>6, AppendQueued
<1>8. tenantOrder[p] \in Seq(Tenants) /\ Distinct(tenantOrder[p])
      /\ \A u \in Tenants : Queued(tenantOrder[p], u) <=> tenantQueues[p][u] # << >>
  BY DEF SchedInv, SchedTypeOK, RotationExact
<1>9. SchedTypeOK'
  <2>1. tenantQueues' \in [Places -> [Tenants -> Seq(Jobs)]]
    <3>1. Append(old, j) \in Seq(Jobs)
      BY <1>6
    <3>2. tenantQueues' = [tenantQueues EXCEPT ![p][t] = Append(old, j)]
      BY DEF AcquireQueued
    <3> QED BY <1>1, <3>1, <3>2 DEF SchedInv, SchedTypeOK
  <2>2. tenantOrder' \in [Places -> Seq(Tenants)]
    <3>1. \/ tenantOrder' = [tenantOrder EXCEPT ![p] = Append(tenantOrder[p], t)]
          \/ tenantOrder' = tenantOrder
      BY DEF AcquireQueued, JoinRotation
    <3>2. Append(tenantOrder[p], t) \in Seq(Tenants)
      BY <1>1, <1>8
    <3> QED BY <3>1, <3>2 DEF SchedInv, SchedTypeOK
  <2>3. waitingJobs' \in [Schedulers -> Nat]
    <3>1. waitingJobs' = [waitingJobs EXCEPT ![p[1]] = waitingJobs[p[1]] + 1]
      BY DEF AcquireQueued
    <3>2. waitingJobs \in [Schedulers -> Nat]
      BY DEF SchedInv, SchedTypeOK
    <3> QED BY <1>1, <3>1, <3>2
  <2>4. job' \in [Jobs -> JobPhases] /\ place' \in [Jobs -> Places]
    BY DEF AcquireQueued, Submit, SchedInv, SchedTypeOK, JobPhases
  <2> QED BY <1>2, <2>1, <2>2, <2>3, <2>4 DEF SchedInv, SchedTypeOK
<1>10. WaitingCounted'
  <2>1. /\ Cardinality(WaitingAt(p[1])') = Cardinality(WaitingAt(p[1])) + 1
        /\ \A s \in Schedulers : s # p[1] => WaitingAt(s)' = WaitingAt(s)
    BY <1>2, WaiterJoins DEF Waiting
  <2>2. waitingJobs[p[1]] \in Nat
    BY <1>1 DEF SchedInv, SchedTypeOK
  <2> QED BY <1>1, <1>3, <2>1, <2>2 DEF SchedInv, WaitingCounted
<1>11. QueuesExact'
  <2> SUFFICES ASSUME NEW q \in Places, NEW u \in Tenants
               PROVE  /\ Distinct(tenantQueues'[q][u])
                      /\ \A i \in Jobs : Queued(tenantQueues'[q][u], i)
                           <=> Waiting(i)' /\ place'[i] = q /\ TenantOf[i] = u
    BY DEF QueuesExact
  <2>1. CASE q = p /\ u = t
    <3>1. \A i \in Jobs : Queued(old, i) <=> job[i] = "waiting" /\ place[i] = p /\ TenantOf[i] = t
      BY <1>1 DEF SchedInv, QueuesExact, Waiting
    <3>2. \A i \in Jobs : Queued(tenantQueues'[q][u], i) <=> i = j \/ Queued(old, i)
      BY <1>4, <1>7, <2>1
    <3>3. Distinct(tenantQueues'[q][u])
      BY <1>4, <1>7, <2>1
    <3> QED BY <1>2, <2>1, <3>1, <3>2, <3>3 DEF Waiting
  <2>2. CASE q # p \/ u # t
    BY <1>2, <1>4, <2>2 DEF SchedInv, QueuesExact, Waiting
  <2> QED BY <2>1, <2>2
<1>12. RotationExact'
  <2> SUFFICES ASSUME NEW q \in Places
               PROVE  /\ Distinct(tenantOrder'[q])
                      /\ \A u \in Tenants :
                           Queued(tenantOrder'[q], u) <=> tenantQueues'[q][u] # << >>
    BY DEF RotationExact
  <2>1. CASE q = p /\ old = << >>
    <3>1. ~Queued(tenantOrder[p], t)
      BY <1>1, <1>8, <2>1
    <3>2. /\ Distinct(Append(tenantOrder[p], t))
          /\ \A u : Queued(Append(tenantOrder[p], t), u) <=> u = t \/ Queued(tenantOrder[p], u)
      BY <1>1, <1>8, <3>1, AppendQueued
    <3> QED BY <1>1, <1>4, <1>5, <1>7, <1>8, <2>1, <3>2
  <2>2. CASE q = p /\ old # << >>
    BY <1>1, <1>4, <1>5, <1>7, <1>8, <2>2
  <2>3. CASE q # p
    BY <1>4, <1>5, <2>3 DEF SchedInv, RotationExact
  <2> QED BY <2>1, <2>2, <2>3
<1>13. FullWhileWaiting'
  <2>1. \A q \in Places : RunningAt(q)' = RunningAt(q)
    BY <1>2 DEF RunningAt
  <2>2. activeJobs[p] = MaxActive[p[1]]
    <3>1. activeJobs[p] \in Nat /\ activeJobs[p] <= MaxActive[p[1]]
      BY DEF SchedInv, SchedTypeOK, FullWhileWaiting
    <3> QED BY <1>1, <1>3, <3>1
  <2> QED BY <1>2, <1>5, <2>1, <2>2 DEF SchedInv, FullWhileWaiting
<1>14. NoneAtClosed'
  BY <1>2, <1>5 DEF SchedInv, NoneAtClosed
<1> QED
  BY <1>9, <1>10, <1>11, <1>12, <1>13, <1>14 DEF SchedInv

LEMMA RemoveStep ==
  ASSUME SchedInv, NEW j \in Jobs, RemoveWaiter(j), NEW p \in Places, p = place[j]
  PROVE  SchedInv'
<1> DEFINE t == TenantOf[j]
           old == tenantQueues[p][t]
           left == Without(old, j)
<1>1. t \in Tenants /\ p[1] \in Schedulers
  BY PlaceParts, SchedulerAssumption
<1>2. /\ UNCHANGED <<activeJobs, shuttingDown, place>>
      /\ job[j] = "waiting" /\ job'[j] = "over"
      /\ \A i \in Jobs : i # j => job'[i] = job[i]
  BY DEF RemoveWaiter, SchedInv, SchedTypeOK
<1>3. old \in Seq(Jobs) /\ Distinct(old) /\ Queued(old, j)
  BY <1>1, <1>2 DEF SchedInv, SchedTypeOK, QueuesExact, Waiting
<1>4. left \in Seq(Jobs) /\ Distinct(left) /\ \A i : Queued(left, i) <=> i # j /\ Queued(old, i)
  BY <1>3, WithoutQueued
<1>5. /\ tenantQueues'[p][t] = left
      /\ \A q \in Places, u \in Tenants :
           q # p \/ u # t => tenantQueues'[q][u] = tenantQueues[q][u]
  BY <1>1 DEF RemoveWaiter, SchedInv, SchedTypeOK
<1>6. tenantOrder[p] \in Seq(Tenants) /\ Distinct(tenantOrder[p])
      /\ \A u \in Tenants : Queued(tenantOrder[p], u) <=> tenantQueues[p][u] # << >>
  BY <1>1 DEF SchedInv, SchedTypeOK, RotationExact
<1>7. old # << >> /\ Queued(tenantOrder[p], t)
  <2>1. old # << >>
    BY <1>3 DEF Queued
  <2> QED BY <1>1, <1>6, <2>1
<1>8. /\ Without(tenantOrder[p], t) \in Seq(Tenants)
      /\ Distinct(Without(tenantOrder[p], t))
      /\ \A u : Queued(Without(tenantOrder[p], t), u) <=> u # t /\ Queued(tenantOrder[p], u)
  BY <1>6, <1>7, WithoutQueued
<1>9. /\ tenantOrder'[p] = IF left = << >> THEN Without(tenantOrder[p], t) ELSE tenantOrder[p]
      /\ \A q \in Places : q # p => tenantOrder'[q] = tenantOrder[q]
  BY <1>1 DEF RemoveWaiter, SchedInv, SchedTypeOK
<1>10. /\ waitingJobs'[p[1]] = OneLess(waitingJobs[p[1]]) /\ waitingJobs[p[1]] \in Nat
       /\ \A s \in Schedulers : s # p[1] => waitingJobs'[s] = waitingJobs[s]
  BY <1>1 DEF RemoveWaiter, SchedInv, SchedTypeOK
<1>11. SchedTypeOK'
  <2>1. tenantQueues' \in [Places -> [Tenants -> Seq(Jobs)]]
    <3>1. tenantQueues' = [tenantQueues EXCEPT ![p][t] = left]
      BY DEF RemoveWaiter
    <3> QED BY <1>1, <1>4, <3>1 DEF SchedInv, SchedTypeOK
  <2>2. tenantOrder' \in [Places -> Seq(Tenants)]
    BY <1>1, <1>8 DEF RemoveWaiter, SchedInv, SchedTypeOK
  <2>3. waitingJobs' \in [Schedulers -> Nat]
    BY <1>1 DEF RemoveWaiter, OneLess, SchedInv, SchedTypeOK
  <2>4. job' \in [Jobs -> JobPhases]
    BY DEF RemoveWaiter, SchedInv, SchedTypeOK, JobPhases
  <2> QED BY <1>2, <2>1, <2>2, <2>3, <2>4 DEF SchedInv, SchedTypeOK
<1>12. WaitingCounted'
  <2>1. /\ Cardinality(WaitingAt(p[1])) >= 1
        /\ Cardinality(WaitingAt(p[1])') = Cardinality(WaitingAt(p[1])) - 1
        /\ \A s \in Schedulers : s # p[1] => WaitingAt(s)' = WaitingAt(s)
    BY <1>1, <1>2, WaiterGoes DEF Waiting
  <2>2. MaxQueued[p[1]] \in Nat
    BY <1>1, SchedulerAssumption
  <2>3. \A s \in Schedulers : waitingJobs[s] = Cardinality(WaitingAt(s))
                               /\ waitingJobs[s] <= MaxQueued[s]
    BY DEF SchedInv, WaitingCounted
  <2>4. waitingJobs'[p[1]] = waitingJobs[p[1]] - 1
    BY <1>1, <1>10, <2>1, <2>3 DEF OneLess
  <2>5. waitingJobs'[p[1]] = Cardinality(WaitingAt(p[1])') /\ waitingJobs'[p[1]] <= MaxQueued[p[1]]
    BY <1>1, <1>10, <2>1, <2>2, <2>3, <2>4
  <2>6. ASSUME NEW s \in Schedulers, s # p[1]
        PROVE  waitingJobs'[s] = Cardinality(WaitingAt(s)') /\ waitingJobs'[s] <= MaxQueued[s]
    <3>1. waitingJobs'[s] = waitingJobs[s] /\ WaitingAt(s)' = WaitingAt(s)
      BY <1>10, <2>1, <2>6
    <3> QED BY <2>3, <3>1
  <2> QED BY <2>5, <2>6 DEF WaitingCounted
<1>13. QueuesExact'
  <2> SUFFICES ASSUME NEW q \in Places, NEW u \in Tenants
               PROVE  /\ Distinct(tenantQueues'[q][u])
                      /\ \A i \in Jobs : Queued(tenantQueues'[q][u], i)
                           <=> Waiting(i)' /\ place'[i] = q /\ TenantOf[i] = u
    BY DEF QueuesExact
  <2>1. CASE q = p /\ u = t
    BY <1>1, <1>2, <1>4, <1>5, <2>1 DEF SchedInv, QueuesExact, Waiting
  <2>2. CASE q # p \/ u # t
    BY <1>2, <1>5, <2>2 DEF SchedInv, QueuesExact, Waiting
  <2> QED BY <2>1, <2>2
<1>14. RotationExact'
  <2> SUFFICES ASSUME NEW q \in Places
               PROVE  /\ Distinct(tenantOrder'[q])
                      /\ \A u \in Tenants :
                           Queued(tenantOrder'[q], u) <=> tenantQueues'[q][u] # << >>
    BY DEF RotationExact
  <2>1. CASE q = p /\ left = << >>
    BY <1>1, <1>5, <1>6, <1>8, <1>9, <2>1
  <2>2. CASE q = p /\ left # << >>
    BY <1>1, <1>5, <1>6, <1>7, <1>9, <2>2
  <2>3. CASE q # p
    BY <1>5, <1>9, <2>3 DEF SchedInv, RotationExact
  <2> QED BY <2>1, <2>2, <2>3
<1>15. tenantOrder[p] # << >>
  BY <1>7 DEF Queued
<1>16. FullWhileWaiting'
  <2>1. \A q \in Places : RunningAt(q)' = RunningAt(q)
    BY <1>2 DEF RunningAt
  <2> QED BY <1>1, <1>2, <1>9, <1>15, <2>1 DEF SchedInv, FullWhileWaiting
<1>17. NoneAtClosed'
  BY <1>1, <1>2, <1>9, <1>15 DEF SchedInv, NoneAtClosed
<1> QED
  BY <1>11, <1>12, <1>13, <1>14, <1>16, <1>17 DEF SchedInv

-----------------------------------------------------------------------------
(* A slot given back, and a slot passed on.                                *)

LEMMA SlotInUse ==
  ASSUME SchedInv, NEW j \in Jobs, NEW p \in Places, job[j] = "running", place[j] = p
  PROVE  /\ j \in RunningAt(p) /\ RunningAt(p) \subseteq Jobs
         /\ activeJobs[p] = Cardinality(RunningAt(p))
         /\ activeJobs[p] \in Nat /\ activeJobs[p] >= 1
         /\ Cardinality(RunningAt(p) \ {j}) = activeJobs[p] - 1
         /\ activeJobs[p] <= MaxActive[p[1]] /\ MaxActive[p[1]] \in Nat
<1>1. j \in RunningAt(p) /\ RunningAt(p) \subseteq Jobs
  BY DEF RunningAt
<1>2. activeJobs[p] = Cardinality(RunningAt(p)) /\ activeJobs[p] <= MaxActive[p[1]]
  BY DEF SchedInv, FullWhileWaiting
<1>3. MaxActive[p[1]] \in Nat
  BY PlaceParts, SchedulerAssumption
<1> QED
  BY <1>1, <1>2, <1>3, JobsCounted, OneFewer

LEMMA VacateStep ==
  ASSUME SchedInv, NEW j \in Jobs, NEW p \in Places, job[j] = "running", place[j] = p,
         p[1] \in shuttingDown \/ tenantOrder[p] = << >>,
         Vacate(j, p), UNCHANGED <<shuttingDown, place>>
  PROVE  SchedInv'
<1>1. /\ UNCHANGED <<tenantQueues, tenantOrder, waitingJobs, shuttingDown, place>>
      /\ job'[j] = "over" /\ \A i \in Jobs : i # j => job'[i] = job[i]
      /\ activeJobs'[p] = OneLess(activeJobs[p])
      /\ \A q \in Places : q # p => activeJobs'[q] = activeJobs[q]
  BY DEF Vacate, SchedInv, SchedTypeOK
<1>2. SchedTypeOK'
  BY DEF Vacate, OneLess, SchedInv, SchedTypeOK, JobPhases
<1>3. \A s \in Schedulers : WaitingAt(s)' = WaitingAt(s)
  BY <1>1 DEF WaitingAt, Waiting
<1>4. WaitingCounted'
  BY <1>1, <1>3 DEF WaitingCounted, SchedInv
<1>5. QueuesExact'
  BY <1>1 DEF QueuesExact, SchedInv, Waiting
<1>6. FullWhileWaiting'
  <2>1. RunningAt(p)' = RunningAt(p) \ {j}
    BY <1>1 DEF RunningAt
  <2>2. \A q \in Places : q # p => RunningAt(q)' = RunningAt(q)
    BY <1>1 DEF RunningAt
  <2>3. tenantOrder[p] = << >>
    BY DEF SchedInv, NoneAtClosed
  <2>4. activeJobs'[p] = activeJobs[p] - 1
    <3>1. activeJobs[p] \in Nat /\ activeJobs[p] >= 1
      BY SlotInUse
    <3> QED BY <1>1, <3>1 DEF OneLess
  <2>5. activeJobs'[p] = Cardinality(RunningAt(p)') /\ activeJobs'[p] <= MaxActive[p[1]]
    BY <2>1, <2>4, SlotInUse
  <2> QED BY <1>1, <2>2, <2>3, <2>5 DEF SchedInv, FullWhileWaiting
<1> QED
  BY <1>1, <1>2, <1>4, <1>5, <1>6 DEF SchedInv, RotationExact, NoneAtClosed

(* The job whose turn it is.                                               *)
LEMMA NextInTurn ==
  ASSUME SchedInv, NEW p \in Places, tenantOrder[p] # << >>
  PROVE  /\ Head(tenantOrder[p]) \in Tenants
         /\ tenantQueues[p][Head(tenantOrder[p])] # << >>
         /\ tenantQueues[p][Head(tenantOrder[p])] \in Seq(Jobs)
         /\ LET next == Head(tenantQueues[p][Head(tenantOrder[p])])
            IN  /\ next \in Jobs /\ Waiting(next) /\ place[next] = p
                /\ TenantOf[next] = Head(tenantOrder[p])
<1> DEFINE t == Head(tenantOrder[p])
           old == tenantQueues[p][t]
<1>1. tenantOrder[p] \in Seq(Tenants) /\ Distinct(tenantOrder[p])
  BY DEF SchedInv, SchedTypeOK, RotationExact
<1>2. t \in Tenants /\ Queued(tenantOrder[p], t)
  BY <1>1, TailQueued
<1>3. old # << >> /\ old \in Seq(Jobs) /\ Distinct(old)
  BY <1>2 DEF SchedInv, SchedTypeOK, RotationExact, QueuesExact
<1>4. Head(old) \in Jobs /\ Queued(old, Head(old))
  BY <1>3, TailQueued
<1> QED
  BY <1>2, <1>3, <1>4 DEF SchedInv, QueuesExact

(* The first of a line goes to its end.                                    *)
LEMMA Rotated ==
  ASSUME NEW S, NEW s \in Seq(S), s # << >>, Distinct(s)
  PROVE  /\ Append(Tail(s), Head(s)) \in Seq(S)
         /\ Distinct(Append(Tail(s), Head(s)))
         /\ \A u : Queued(Append(Tail(s), Head(s)), u)
                     <=> u = Head(s) \/ Queued(Tail(s), u)
<1>1. /\ Head(s) \in S /\ Tail(s) \in Seq(S) /\ Distinct(Tail(s))
      /\ ~Queued(Tail(s), Head(s))
  BY TailQueued
<1> QED
  BY <1>1, AppendQueued

LEMMA PassOnStep ==
  ASSUME SchedInv, NEW j \in Jobs, NEW p \in Places, job[j] = "running", place[j] = p,
         p[1] \notin shuttingDown, tenantOrder[p] # << >>,
         PassOn(j, p), UNCHANGED <<shuttingDown, place>>,
         NEW t, t = Head(tenantOrder[p]), NEW old, old = tenantQueues[p][t],
         NEW next, next = Head(old)
  PROVE  SchedInv'
<1>1. /\ t \in Tenants /\ next \in Jobs /\ job[next] = "waiting" /\ place[next] = p
      /\ TenantOf[next] = t /\ old # << >> /\ old \in Seq(Jobs) /\ next # j
      /\ p[1] \in Schedulers
  BY NextInTurn, PlaceParts DEF Waiting
<1>2. /\ job'[j] = "over" /\ job'[next] = "running"
      /\ \A i \in Jobs : i # j /\ i # next => job'[i] = job[i]
  BY <1>1 DEF PassOn, SchedInv, SchedTypeOK
<1>3. /\ tenantQueues'[p][t] = Tail(old)
      /\ \A q \in Places, u \in Tenants :
           q # p \/ u # t => tenantQueues'[q][u] = tenantQueues[q][u]
  BY <1>1 DEF PassOn, SchedInv, SchedTypeOK
<1>4. /\ tenantOrder'[p] = OrderAfter(p, t)
      /\ \A q \in Places : q # p => tenantOrder'[q] = tenantOrder[q]
  BY DEF PassOn, SchedInv, SchedTypeOK
<1>5. activeJobs' = activeJobs
  <2>1. OneLess(activeJobs[p]) + 1 = activeJobs[p]
    <3>1. activeJobs[p] \in Nat /\ activeJobs[p] >= 1
      BY SlotInUse
    <3> QED BY <3>1 DEF OneLess
  <2> QED BY <2>1 DEF PassOn, SchedInv, SchedTypeOK
<1>6. /\ waitingJobs'[p[1]] = OneLess(waitingJobs[p[1]]) /\ waitingJobs[p[1]] \in Nat
      /\ \A s \in Schedulers : s # p[1] => waitingJobs'[s] = waitingJobs[s]
  BY <1>1 DEF PassOn, SchedInv, SchedTypeOK
<1>7. /\ Distinct(old)
      /\ \A i \in Jobs : Queued(old, i) <=> job[i] = "waiting" /\ place[i] = p /\ TenantOf[i] = t
  BY <1>1 DEF SchedInv, QueuesExact, Waiting
<1>8. Tail(old) \in Seq(Jobs) /\ Distinct(Tail(old))
      /\ \A i : Queued(Tail(old), i) <=> i # next /\ Queued(old, i)
  BY <1>1, <1>7, TailQueued
<1>9. /\ tenantOrder[p] \in Seq(Tenants) /\ Distinct(tenantOrder[p])
      /\ \A u \in Tenants : Queued(tenantOrder[p], u) <=> tenantQueues[p][u] # << >>
  BY DEF SchedInv, SchedTypeOK, RotationExact
<1>10. /\ Tail(tenantOrder[p]) \in Seq(Tenants) /\ Distinct(Tail(tenantOrder[p]))
       /\ \A u : Queued(Tail(tenantOrder[p]), u) <=> u # t /\ Queued(tenantOrder[p], u)
  BY <1>9, TailQueued
<1>11. /\ Append(Tail(tenantOrder[p]), t) \in Seq(Tenants)
       /\ Distinct(Append(Tail(tenantOrder[p]), t))
       /\ \A u : Queued(Append(Tail(tenantOrder[p]), t), u)
                   <=> u = t \/ Queued(Tail(tenantOrder[p]), u)
  BY <1>9, Rotated
<1>12. OrderAfter(p, t) = IF Tail(old) = << >> THEN Tail(tenantOrder[p])
                                               ELSE Append(Tail(tenantOrder[p]), t)
  BY DEF OrderAfter
<1>13. SchedTypeOK'
  <2>1. tenantQueues' \in [Places -> [Tenants -> Seq(Jobs)]]
    <3>1. tenantQueues' = [tenantQueues EXCEPT ![p][t] = Tail(old)]
      BY DEF PassOn
    <3> QED BY <1>1, <1>8, <3>1 DEF SchedInv, SchedTypeOK
  <2>2. tenantOrder' \in [Places -> Seq(Tenants)]
    <3>1. tenantOrder' = [tenantOrder EXCEPT ![p] = OrderAfter(p, t)]
      BY DEF PassOn
    <3>2. OrderAfter(p, t) \in Seq(Tenants)
      BY <1>10, <1>11, <1>12
    <3> QED BY <3>1, <3>2 DEF SchedInv, SchedTypeOK
  <2>3. waitingJobs' \in [Schedulers -> Nat]
    <3>1. waitingJobs' = [waitingJobs EXCEPT ![p[1]] = OneLess(waitingJobs[p[1]])]
      BY DEF PassOn
    <3> QED BY <1>1, <1>6, <3>1 DEF OneLess, SchedInv, SchedTypeOK
  <2>4. job' \in [Jobs -> JobPhases]
    <3>1. job' = [job EXCEPT ![j] = "over", ![next] = "running"]
      BY DEF PassOn
    <3> QED BY <1>1, <3>1 DEF SchedInv, SchedTypeOK, JobPhases
  <2> QED BY <1>5, <2>1, <2>2, <2>3, <2>4 DEF SchedInv, SchedTypeOK
<1>14. WaitingCounted'
  <2>1. /\ Cardinality(WaitingAt(p[1])) >= 1
        /\ Cardinality(WaitingAt(p[1])') = Cardinality(WaitingAt(p[1])) - 1
        /\ \A s \in Schedulers : s # p[1] => WaitingAt(s)' = WaitingAt(s)
    BY <1>1, <1>2, WaiterGoes DEF Waiting
  <2>2. MaxQueued[p[1]] \in Nat
    BY <1>1, SchedulerAssumption
  <2>3. \A s \in Schedulers : waitingJobs[s] = Cardinality(WaitingAt(s))
                               /\ waitingJobs[s] <= MaxQueued[s]
    BY DEF SchedInv, WaitingCounted
  <2>4. waitingJobs'[p[1]] = waitingJobs[p[1]] - 1
    BY <1>1, <1>6, <2>1, <2>3 DEF OneLess
  <2>5. waitingJobs'[p[1]] = Cardinality(WaitingAt(p[1])') /\ waitingJobs'[p[1]] <= MaxQueued[p[1]]
    BY <1>1, <1>6, <2>1, <2>2, <2>3, <2>4
  <2>6. ASSUME NEW s \in Schedulers, s # p[1]
        PROVE  waitingJobs'[s] = Cardinality(WaitingAt(s)') /\ waitingJobs'[s] <= MaxQueued[s]
    <3>1. waitingJobs'[s] = waitingJobs[s] /\ WaitingAt(s)' = WaitingAt(s)
      BY <1>6, <2>1, <2>6
    <3> QED BY <2>3, <3>1
  <2> QED BY <2>5, <2>6 DEF WaitingCounted
<1>15. QueuesExact'
  <2> SUFFICES ASSUME NEW q \in Places, NEW u \in Tenants
               PROVE  /\ Distinct(tenantQueues'[q][u])
                      /\ \A i \in Jobs : Queued(tenantQueues'[q][u], i)
                           <=> Waiting(i)' /\ place'[i] = q /\ TenantOf[i] = u
    BY DEF QueuesExact
  <2>1. CASE q = p /\ u = t
    BY <1>1, <1>2, <1>3, <1>7, <1>8, <2>1 DEF Waiting
  <2>2. CASE q # p \/ u # t
    BY <1>1, <1>2, <1>3, <2>2 DEF SchedInv, QueuesExact, Waiting
  <2> QED BY <2>1, <2>2
<1>16. RotationExact'
  <2> SUFFICES ASSUME NEW q \in Places
               PROVE  /\ Distinct(tenantOrder'[q])
                      /\ \A u \in Tenants :
                           Queued(tenantOrder'[q], u) <=> tenantQueues'[q][u] # << >>
    BY DEF RotationExact
  <2>1. CASE q = p
    <3>1. tenantOrder'[q] = OrderAfter(p, t) /\ tenantQueues'[q][t] = Tail(old)
      BY <1>1, <1>3, <1>4, <2>1
    <3>2. \A u \in Tenants : u # t => tenantQueues'[q][u] = tenantQueues[p][u]
      BY <1>3, <2>1
    <3>3. CASE Tail(old) = << >>
      BY <1>9, <1>10, <1>12, <3>1, <3>2, <3>3
    <3>4. CASE Tail(old) # << >>
      <4>1. tenantOrder'[q] = Append(Tail(tenantOrder[p]), t)
        BY <1>12, <3>1, <3>4
      <4>2. \A u : Queued(tenantOrder'[q], u) <=> u = t \/ Queued(Tail(tenantOrder[p]), u)
        BY <1>11, <4>1
      <4>3. \A u \in Tenants : Queued(tenantOrder'[q], u) <=> u = t \/ tenantQueues[p][u] # << >>
        BY <1>9, <1>10, <4>2
      <4> QED BY <1>11, <3>1, <3>2, <3>4, <4>1, <4>3
    <3> QED BY <3>3, <3>4
  <2>2. CASE q # p
    BY <1>3, <1>4, <2>2 DEF SchedInv, RotationExact
  <2> QED BY <2>1, <2>2
<1>17. FullWhileWaiting'
  <2>1. RunningAt(p)' = (RunningAt(p) \ {j}) \cup {next}
    BY <1>1, <1>2 DEF RunningAt
  <2>2. next \notin RunningAt(p)
    BY <1>1 DEF RunningAt
  <2>3. Cardinality(RunningAt(p)') = activeJobs[p]
    <3>1. Cardinality((RunningAt(p) \ {j}) \cup {next}) = Cardinality(RunningAt(p) \ {j}) + 1
      BY <1>1, <2>2, SlotInUse, OneMore
    <3> QED BY <2>1, <3>1, SlotInUse
  <2>4. \A q \in Places : q # p => RunningAt(q)' = RunningAt(q)
    BY <1>1, <1>2 DEF RunningAt
  <2>5. activeJobs[p] = MaxActive[p[1]]
    BY DEF SchedInv, FullWhileWaiting
  <2> QED BY <1>4, <1>5, <2>3, <2>4, <2>5, SlotInUse DEF SchedInv, FullWhileWaiting
<1>18. NoneAtClosed'
  BY <1>4 DEF SchedInv, NoneAtClosed
<1> QED
  BY <1>13, <1>14, <1>15, <1>16, <1>17, <1>18 DEF SchedInv

LEMMA ReleaseStep ==
  ASSUME SchedInv, NEW j \in Jobs, Release(j) PROVE SchedInv'
<1>1. PICK p \in Places : p = place[j]
  BY DEF SchedInv, SchedTypeOK
<1>2. job[j] = "running" /\ UNCHANGED <<shuttingDown, place>>
  BY DEF Release
<1>3. CASE p[1] \in shuttingDown \/ tenantOrder[p] = << >>
  BY <1>1, <1>2, <1>3, VacateStep DEF Release
<1>4. CASE ~(p[1] \in shuttingDown \/ tenantOrder[p] = << >>)
  BY <1>1, <1>2, <1>4, PassOnStep DEF Release
<1> QED
  BY <1>3, <1>4

LEMMA ShutdownStep ==
  ASSUME SchedInv, NEW s \in Schedulers, Shutdown(s) PROVE SchedInv'
<1>1. /\ UNCHANGED <<activeJobs, place>> /\ shuttingDown' = shuttingDown \cup {s}
      /\ \A j \in Jobs : job'[j] = IF job[j] = "waiting" /\ place[j][1] = s THEN "over"
                                                                            ELSE job[j]
      /\ \A p \in Places, t \in Tenants :
           tenantQueues'[p][t] = IF p[1] = s THEN << >> ELSE tenantQueues[p][t]
      /\ \A p \in Places : tenantOrder'[p] = IF p[1] = s THEN << >> ELSE tenantOrder[p]
      /\ waitingJobs'[s] = 0 /\ \A r \in Schedulers : r # s => waitingJobs'[r] = waitingJobs[r]
  BY DEF Shutdown, SchedInv, SchedTypeOK
<1>2. SchedTypeOK'
  <2>1. tenantQueues' \in [Places -> [Tenants -> Seq(Jobs)]]
    BY DEF Shutdown, SchedInv, SchedTypeOK
  <2>2. tenantOrder' \in [Places -> Seq(Tenants)]
    BY DEF Shutdown, SchedInv, SchedTypeOK
  <2>3. waitingJobs' \in [Schedulers -> Nat] /\ shuttingDown' \subseteq Schedulers
    BY DEF Shutdown, SchedInv, SchedTypeOK
  <2>4. job' \in [Jobs -> JobPhases]
    BY DEF Shutdown, SchedInv, SchedTypeOK, JobPhases
  <2> QED BY <1>1, <2>1, <2>2, <2>3, <2>4 DEF SchedInv, SchedTypeOK
<1>3. WaitingCounted'
  <2>1. WaitingAt(s)' = {}
    BY <1>1 DEF WaitingAt, Waiting
  <2>2. \A r \in Schedulers : r # s => WaitingAt(r)' = WaitingAt(r)
    BY <1>1 DEF WaitingAt, Waiting
  <2>3. MaxQueued[s] \in Nat
    BY SchedulerAssumption
  <2>4. waitingJobs'[s] = Cardinality(WaitingAt(s)') /\ waitingJobs'[s] <= MaxQueued[s]
    BY <1>1, <2>1, <2>3, NoneCounted
  <2>5. ASSUME NEW r \in Schedulers, r # s
        PROVE  waitingJobs'[r] = Cardinality(WaitingAt(r)') /\ waitingJobs'[r] <= MaxQueued[r]
    <3>1. waitingJobs'[r] = waitingJobs[r] /\ WaitingAt(r)' = WaitingAt(r)
      BY <1>1, <2>2, <2>5
    <3> QED BY <3>1 DEF SchedInv, WaitingCounted
  <2> QED BY <2>4, <2>5 DEF WaitingCounted
<1>4. QueuesExact'
  <2> SUFFICES ASSUME NEW q \in Places, NEW u \in Tenants
               PROVE  /\ Distinct(tenantQueues'[q][u])
                      /\ \A i \in Jobs : Queued(tenantQueues'[q][u], i)
                           <=> Waiting(i)' /\ place'[i] = q /\ TenantOf[i] = u
    BY DEF QueuesExact
  <2>1. CASE q[1] = s
    BY <1>1, <2>1 DEF Waiting, Queued, Distinct
  <2>2. CASE q[1] # s
    BY <1>1, <2>2 DEF SchedInv, QueuesExact, Waiting
  <2> QED BY <2>1, <2>2
<1>5. RotationExact'
  <2> SUFFICES ASSUME NEW q \in Places
               PROVE  /\ Distinct(tenantOrder'[q])
                      /\ \A u \in Tenants :
                           Queued(tenantOrder'[q], u) <=> tenantQueues'[q][u] # << >>
    BY DEF RotationExact
  <2>1. CASE q[1] = s
    BY <1>1, <2>1 DEF Queued, Distinct
  <2>2. CASE q[1] # s
    BY <1>1, <2>2 DEF SchedInv, RotationExact
  <2> QED BY <2>1, <2>2
<1>6. FullWhileWaiting'
  <2>1. \A q \in Places : RunningAt(q)' = RunningAt(q)
    BY <1>1 DEF RunningAt
  <2> QED BY <1>1, <2>1 DEF SchedInv, FullWhileWaiting
<1>7. NoneAtClosed'
  BY <1>1 DEF SchedInv, NoneAtClosed
<1> QED
  BY <1>2, <1>3, <1>4, <1>5, <1>6, <1>7 DEF SchedInv

LEMMA SchedStep == ASSUME SchedInv, [SchedNext]_schedVars PROVE SchedInv'
<1>1. ASSUME NEW j \in Jobs, NEW s \in Schedulers, NEW a \in AccountsOf[j],
             Acquire(j, <<s, a>>)
      PROVE  SchedInv'
  <2>1. <<s, a>> \in Places
    BY PlaceParts, SchedulerAssumption
  <2> QED BY <1>1, <2>1, GrantedStep, IdleStep, QueuedStep DEF Acquire
<1>2. ASSUME NEW j \in Jobs, RemoveWaiter(j) PROVE SchedInv'
  <2>1. place[j] \in Places
    BY DEF SchedInv, SchedTypeOK
  <2> QED BY <1>2, <2>1, RemoveStep
<1>3. CASE UNCHANGED schedVars
  <2>1. UNCHANGED <<activeJobs, tenantQueues, tenantOrder, waitingJobs, shuttingDown, job, place>>
    BY <1>3 DEF schedVars
  <2>2. SchedTypeOK'
    BY <2>1 DEF SchedInv, SchedTypeOK
  <2> QED BY <2>1, <2>2, NothingMoves DEF Waiting, SchedInv
<1> QED
  BY <1>1, <1>2, <1>3, IdleStep, ReleaseStep, ShutdownStep DEF SchedNext

-----------------------------------------------------------------------------
(* The turns of the tenants.                                               *)

LEMMA AppendPositions ==
  ASSUME NEW S, NEW s \in Seq(S), Distinct(s), NEW a \in S, ~Queued(s, a),
         NEW i \in DOMAIN s, NEW k \in DOMAIN Append(s, a), Append(s, a)[k] = s[i]
  PROVE  i \in Nat /\ k = i
<1>1. DOMAIN s = 1 .. Len(s) /\ Len(s) \in Nat /\ DOMAIN Append(s, a) = 1 .. Len(s) + 1
  BY LenProperties, AppendProperties
<1>2. CASE k = Len(s) + 1
  <2>1. s[i] = a
    BY <1>2, AppendProperties
  <2> QED BY <2>1 DEF Queued
<1>3. CASE k # Len(s) + 1
  <2>1. k \in DOMAIN s /\ s[k] = s[i]
    BY <1>1, <1>3, AppendProperties
  <2> QED BY <1>1, <2>1 DEF Distinct
<1> QED
  BY <1>2, <1>3

LEMMA WithoutPositions ==
  ASSUME NEW S, NEW s \in Seq(S), Distinct(s), NEW a, Queued(s, a),
         NEW i \in DOMAIN s, NEW k \in DOMAIN Without(s, a), Without(s, a)[k] = s[i]
  PROVE  i \in Nat /\ k \in Nat /\ k <= i
<1>1. DOMAIN s = 1 .. Len(s) /\ Len(s) \in Nat
  BY LenProperties
<1>2. PICK p \in 1 .. Len(s) : s[p] = a
  BY <1>1 DEF Queued
<1>3. \A m, n \in DOMAIN s : s[m] = s[n] => m = n
  BY DEF Distinct
<1>4. /\ Without(s, a) \in Seq(S) /\ Len(Without(s, a)) = Len(s) - 1
      /\ \A m \in 1 .. Len(s) - 1 : Without(s, a)[m] = IF m < p THEN s[m] ELSE s[m + 1]
  BY <1>2, <1>3, WithoutElements
<1>5. k \in 1 .. Len(s) - 1
  BY <1>1, <1>4, LenProperties
<1>6. CASE k < p
  <2>1. k \in DOMAIN s /\ s[k] = s[i]
    BY <1>1, <1>4, <1>5, <1>6
  <2>2. k = i
    BY <1>3, <2>1
  <2> QED BY <1>1, <1>5, <2>2
<1>7. CASE ~(k < p)
  <2>1. k + 1 \in DOMAIN s /\ s[k + 1] = s[i]
    BY <1>1, <1>4, <1>5, <1>7
  <2>2. k + 1 = i
    BY <1>3, <2>1
  <2> QED BY <1>1, <1>5, <2>2
<1> QED
  BY <1>6, <1>7

LEMMA RotatedPositions ==
  ASSUME NEW S, NEW s \in Seq(S), Distinct(s), s # << >>,
         NEW r, r = Tail(s) \/ r = Append(Tail(s), Head(s)),
         NEW i \in DOMAIN s, NEW k \in DOMAIN r, r[k] = s[i], s[i] # Head(s)
  PROVE  i \in Nat /\ k \in Nat /\ k < i
<1>1. DOMAIN s = 1 .. Len(s) /\ Len(s) \in Nat /\ Len(s) >= 1
  BY LenProperties, EmptySeq
<1>2. /\ Tail(s) \in Seq(S) /\ Len(Tail(s)) = Len(s) - 1 /\ Head(s) \in S
      /\ \A m \in 1 .. Len(s) - 1 : Tail(s)[m] = s[m + 1]
  BY <1>1, HeadTailProperties
<1>3. k \in 1 .. Len(s) - 1 /\ r[k] = Tail(s)[k]
  <2>1. CASE r = Tail(s)
    BY <1>2, <2>1, LenProperties
  <2>2. CASE r = Append(Tail(s), Head(s))
    <3>1. Len(Tail(s)) \in Nat /\ Len(Tail(s)) + 1 = Len(s)
      BY <1>1, <1>2
    <3>2. k \in 1 .. Len(s)
      BY <1>2, <2>2, <3>1, AppendProperties
    <3>3. k # Len(s)
      BY <1>2, <2>2, <3>1, AppendProperties
    <3>4. k \in 1 .. Len(s) - 1
      BY <1>1, <3>2, <3>3
    <3> QED BY <1>2, <2>2, <3>4, AppendProperties
  <2> QED BY <2>1, <2>2
<1>4. k + 1 \in DOMAIN s /\ s[k + 1] = s[i]
  BY <1>1, <1>2, <1>3
<1>5. k + 1 = i
  BY <1>4 DEF Distinct
<1> QED
  BY <1>1, <1>3, <1>5

KeepsTurns(p) ==
  \A i \in DOMAIN tenantOrder[p], k \in DOMAIN tenantOrder'[p] :
    LET t == tenantOrder[p][i] IN
    tenantOrder'[p][k] = t /\ ~Served(p, t) =>
      k <= i /\ ((\E u \in Tenants : Served(p, u)) => k < i)

LEMMA LineOfTenants ==
  ASSUME SchedInv, NEW p \in Places
  PROVE  /\ tenantOrder[p] \in Seq(Tenants) /\ Distinct(tenantOrder[p])
         /\ DOMAIN tenantOrder[p] \subseteq Nat
BY LenProperties DEF SchedInv, SchedTypeOK, RotationExact

LEMMA SameTurns ==
  ASSUME SchedInv, NEW p \in Places, tenantOrder'[p] = tenantOrder[p],
         \A u \in Tenants : ~Served(p, u)
  PROVE  KeepsTurns(p)
BY LineOfTenants DEF KeepsTurns, Distinct

LEMMA NobodyServed ==
  ASSUME \A i \in Jobs : Waiting(i) => job'[i] # "running"
  PROVE  \A p \in Places : \A u \in Tenants : ~Served(p, u)
BY DEF Served

LEMMA QueuedTurns ==
  ASSUME SchedInv, NEW j \in Jobs, NEW q \in Places, AcquireQueued(j, q)
  PROVE  \A p \in Places : KeepsTurns(p)
<1>1. job[j] = "ready" /\ \A i \in Jobs : i # j => job'[i] = job[i]
  BY DEF AcquireQueued, Submit, SchedInv, SchedTypeOK
<1>2. \A p \in Places : \A u \in Tenants : ~Served(p, u)
  BY <1>1, NobodyServed DEF Waiting
<1>3. CASE tenantOrder' = tenantOrder
  BY <1>2, <1>3, SameTurns
<1>4. CASE tenantQueues[q][TenantOf[j]] = << >>
  <2> DEFINE t == TenantOf[j]
  <2>1. /\ tenantOrder'[q] = Append(tenantOrder[q], t)
        /\ \A p \in Places : p # q => tenantOrder'[p] = tenantOrder[p]
    BY <1>4 DEF AcquireQueued, JoinRotation, SchedInv, SchedTypeOK
  <2>2. t \in Tenants /\ ~Queued(tenantOrder[q], t)
    BY <1>4, SchedulerAssumption DEF SchedInv, RotationExact
  <2>3. KeepsTurns(q)
    <3> SUFFICES ASSUME NEW i \in DOMAIN tenantOrder[q], NEW k \in DOMAIN tenantOrder'[q],
                        tenantOrder'[q][k] = tenantOrder[q][i]
                 PROVE  k <= i
      BY <1>2 DEF KeepsTurns
    <3>1. i \in Nat /\ k = i
      BY <2>1, <2>2, LineOfTenants, AppendPositions
    <3> QED BY <3>1
  <2> QED BY <1>2, <2>1, <2>3, SameTurns
<1> QED
  BY <1>3, <1>4 DEF AcquireQueued, JoinRotation

LEMMA RemoveTurns ==
  ASSUME SchedInv, NEW j \in Jobs, RemoveWaiter(j)
  PROVE  \A p \in Places : KeepsTurns(p)
<1> DEFINE t == TenantOf[j]
<1>1. job[j] = "waiting" /\ job'[j] = "over" /\ \A i \in Jobs : i # j => job'[i] = job[i]
  BY DEF RemoveWaiter, SchedInv, SchedTypeOK
<1>2. \A p \in Places : \A u \in Tenants : ~Served(p, u)
  BY <1>1, NobodyServed DEF Waiting
<1>3. PICK q \in Places : q = place[j]
  BY DEF SchedInv, SchedTypeOK
<1>4. CASE tenantOrder' = tenantOrder
  BY <1>2, <1>4, SameTurns
<1>5. CASE tenantOrder' = [tenantOrder EXCEPT ![q] = Without(tenantOrder[q], t)]
  <2>1. /\ tenantOrder'[q] = Without(tenantOrder[q], t)
        /\ \A p \in Places : p # q => tenantOrder'[p] = tenantOrder[p]
    BY <1>5 DEF SchedInv, SchedTypeOK
  <2>2. t \in Tenants
    BY SchedulerAssumption
  <2>3. tenantQueues[q][t] # << >>
    BY <1>1, <1>3, <2>2 DEF SchedInv, QueuesExact, Waiting, Queued
  <2>4. Queued(tenantOrder[q], t)
    BY <2>2, <2>3 DEF SchedInv, RotationExact
  <2>5. KeepsTurns(q)
    <3> SUFFICES ASSUME NEW i \in DOMAIN tenantOrder[q], NEW k \in DOMAIN tenantOrder'[q],
                        tenantOrder'[q][k] = tenantOrder[q][i]
                 PROVE  k <= i
      BY <1>2 DEF KeepsTurns
    <3> QED BY <2>1, <2>4, LineOfTenants, WithoutPositions
  <2> QED BY <1>2, <2>1, <2>5, SameTurns
<1> QED
  BY <1>3, <1>4, <1>5 DEF RemoveWaiter

LEMMA PassOnTurns ==
  ASSUME SchedInv, NEW j \in Jobs, NEW q \in Places, q = place[j], job[j] = "running",
         tenantOrder[q] # << >>, PassOn(j, q)
  PROVE  \A p \in Places : KeepsTurns(p)
<1>1. PICK t \in Tenants : t = Head(tenantOrder[q])
  BY NextInTurn
<1>2. PICK next \in Jobs : next = Head(tenantQueues[q][t])
  BY <1>1, NextInTurn
<1>3. Waiting(next) /\ place[next] = q /\ TenantOf[next] = t /\ next # j
  BY <1>1, <1>2, NextInTurn DEF Waiting
<1>4. /\ job'[next] = "running"
      /\ \A i \in Jobs : i # next /\ Waiting(i) => job'[i] = job[i]
  <2>1. job' = [job EXCEPT ![j] = "over", ![next] = "running"]
    BY <1>1, <1>2 DEF PassOn
  <2> QED BY <1>3, <2>1 DEF SchedInv, SchedTypeOK, Waiting
<1>5. \A p \in Places : \A u \in Tenants : Served(p, u) <=> p = q /\ u = t
  BY <1>3, <1>4 DEF Served, Waiting
<1>6. \A p \in Places : p # q => tenantOrder'[p] = tenantOrder[p]
  BY DEF PassOn, SchedInv, SchedTypeOK
<1>7. \A p \in Places : p # q => KeepsTurns(p)
  BY <1>5, <1>6, SameTurns
<1>8. \/ tenantOrder'[q] = Tail(tenantOrder[q])
      \/ tenantOrder'[q] = Append(Tail(tenantOrder[q]), Head(tenantOrder[q]))
  BY <1>1 DEF PassOn, OrderAfter, SchedInv, SchedTypeOK
<1>9. KeepsTurns(q)
  <2> SUFFICES ASSUME NEW i \in DOMAIN tenantOrder[q], NEW k \in DOMAIN tenantOrder'[q],
                      tenantOrder'[q][k] = tenantOrder[q][i], ~Served(q, tenantOrder[q][i])
               PROVE  k <= i /\ k < i
    BY DEF KeepsTurns
  <2>1. tenantOrder[q][i] # Head(tenantOrder[q])
    BY <1>1, <1>5
  <2>2. i \in Nat /\ k \in Nat /\ k < i
    BY <1>8, <2>1, LineOfTenants, RotatedPositions
  <2> QED BY <2>2
<1> QED
  BY <1>7, <1>9

LEMMA TurnsStep ==
  ASSUME SchedInv, [SchedNext]_schedVars
  PROVE  \A p \in Places : KeepsTurns(p)
<1>1. ASSUME tenantOrder' = tenantOrder, \A i \in Jobs : Waiting(i) => job'[i] # "running"
      PROVE  \A p \in Places : KeepsTurns(p)
  BY <1>1, NobodyServed, SameTurns
<1>2. ASSUME NEW j \in Jobs, NEW p \in Places,
             AcquireGranted(j, p) \/ AcquireFull(j, p)
      PROVE  tenantOrder' = tenantOrder /\ \A i \in Jobs : Waiting(i) => job'[i] # "running"
  BY <1>2 DEF AcquireGranted, AcquireFull, Submit, Waiting, SchedInv, SchedTypeOK
<1>3. ASSUME NEW j \in Jobs, NEW s \in Schedulers, NEW a \in AccountsOf[j],
             Acquire(j, <<s, a>>)
      PROVE  \A p \in Places : KeepsTurns(p)
  <2>1. <<s, a>> \in Places
    BY PlaceParts, SchedulerAssumption
  <2> QED BY <1>1, <1>2, <1>3, <2>1, QueuedTurns DEF Acquire
<1>4. ASSUME NEW j \in Jobs, Enter(j) \/ AcquireRefused(j) \/ Leave(j)
      PROVE  \A p \in Places : KeepsTurns(p)
  <2>1. tenantOrder' = tenantOrder /\ \A i \in Jobs : Waiting(i) => job'[i] # "running"
    BY <1>4 DEF Enter, AcquireRefused, Leave, Waiting, SchedInv, SchedTypeOK
  <2> QED BY <1>1, <2>1
<1>5. ASSUME NEW j \in Jobs, Release(j) PROVE \A p \in Places : KeepsTurns(p)
  <2>1. PICK q \in Places : q = place[j]
    BY DEF SchedInv, SchedTypeOK
  <2>2. CASE Vacate(j, q)
    <3>1. tenantOrder' = tenantOrder /\ \A i \in Jobs : Waiting(i) => job'[i] # "running"
      BY <2>2 DEF Vacate, Waiting, SchedInv, SchedTypeOK
    <3> QED BY <1>1, <3>1
  <2>3. CASE tenantOrder[q] # << >> /\ PassOn(j, q)
    BY <1>5, <2>1, <2>3, PassOnTurns DEF Release
  <2> QED BY <1>5, <2>1, <2>2, <2>3 DEF Release
<1>6. ASSUME NEW s \in Schedulers, Shutdown(s) PROVE \A p \in Places : KeepsTurns(p)
  <2>1. \A i \in Jobs : Waiting(i) => job'[i] # "running"
    BY <1>6 DEF Shutdown, Waiting, SchedInv, SchedTypeOK
  <2>2. ASSUME NEW p \in Places PROVE KeepsTurns(p)
    <3>1. CASE p[1] = s
      <4>1. tenantOrder'[p] = << >>
        BY <1>6, <3>1 DEF Shutdown
      <4> QED BY <4>1 DEF KeepsTurns
    <3>2. CASE p[1] # s
      <4>1. tenantOrder'[p] = tenantOrder[p]
        BY <1>6, <3>2 DEF Shutdown
      <4> QED BY <2>1, <4>1, NobodyServed, SameTurns
    <3> QED BY <3>1, <3>2
  <2> QED BY <2>2
<1>7. CASE UNCHANGED schedVars
  BY <1>1, <1>7 DEF schedVars, Waiting
<1> QED
  BY <1>3, <1>4, <1>5, <1>6, <1>7, RemoveTurns DEF SchedNext

-----------------------------------------------------------------------------
(* The generations.                                                        *)

(* A request holds a lease from its first step to its last; the generation *)
(* of a lease has not begun to be disposed, and its jobs are its own.      *)
LeaseInv ==
  \A j \in Jobs :
    /\ lease[j] = NoGen <=> job[j] \in {"idle", "returned"}
    /\ lease[j] \notin started
    /\ lease[j] # NoGen => phase[lease[j]] # "unused"
    /\ job[j] \in {"waiting", "running"} => place[j][1] = lease[j]

(* A generation that is prepared is not in service and may still be: it    *)
(* has not begun to be disposed.                                           *)
ChangeInv ==
  /\ \A g \in Gens : change[g] = "prepared" =>
       /\ g # current
       /\ ~closed => phase[g] = "prepared" /\ g \notin started
  /\ \A g \in Gens : phase[g] = "unused" => change[g] = "none" /\ g \notin started
  /\ \A g \in timers : phase[g] # "unused"

(* The generation a published change replaced can still be put back.       *)
TxnInv ==
  txn # NoGen =>
    /\ current = txn /\ ~closed
    /\ previous[txn] \in Gens \ {txn}
    /\ change[previous[txn]] # "prepared"
    /\ phase[previous[txn]] = "draining"
    /\ previous[txn] \notin started

GenInv == LeaseInv /\ ChangeInv /\ TxnInv /\ CurrentAlive

RuntimeInv == ImageTypeOK /\ SchedInv /\ GenInv

LEMMA GenDefs == Gens = Schedulers /\ First \in Gens /\ NoGen \notin Gens
BY RuntimeAssumption DEF Gens

(* A step of the runtime is a step of the schedulers or leaves them alone. *)
LEMMA RuntimeMovesSched ==
  ASSUME RuntimeInv, [RuntimeNext]_vars
  PROVE  [SchedNext]_schedVars
<1> USE DEF SchedNext
<1>1. ASSUME NEW j \in Jobs, SubmitJob(j) PROVE SchedNext
  <2>1. CASE AcquireRefused(j)
    BY <2>1
  <2>2. ASSUME NEW a \in AccountsOf[j], Acquire(j, <<lease[j], a>>) PROVE SchedNext
    <3>1. job[j] = "ready"
      BY <2>2 DEF Acquire, AcquireGranted, AcquireFull, AcquireQueued, Submit
    <3>2. lease[j] \in Schedulers
      BY <3>1, GenDefs DEF RuntimeInv, ImageTypeOK, GenInv, LeaseInv
    <3> QED BY <2>2, <3>2
  <2> QED BY <1>1, <2>1, <2>2 DEF SubmitJob
<1>2. ASSUME NEW j \in Jobs, AcquireCurrent(j) \/ EndWait(j) \/ EndJob(j) \/ Return(j)
      PROVE  SchedNext
  BY <1>2 DEF AcquireCurrent, EndWait, EndJob, Return
<1>3. ASSUME NEW g \in Gens, Dispose(g) PROVE SchedNext
  BY <1>3, GenDefs DEF Dispose
<1>4. ASSUME NEW g \in Gens, TimerFires(g) \/ Prepare(g) \/ Discard(g) \/ Publish(g)
      PROVE  UNCHANGED schedVars
  BY <1>4 DEF TimerFires, Prepare, Discard, Publish
<1>5. CASE Commit \/ RollBack \/ Close \/ UNCHANGED vars
  BY <1>5 DEF Commit, RollBack, Close, vars
<1> QED
  BY <1>1, <1>2, <1>3, <1>4, <1>5 DEF RuntimeNext, Request, Generation

-----------------------------------------------------------------------------
(* The types of the generations.                                           *)

GenTypeOK ==
  /\ phase \in [Gens -> Phases]
  /\ change \in [Gens -> ChangeStates]
  /\ current \in Gens
  /\ previous \in [Gens -> Gens \cup {NoGen}]
  /\ lease \in [Jobs -> Gens \cup {NoGen}]
  /\ timers \subseteq Gens
  /\ started \subseteq Gens
  /\ ended \subseteq started
  /\ txn \in Gens \cup {NoGen}
  /\ closed \in BOOLEAN

LEMMA DisposalType ==
  ASSUME NEW g \in Gens, NEW ph \in [Gens -> Phases], NEW ts \in SUBSET Gens, NEW drained,
         started \subseteq Gens, ended \subseteq started,
         DisposeIfDrained(g, ph, drained, ts)
  PROVE  /\ phase' \in [Gens -> Phases] /\ timers' \subseteq Gens
         /\ started' \subseteq Gens /\ ended \subseteq started'
BY DEF DisposeIfDrained, Phases

LEMMA RequestType ==
  ASSUME GenTypeOK, NEW j \in Jobs, Request(j) PROVE GenTypeOK'
<1> USE DEF GenTypeOK
<1>1. CASE AcquireCurrent(j)
  BY <1>1 DEF AcquireCurrent
<1>2. CASE SubmitJob(j) \/ EndWait(j) \/ EndJob(j)
  BY <1>2 DEF SubmitJob, EndWait, EndJob, runtimeVars
<1>3. CASE Return(j)
  <2>1. lease[j] \in Gens
    BY <1>3 DEF Return
  <2>2. /\ phase' \in [Gens -> Phases] /\ timers' \subseteq Gens
        /\ started' \subseteq Gens /\ ended \subseteq started'
    BY <1>3, <2>1, DisposalType DEF Return, DropLease
  <2> QED BY <1>3, <2>2 DEF Return, DropLease
<1> QED
  BY <1>1, <1>2, <1>3 DEF Request

LEMMA GenerationType ==
  ASSUME GenTypeOK, NEW g \in Gens, Generation(g) PROVE GenTypeOK'
<1> USE DEF GenTypeOK, Phases, ChangeStates
<1>1. CASE TimerFires(g)
  <2>1. /\ phase' \in [Gens -> Phases] /\ timers' \subseteq Gens
        /\ started' \subseteq Gens /\ ended \subseteq started'
    BY <1>1, DisposalType DEF TimerFires
  <2> QED BY <1>1, <2>1 DEF TimerFires
<1>2. CASE Dispose(g)
  BY <1>2 DEF Dispose
<1>3. CASE Prepare(g)
  BY <1>3 DEF Prepare
<1>4. CASE Discard(g)
  <2>1. [phase EXCEPT ![g] = "draining"] \in [Gens -> Phases]
    OBVIOUS
  <2>2. /\ phase' \in [Gens -> Phases] /\ timers' \subseteq Gens
        /\ started' \subseteq Gens /\ ended \subseteq started'
    BY <1>4, <2>1, DisposalType DEF Discard
  <2> QED BY <1>4, <2>2 DEF Discard
<1>5. CASE Publish(g)
  <2>1. phase' \in [Gens -> Phases]
    BY <1>5 DEF Publish
  <2>2. previous' \in [Gens -> Gens \cup {NoGen}] /\ change' \in [Gens -> ChangeStates]
    BY <1>5 DEF Publish, Swap
  <2> QED BY <1>5, <2>1, <2>2 DEF Publish, Swap, Schedule
<1> QED
  BY <1>1, <1>2, <1>3, <1>4, <1>5 DEF Generation

LEMMA ManagerType ==
  ASSUME GenTypeOK, TxnInv, Commit \/ RollBack \/ Close \/ UNCHANGED runtimeVars
  PROVE  GenTypeOK'
<1> USE DEF GenTypeOK, Phases, ChangeStates
<1>1. CASE Commit
  BY <1>1 DEF Commit
<1>2. CASE RollBack
  <2>1. txn \in Gens /\ previous[txn] \in Gens
    BY <1>2 DEF RollBack, TxnInv
  <2>2. [phase EXCEPT ![previous[txn]] = "current", ![txn] = "draining"] \in [Gens -> Phases]
        /\ timers \ {previous[txn]} \in SUBSET Gens
    OBVIOUS
  <2>3. /\ phase' \in [Gens -> Phases] /\ timers' \subseteq Gens
        /\ started' \subseteq Gens /\ ended \subseteq started'
    BY <1>2, <2>1, <2>2, DisposalType DEF RollBack, Restore
  <2> QED BY <1>2, <2>1, <2>3 DEF RollBack, Restore
<1>3. CASE Close
  BY <1>3 DEF Close
<1>4. CASE UNCHANGED runtimeVars
  BY <1>4 DEF runtimeVars
<1> QED
  BY <1>1, <1>2, <1>3, <1>4

-----------------------------------------------------------------------------
(* The leases, the changes and the generation in service.                  *)

(* What disposal does: to one generation that is given up and has no lease *)
(* left, or to none.                                                       *)
LEMMA DisposalShape ==
  ASSUME NEW g \in Gens, NEW ph \in [Gens -> Phases], NEW drained, NEW ts,
         DisposeIfDrained(g, ph, drained, ts)
  PROVE  /\ timers' \subseteq ts
         /\ \/ /\ drained /\ (ph[g] = "draining" \/ closed)
               /\ started' = started \cup {g} /\ phase'[g] = "disposing"
               /\ \A h \in Gens : h # g => phase'[h] = ph[h]
            \/ started' = started /\ phase' = ph
BY DEF DisposeIfDrained

(* Steps of jobs that hold their lease.                                    *)
LEMMA JobsGoOn ==
  ASSUME RuntimeInv, UNCHANGED runtimeVars,
         \A i \in Jobs : /\ job[i] \in {"idle", "returned"} <=> job'[i] \in {"idle", "returned"}
                         /\ job'[i] \in {"waiting", "running"} => place'[i][1] = lease[i]
  PROVE  GenInv'
<1> USE DEF RuntimeInv, GenInv, runtimeVars
<1>1. LeaseInv'
  BY DEF LeaseInv
<1>2. ChangeInv' /\ TxnInv' /\ CurrentAlive'
  BY DEF ChangeInv, TxnInv, CurrentAlive
<1> QED
  BY <1>1, <1>2

LEMMA SubmitKeeps ==
  ASSUME RuntimeInv, NEW j \in Jobs, SubmitJob(j) PROVE GenInv'
<1> USE DEF RuntimeInv, GenInv, SchedInv, SchedTypeOK
<1>1. job[j] = "ready" /\ UNCHANGED runtimeVars
  BY DEF SubmitJob, AcquireRefused, Acquire, AcquireGranted, AcquireFull, AcquireQueued, Submit
<1>2. CASE AcquireRefused(j)
  <2>1. job' = [job EXCEPT ![j] = "over"] /\ place' = place
    BY <1>2 DEF AcquireRefused
  <2> QED BY <1>1, <2>1, JobsGoOn DEF LeaseInv
<1>3. ASSUME NEW a \in AccountsOf[j], Acquire(j, <<lease[j], a>>) PROVE GenInv'
  <2>1. PICK p \in Places : p = <<lease[j], a>> /\ p[1] = lease[j]
    <3>1. lease[j] \in Schedulers /\ a \in Accounts
      BY <1>1, GenDefs, SchedulerAssumption DEF ImageTypeOK, LeaseInv
    <3> QED BY <3>1, PlaceParts
  <2>2. /\ place' = [place EXCEPT ![j] = p]
        /\ \E ph \in {"running", "over", "waiting"} : job' = [job EXCEPT ![j] = ph]
    BY <1>3, <2>1 DEF Acquire, AcquireGranted, AcquireFull, AcquireQueued, Submit
  <2> QED BY <1>1, <2>1, <2>2, JobsGoOn DEF LeaseInv
<1> QED
  BY <1>2, <1>3 DEF SubmitJob

LEMMA EndKeeps ==
  ASSUME RuntimeInv, NEW j \in Jobs, EndWait(j) \/ EndJob(j) PROVE GenInv'
<1> USE DEF RuntimeInv, GenInv, SchedInv, SchedTypeOK
<1>1. UNCHANGED runtimeVars /\ UNCHANGED place
  BY DEF EndWait, EndJob, RemoveWaiter, Release
<1>2. CASE EndWait(j)
  <2>1. job[j] = "waiting" /\ job' = [job EXCEPT ![j] = "over"]
    BY <1>2 DEF EndWait, RemoveWaiter
  <2> QED BY <1>1, <2>1, JobsGoOn DEF LeaseInv
<1>3. CASE EndJob(j)
  <2>1. PICK p \in Places : p = place[j]
    OBVIOUS
  <2>2. job[j] = "running"
    BY <1>3 DEF EndJob, Release
  <2>3. CASE Vacate(j, p)
    <3>1. job' = [job EXCEPT ![j] = "over"]
      BY <2>3 DEF Vacate
    <3> QED BY <1>1, <2>2, <3>1, JobsGoOn DEF LeaseInv
  <2>4. CASE tenantOrder[p] # << >> /\ PassOn(j, p)
    <3>1. PICK next \in Jobs : next = Head(tenantQueues[p][Head(tenantOrder[p])])
                               /\ Waiting(next)
      BY <2>4, NextInTurn
    <3>2. job' = [job EXCEPT ![j] = "over", ![next] = "running"]
      BY <2>4, <3>1 DEF PassOn
    <3> QED BY <1>1, <2>2, <3>1, <3>2, JobsGoOn DEF LeaseInv, Waiting
  <2> QED BY <1>3, <2>1, <2>3, <2>4 DEF EndJob, Release
<1> QED
  BY <1>2, <1>3

LEMMA AcquireKeeps ==
  ASSUME RuntimeInv, NEW j \in Jobs, AcquireCurrent(j) PROVE GenInv'
<1> USE DEF RuntimeInv, GenInv, SchedInv, SchedTypeOK, ImageTypeOK
<1>1. /\ ~closed /\ job[j] = "idle" /\ job'[j] = "ready" /\ place' = place
      /\ \A i \in Jobs : i # j => job'[i] = job[i] /\ lease'[i] = lease[i]
      /\ lease'[j] = current
      /\ UNCHANGED <<phase, change, current, previous, timers, started, txn, closed>>
  BY DEF AcquireCurrent, Enter
<1>2. phase[current] = "current" /\ current \notin started /\ current # NoGen
  BY <1>1, GenDefs DEF CurrentAlive
<1>3. LeaseInv'
  BY <1>1, <1>2 DEF LeaseInv
<1>4. ChangeInv' /\ TxnInv' /\ CurrentAlive'
  BY <1>1 DEF ChangeInv, TxnInv, CurrentAlive
<1> QED
  BY <1>3, <1>4

LEMMA ReturnKeeps ==
  ASSUME RuntimeInv, NEW j \in Jobs, Return(j), NEW g, g = lease[j] PROVE GenInv'
<1> USE DEF RuntimeInv, GenInv, SchedInv, SchedTypeOK, ImageTypeOK
<1>1. /\ g \in Gens /\ txn = NoGen /\ phase[g] # "unused" /\ job'[j] = "returned"
      /\ \A i \in Jobs : i # j => /\ job'[i] = job[i] /\ place'[i] = place[i]
                                  /\ lease'[i] = lease[i]
      /\ lease'[j] = NoGen
      /\ UNCHANGED <<change, current, previous, txn, closed>>
  BY GenDefs DEF Return, Quiet, Leave, DropLease, LeaseInv
<1>2. /\ timers' \subseteq timers
      /\ \/ /\ \A i \in Jobs \ {j} : lease[i] # g
            /\ phase[g] = "draining" \/ closed
            /\ started' = started \cup {g} /\ phase'[g] = "disposing"
            /\ \A h \in Gens : h # g => phase'[h] = phase[h]
         \/ started' = started /\ phase' = phase
  <2>1. PICK drained \in BOOLEAN : drained <=> \A i \in Jobs \ {j} : lease[i] # g
    OBVIOUS
  <2>2. DisposeIfDrained(g, phase, drained, timers)
    BY <2>1 DEF Return, DropLease, DisposeIfDrained
  <2>3. phase \in [Gens -> Phases]
    OBVIOUS
  <2> HIDE DEF RuntimeInv, GenInv, SchedInv, SchedTypeOK, ImageTypeOK
  <2> QED BY <1>1, <2>1, <2>2, <2>3, DisposalShape
<1>3. LeaseInv'
  <2>1. ASSUME NEW i \in Jobs PROVE lease'[i] \notin started'
    <3>1. CASE i = j
      BY <1>1, <1>2, <3>1, GenDefs
    <3>2. CASE i # j
      BY <1>1, <1>2, <3>2 DEF LeaseInv
    <3> QED BY <3>1, <3>2
  <2>2. ASSUME NEW i \in Jobs, lease'[i] # NoGen PROVE phase'[lease'[i]] # "unused"
    <3>1. lease'[i] = lease[i] /\ lease[i] \in Gens /\ phase[lease[i]] # "unused"
      BY <1>1, <2>2 DEF LeaseInv
    <3> QED BY <1>2, <3>1
  <2> QED BY <1>1, <2>1, <2>2 DEF LeaseInv
<1>4. ChangeInv'
  BY <1>1, <1>2 DEF ChangeInv
<1>5. CurrentAlive'
  BY <1>1, <1>2 DEF CurrentAlive
<1> QED
  BY <1>1, <1>3, <1>4, <1>5 DEF TxnInv

(* Of a step of the generations alone: no lease is given or dropped, and   *)
(* none begun to be disposed has one.                                      *)
LEMMA LeasesKept ==
  ASSUME RuntimeInv, UNCHANGED <<lease, job, place>>,
         \A g \in started' : g \in started \/ ~Leased(g),
         \A g \in Gens : phase'[g] = "unused" => phase[g] = "unused"
  PROVE  LeaseInv'
BY DEF RuntimeInv, GenInv, ImageTypeOK, LeaseInv, Leased

LEMMA TimerKeeps ==
  ASSUME RuntimeInv, NEW g \in Gens, TimerFires(g) PROVE GenInv'
<1> USE DEF RuntimeInv, GenInv, ImageTypeOK
<1>1. /\ txn = NoGen /\ g \in timers /\ phase[g] # "unused"
      /\ UNCHANGED <<job, place, change, current, previous, lease, txn, closed>>
  BY DEF TimerFires, Quiet, schedVars, ChangeInv
<1>2. /\ timers' \subseteq timers
      /\ \/ /\ ~Leased(g) /\ (phase[g] = "draining" \/ closed)
            /\ started' = started \cup {g} /\ phase'[g] = "disposing"
            /\ \A h \in Gens : h # g => phase'[h] = phase[h]
         \/ started' = started /\ phase' = phase
  BY DisposalShape DEF TimerFires
<1>3. LeaseInv'
  BY <1>1, <1>2, LeasesKept
<1>4. ChangeInv'
  BY <1>1, <1>2 DEF ChangeInv
<1>5. CurrentAlive'
  BY <1>1, <1>2 DEF CurrentAlive
<1> QED
  BY <1>1, <1>3, <1>4, <1>5 DEF TxnInv

LEMMA DisposeKeeps ==
  ASSUME RuntimeInv, NEW g \in Gens, Dispose(g) PROVE GenInv'
<1> USE DEF RuntimeInv, GenInv, SchedInv, SchedTypeOK, ImageTypeOK
<1>1. /\ g \in started /\ phase' = [phase EXCEPT ![g] = "disposed"] /\ place' = place
      /\ UNCHANGED <<change, current, previous, lease, timers, started, txn, closed>>
  BY DEF Dispose, Shutdown
<1>2. \A i \in Jobs : \/ job'[i] = job[i]
                      \/ job[i] = "waiting" /\ job'[i] = "over"
  <2>1. job' = [i \in Jobs |->
                  IF job[i] = "waiting" /\ place[i][1] = g THEN "over" ELSE job[i]]
    BY DEF Dispose, Shutdown
  <2> QED BY <2>1
<1>3. LeaseInv'
  BY <1>1, <1>2 DEF LeaseInv
<1>4. ChangeInv' /\ TxnInv' /\ CurrentAlive'
  BY <1>1 DEF ChangeInv, TxnInv, CurrentAlive
<1> QED
  BY <1>3, <1>4

LEMMA PrepareKeeps ==
  ASSUME RuntimeInv, NEW g \in Gens, Prepare(g) PROVE GenInv'
<1> USE DEF RuntimeInv, GenInv, ImageTypeOK
<1>1. /\ txn = NoGen /\ ~closed /\ phase[g] = "unused"
      /\ phase' = [phase EXCEPT ![g] = "prepared"]
      /\ change' = [change EXCEPT ![g] = "prepared"]
      /\ UNCHANGED <<job, place, current, previous, lease, timers, started, txn, closed>>
  BY DEF Prepare, Quiet, schedVars
<1>2. LeaseInv'
  BY <1>1, LeasesKept
<1>3. g # current
  BY <1>1 DEF CurrentAlive
<1>4. ChangeInv'
  BY <1>1, <1>3 DEF ChangeInv
<1>5. CurrentAlive'
  BY <1>1, <1>3 DEF CurrentAlive
<1> QED
  BY <1>1, <1>2, <1>4, <1>5 DEF TxnInv

LEMMA DiscardKeeps ==
  ASSUME RuntimeInv, NEW g \in Gens, Discard(g) PROVE GenInv'
<1> USE DEF RuntimeInv, GenInv, ImageTypeOK
<1>1. /\ txn = NoGen /\ change[g] = "prepared" /\ g # current
      /\ change' = [change EXCEPT ![g] = "disposed"]
      /\ UNCHANGED <<job, place, current, previous, lease, txn, closed>>
  BY DEF Discard, Quiet, schedVars, ChangeInv
<1>2. PICK ph \in [Gens -> Phases] : ph = [phase EXCEPT ![g] = "draining"]
  BY DEF Phases
<1>3. /\ timers' \subseteq timers
      /\ \/ /\ ~Leased(g)
            /\ started' = started \cup {g} /\ phase'[g] = "disposing"
            /\ \A h \in Gens : h # g => phase'[h] = ph[h]
         \/ started' = started /\ phase' = ph
  BY <1>2, DisposalShape DEF Discard
<1>4. phase'[g] \in {"draining", "disposing"} /\ \A h \in Gens : h # g => phase'[h] = phase[h]
  BY <1>2, <1>3
<1>5. LeaseInv'
  BY <1>1, <1>3, <1>4, LeasesKept
<1>6. ChangeInv'
  BY <1>1, <1>3, <1>4 DEF ChangeInv, ChangeStates
<1>7. CurrentAlive'
  BY <1>1, <1>3, <1>4 DEF CurrentAlive
<1> QED
  BY <1>1, <1>5, <1>6, <1>7 DEF TxnInv

LEMMA PublishKeeps ==
  ASSUME RuntimeInv, NEW g \in Gens, Publish(g) PROVE GenInv'
<1> USE DEF RuntimeInv, GenInv, ImageTypeOK
<1>1. /\ ~closed /\ change[g] = "prepared" /\ g # current /\ g \notin started
      /\ current' = g /\ txn' = g
      /\ change' = [change EXCEPT ![g] = "published"]
      /\ previous' = [previous EXCEPT ![g] = current]
      /\ phase' = [phase EXCEPT ![current] = "draining", ![g] = "current"]
      /\ timers' = Schedule(current, timers)
      /\ UNCHANGED <<job, place, lease, started, closed>>
  BY DEF Publish, Swap, schedVars, ChangeInv
<1>2. phase[current] = "current" /\ current \notin started /\ change[current] # "prepared"
  BY <1>1 DEF CurrentAlive, ChangeInv
<1>3. phase'[current] = "draining" /\ phase'[g] = "current"
      /\ \A h \in Gens : h # g /\ h # current => phase'[h] = phase[h]
  BY <1>1
<1>4. LeaseInv'
  BY <1>1, <1>3, LeasesKept
<1>5. ChangeInv'
  <2>1. \A h \in timers' : h \in timers \/ h = current
    BY <1>1 DEF Schedule
  <2> QED BY <1>1, <1>2, <1>3, <2>1 DEF ChangeInv
<1>6. TxnInv'
  BY <1>1, <1>2, <1>3 DEF TxnInv
<1>7. CurrentAlive'
  BY <1>1, <1>3 DEF CurrentAlive
<1> QED
  BY <1>4, <1>5, <1>6, <1>7

LEMMA RollBackKeeps ==
  ASSUME RuntimeInv, RollBack, NEW g, g = txn, NEW old, old = previous[txn] PROVE GenInv'
<1> USE DEF RuntimeInv, GenInv, ImageTypeOK
<1>1. /\ g \in Gens /\ old \in Gens /\ old # g /\ g = current /\ ~closed
      /\ change[old] # "prepared" /\ old \notin started
  BY DEF RollBack, TxnInv
<1>2. /\ txn' = NoGen /\ current' = old
      /\ change' = [change EXCEPT ![g] = "disposed"]
      /\ UNCHANGED <<job, place, lease, closed>>
  BY DEF RollBack, Restore, schedVars
<1>3. PICK ph \in [Gens -> Phases] : ph = [phase EXCEPT ![old] = "current", ![g] = "draining"]
  BY DEF Phases
<1>4. /\ timers' \subseteq timers \ {old}
      /\ \/ /\ ~Leased(g)
            /\ started' = started \cup {g} /\ phase'[g] = "disposing"
            /\ \A h \in Gens : h # g => phase'[h] = ph[h]
         \/ started' = started /\ phase' = ph
  <2>1. DisposeIfDrained(g, ph, ~Leased(g), timers \ {old})
    BY <1>3 DEF RollBack, Restore
  <2> HIDE DEF RuntimeInv, GenInv, ImageTypeOK
  <2> QED BY <1>1, <2>1, DisposalShape
<1>5. /\ phase'[g] \in {"draining", "disposing"} /\ phase'[old] = "current"
      /\ \A h \in Gens : h # g /\ h # old => phase'[h] = phase[h]
  BY <1>1, <1>3, <1>4
<1>6. LeaseInv'
  BY <1>1, <1>2, <1>4, <1>5, LeasesKept
<1>7. change'[g] = "disposed" /\ \A h \in Gens : h # g => change'[h] = change[h]
  BY <1>1, <1>2
<1>8. ChangeInv'
  <2>1. ASSUME NEW h \in Gens, change'[h] = "prepared"
        PROVE  h # old /\ phase'[h] = "prepared" /\ h \notin started'
    BY <1>1, <1>4, <1>5, <1>7, <2>1 DEF ChangeInv
  <2>2. ASSUME NEW h \in Gens, phase'[h] = "unused" PROVE change'[h] = "none" /\ h \notin started'
    BY <1>1, <1>4, <1>5, <1>7, <2>2 DEF ChangeInv
  <2>3. \A h \in timers' : phase'[h] # "unused"
    BY <1>4, <1>5 DEF ChangeInv
  <2> QED BY <1>2, <2>1, <2>2, <2>3 DEF ChangeInv
<1>9. CurrentAlive'
  BY <1>1, <1>2, <1>4, <1>5 DEF CurrentAlive
<1> QED
  BY <1>2, <1>6, <1>8, <1>9 DEF TxnInv

LEMMA CloseKeeps ==
  ASSUME RuntimeInv, Close PROVE GenInv'
<1> USE DEF RuntimeInv, GenInv, ImageTypeOK
<1>1. /\ closed' /\ txn = NoGen /\ timers' = {}
      /\ UNCHANGED <<job, place, lease, change, current, previous, txn>>
      /\ \A g \in started' : g \in started \/ (~Leased(g) /\ phase[g] # "unused")
      /\ \A g \in Gens : phase'[g] = "unused" => phase[g] = "unused" /\ g \notin started'
  <2>1. \A g \in Gens : phase[g] = "unused" => g \notin started
    BY DEF ChangeInv
  <2> QED BY <2>1 DEF Close, Quiet, schedVars
<1>2. LeaseInv'
  BY <1>1, LeasesKept
<1>3. ChangeInv'
  BY <1>1 DEF ChangeInv
<1> QED
  BY <1>1, <1>2, <1>3 DEF TxnInv, CurrentAlive

LEMMA GenStep == ASSUME RuntimeInv, [RuntimeNext]_vars PROVE GenInv'
<1>1. ASSUME NEW j \in Jobs, Request(j) PROVE GenInv'
  BY <1>1, SubmitKeeps, EndKeeps, AcquireKeeps, ReturnKeeps DEF Request
<1>2. ASSUME NEW g \in Gens, Generation(g) PROVE GenInv'
  BY <1>2, TimerKeeps, DisposeKeeps, PrepareKeeps, DiscardKeeps, PublishKeeps DEF Generation
<1>3. CASE Commit
  BY <1>3 DEF Commit, schedVars, RuntimeInv, GenInv, LeaseInv, ChangeInv, TxnInv, CurrentAlive,
              ImageTypeOK
<1>4. CASE UNCHANGED vars
  BY <1>4 DEF vars, schedVars, runtimeVars, RuntimeInv, GenInv, LeaseInv, ChangeInv, TxnInv,
              CurrentAlive
<1> QED
  BY <1>1, <1>2, <1>3, <1>4, RollBackKeeps, CloseKeeps DEF RuntimeNext

-----------------------------------------------------------------------------
(* The theorems.                                                           *)

LEMMA InitRuntimeInv == RuntimeInit => RuntimeInv
<1> SUFFICES ASSUME RuntimeInit PROVE RuntimeInv
  OBVIOUS
<1> USE DEF RuntimeInit, SchedInit
<1>1. SchedTypeOK
  BY PlaceParts, SchedulerAssumption DEF SchedTypeOK, JobPhases
<1>2. WaitingCounted
  <2>1. \A s \in Schedulers : WaitingAt(s) = {}
    BY DEF WaitingAt, Waiting
  <2>2. ASSUME NEW s \in Schedulers
        PROVE  waitingJobs[s] = Cardinality(WaitingAt(s)) /\ waitingJobs[s] <= MaxQueued[s]
    <3>1. waitingJobs[s] = 0 /\ MaxQueued[s] \in Nat
      BY SchedulerAssumption
    <3>2. Cardinality(WaitingAt(s)) = 0
      BY <2>1, NoneCounted
    <3> QED BY <3>1, <3>2
  <2> QED BY <2>2 DEF WaitingCounted
<1>3. FullWhileWaiting
  <2>1. \A p \in Places : RunningAt(p) = {}
    BY DEF RunningAt
  <2>2. \A p \in Places : MaxActive[p[1]] \in Nat
    BY PlaceParts, SchedulerAssumption
  <2>3. ASSUME NEW p \in Places
        PROVE  activeJobs[p] = 0 /\ tenantOrder[p] = << >> /\ Cardinality(RunningAt(p)) = 0
    BY <2>1, NoneCounted
  <2> QED BY <2>2, <2>3 DEF FullWhileWaiting
<1>4. QueuesExact /\ RotationExact /\ NoneAtClosed
  BY DEF QueuesExact, RotationExact, NoneAtClosed, Waiting, Queued, Distinct
<1>5. ImageTypeOK
  BY <1>1, GenDefs DEF ImageTypeOK, Phases, ChangeStates
<1>6. GenInv
  BY GenDefs DEF GenInv, LeaseInv, ChangeInv, TxnInv, CurrentAlive
<1> QED
  BY <1>1, <1>2, <1>3, <1>4, <1>5, <1>6 DEF RuntimeInv, SchedInv

LEMMA StepRuntimeInv == RuntimeInv /\ [RuntimeNext]_vars => RuntimeInv'
<1> SUFFICES ASSUME RuntimeInv, [RuntimeNext]_vars PROVE RuntimeInv'
  OBVIOUS
<1>1. SchedInv'
  BY RuntimeMovesSched, SchedStep DEF RuntimeInv
<1>2. GenTypeOK'
  <2>1. GenTypeOK /\ TxnInv
    BY DEF RuntimeInv, GenInv, ImageTypeOK, GenTypeOK
  <2> QED BY <2>1, RequestType, GenerationType, ManagerType DEF RuntimeNext, vars
<1>3. ImageTypeOK'
  BY <1>1, <1>2 DEF ImageTypeOK, GenTypeOK, SchedInv
<1> QED
  BY <1>1, <1>3, GenStep DEF RuntimeInv

LEMMA RuntimeInvAlways == RuntimeSpec => []RuntimeInv
  BY InitRuntimeInv, StepRuntimeInv, PTL DEF RuntimeSpec

(* The state keeps its type.                                               *)
THEOREM ImageTypeCorrect == RuntimeSpec => []ImageTypeOK
  BY RuntimeInvAlways, PTL DEF RuntimeInv

(* The count of waiting jobs is exact, and never passes its bound.         *)
THEOREM ImageWaitingCounted == RuntimeSpec => []WaitingCounted
  BY RuntimeInvAlways, PTL DEF RuntimeInv, SchedInv

(* The queues hold the jobs that wait, each once and in its place.         *)
THEOREM ImageQueues == RuntimeSpec => []QueuesExact
  BY RuntimeInvAlways, PTL DEF RuntimeInv, SchedInv

(* The rotations hold the tenants with waiting jobs, each once.            *)
THEOREM ImageRotation == RuntimeSpec => []RotationExact
  BY RuntimeInvAlways, PTL DEF RuntimeInv, SchedInv

(* Slots are counted exactly, and nobody waits beside a free one.          *)
THEOREM ImageSlots == RuntimeSpec => []FullWhileWaiting
  BY RuntimeInvAlways, PTL DEF RuntimeInv, SchedInv

(* A tenant moves up with every slot passed to another one.                *)
THEOREM ImageTurns == RuntimeSpec => TurnsKept
<1>1. RuntimeInv /\ [RuntimeNext]_vars =>
        [\A p \in Places : \A i \in DOMAIN tenantOrder[p], k \in DOMAIN tenantOrder'[p] :
           LET t == tenantOrder[p][i] IN
           tenantOrder'[p][k] = t /\ ~Served(p, t) =>
             k <= i /\ ((\E u \in Tenants : Served(p, u)) => k < i)]_schedVars
  BY RuntimeMovesSched, TurnsStep DEF KeepsTurns, RuntimeInv
<1> QED
  BY <1>1, RuntimeInvAlways, PTL DEF RuntimeSpec, TurnsKept

(* The generation in service is alive until the daemon stops.              *)
THEOREM ImageCurrentAlive == RuntimeSpec => []CurrentAlive
  BY RuntimeInvAlways, PTL DEF RuntimeInv, GenInv

(* No generation is disposed under a request that has leased it.           *)
THEOREM ImageNoJobCutOff == RuntimeSpec => []NoJobCutOff
<1>1. RuntimeInv => NoJobCutOff
  BY DEF RuntimeInv, GenInv, LeaseInv, NoJobCutOff
<1> QED
  BY <1>1, RuntimeInvAlways, PTL

-----------------------------------------------------------------------------
(* What has still to be disposed is arranged for: the part of the liveness *)
(* of disposal that needs no fairness.                                     *)

(* A generation that was given up waits for a lease to end, has its timer  *)
(* armed, or has begun to be disposed: none is forgotten.                  *)
DisposalArranged ==
  /\ \A g \in Gens : phase[g] = "draining" => Leased(g) \/ g \in timers \/ g \in started
  /\ \A g \in Gens : phase[g] \in {"disposing", "disposed"} => g \in started

(* A timer is armed for a generation that was replaced and has no lease,   *)
(* so that it disposes no other when it fires.                             *)
TimersForDrained ==
  \A g \in timers : phase[g] = "draining" /\ g \notin started /\ ~Leased(g) /\ ~closed

(* The manager that is disposed leaves no generation in service.           *)
NoneOpenOnceClosed == closed => \A g \in Gens : phase[g] \notin {"prepared", "current"}

DisposalInv == DisposalArranged /\ TimersForDrained /\ NoneOpenOnceClosed

(* What becomes of the generation g where ph and ts are the phases and the *)
(* timers that the step leaves but for the disposal.                       *)
LEMMA DisposalCases ==
  ASSUME NEW g \in Gens, NEW ph \in [Gens -> Phases], NEW drained, NEW ts \in SUBSET Gens,
         DisposeIfDrained(g, ph, drained, ts)
  PROVE  \/ /\ drained
            /\ started' = started \cup {g} /\ timers' = ts \ {g}
            /\ phase'[g] = "disposing" /\ \A h \in Gens : h # g => phase'[h] = ph[h]
         \/ /\ drained /\ ph[g] = "draining" => g \in started
            /\ started' = started /\ timers' = ts /\ phase' = ph
BY DEF DisposeIfDrained

LEMMA DisposalInit == RuntimeInit => DisposalInv
BY GenDefs DEF RuntimeInit, DisposalInv, DisposalArranged, TimersForDrained, NoneOpenOnceClosed

(* Steps that leave the generations and the leases alone.                  *)
LEMMA DisposalSame ==
  ASSUME DisposalInv, UNCHANGED <<phase, lease, timers, started, closed>>
  PROVE  DisposalInv'
BY DEF DisposalInv, DisposalArranged, TimersForDrained, NoneOpenOnceClosed, Leased

LEMMA AcquireArranged ==
  ASSUME RuntimeInv, DisposalInv, NEW j \in Jobs, AcquireCurrent(j) PROVE DisposalInv'
<1> USE DEF DisposalInv
<1>1. /\ ~closed /\ job[j] = "idle" /\ lease' = [lease EXCEPT ![j] = current]
      /\ UNCHANGED <<phase, timers, started, closed>>
  BY DEF AcquireCurrent, Enter
<1>2. lease[j] = NoGen /\ lease \in [Jobs -> Gens \cup {NoGen}] /\ phase[current] = "current"
  BY <1>1 DEF RuntimeInv, ImageTypeOK, GenInv, LeaseInv, CurrentAlive
<1>3. \A g \in Gens : /\ Leased(g) => Leased(g)'
                      /\ g # current /\ Leased(g)' => Leased(g)
  BY <1>1, <1>2, GenDefs DEF Leased
<1>4. DisposalArranged'
  BY <1>1, <1>3 DEF DisposalArranged
<1>5. TimersForDrained'
  BY <1>1, <1>2, <1>3 DEF TimersForDrained, RuntimeInv, ImageTypeOK
<1> QED
  BY <1>1, <1>4, <1>5 DEF NoneOpenOnceClosed

LEMMA ReturnArranged ==
  ASSUME RuntimeInv, DisposalInv, NEW j \in Jobs, Return(j), NEW g, g = lease[j]
  PROVE  DisposalInv'
<1> USE DEF DisposalInv
<1>1. /\ g \in Gens /\ g \notin started /\ Leased(g) /\ UNCHANGED closed
      /\ lease' = [lease EXCEPT ![j] = NoGen] /\ lease \in [Jobs -> Gens \cup {NoGen}]
      /\ phase \in [Gens -> Phases] /\ timers \in SUBSET Gens
  BY GenDefs DEF Return, DropLease, RuntimeInv, ImageTypeOK, GenInv, LeaseInv, Leased
<1>2. /\ \A h \in Gens : Leased(h)' => Leased(h)
      /\ \A h \in Gens : h # g /\ Leased(h) => Leased(h)'
      /\ ~Leased(g)' <=> \A i \in Jobs \ {j} : lease[i] # g
  BY <1>1, GenDefs DEF Leased
<1>3. PICK drained \in BOOLEAN : drained <=> \A i \in Jobs \ {j} : lease[i] # g
  OBVIOUS
<1>4. DisposeIfDrained(g, phase, drained, timers)
  BY <1>3 DEF Return, DropLease, DisposeIfDrained
<1>5. g \notin timers /\ phase[g] \notin {"disposing", "disposed"}
  BY <1>1 DEF TimersForDrained, DisposalArranged
<1>6. \/ /\ started' = started \cup {g} /\ timers' = timers \ {g}
         /\ phase'[g] = "disposing" /\ \A h \in Gens : h # g => phase'[h] = phase[h]
      \/ /\ drained /\ phase[g] = "draining" => g \in started
         /\ started' = started /\ timers' = timers /\ phase' = phase
  BY <1>1, <1>4, DisposalCases
<1>7. DisposalArranged'
  <2>1. ASSUME NEW h \in Gens, phase'[h] = "draining"
        PROVE  Leased(h)' \/ h \in timers' \/ h \in started'
    BY <1>1, <1>2, <1>3, <1>5, <1>6, <2>1 DEF DisposalArranged
  <2>2. ASSUME NEW h \in Gens, phase'[h] \in {"disposing", "disposed"} PROVE h \in started'
    BY <1>6, <2>2 DEF DisposalArranged
  <2> QED BY <2>1, <2>2 DEF DisposalArranged
<1>8. TimersForDrained'
  BY <1>1, <1>2, <1>5, <1>6 DEF TimersForDrained
<1>9. NoneOpenOnceClosed'
  BY <1>1, <1>6 DEF NoneOpenOnceClosed
<1> QED
  BY <1>7, <1>8, <1>9

LEMMA TimerArranged ==
  ASSUME RuntimeInv, DisposalInv, NEW g \in Gens, TimerFires(g) PROVE DisposalInv'
<1> USE DEF DisposalInv
<1>1. /\ g \in timers /\ UNCHANGED <<lease, closed>>
      /\ DisposeIfDrained(g, phase, ~Leased(g), timers \ {g})
      /\ phase \in [Gens -> Phases] /\ timers \ {g} \in SUBSET Gens
  BY DEF TimerFires, RuntimeInv, ImageTypeOK
<1>2. phase[g] = "draining" /\ g \notin started /\ ~Leased(g) /\ ~closed
  BY <1>1 DEF TimersForDrained
<1>3. /\ started' = started \cup {g} /\ timers' = timers \ {g}
      /\ phase'[g] = "disposing" /\ \A h \in Gens : h # g => phase'[h] = phase[h]
  BY <1>1, <1>2, DisposalCases
<1>4. DisposalArranged'
  BY <1>1, <1>3 DEF DisposalArranged, Leased
<1>5. TimersForDrained'
  BY <1>1, <1>3 DEF TimersForDrained, Leased
<1> QED
  BY <1>1, <1>2, <1>4, <1>5 DEF NoneOpenOnceClosed

LEMMA PreparedArranged ==
  ASSUME RuntimeInv, DisposalInv, NEW g \in Gens, Dispose(g) \/ Prepare(g) PROVE DisposalInv'
<1> USE DEF DisposalInv, RuntimeInv, ImageTypeOK
<1>1. /\ UNCHANGED <<lease, timers, started, closed>>
      /\ \A h \in Gens : h # g => phase'[h] = phase[h]
      /\ \/ phase'[g] = "disposed" /\ g \in started
         \/ phase'[g] = "prepared" /\ phase[g] = "unused" /\ ~closed
  BY DEF Dispose, Prepare
<1>2. DisposalArranged'
  BY <1>1 DEF DisposalArranged, Leased
<1>3. TimersForDrained'
  BY <1>1 DEF TimersForDrained, Leased
<1> QED
  BY <1>1, <1>2, <1>3 DEF NoneOpenOnceClosed

LEMMA DiscardArranged ==
  ASSUME RuntimeInv, DisposalInv, NEW g \in Gens, Discard(g) PROVE DisposalInv'
<1> USE DEF DisposalInv
<1>1. /\ change[g] = "prepared" /\ UNCHANGED <<lease, closed>>
      /\ DisposeIfDrained(g, [phase EXCEPT ![g] = "draining"], ~Leased(g), timers)
      /\ phase \in [Gens -> Phases] /\ timers \in SUBSET Gens
  BY DEF Discard, RuntimeInv, ImageTypeOK
<1>2. PICK ph \in [Gens -> Phases] : ph = [phase EXCEPT ![g] = "draining"]
  BY <1>1 DEF Phases
<1>3. g \notin timers
  BY <1>1 DEF TimersForDrained, RuntimeInv, GenInv, ChangeInv
<1>4. ph[g] = "draining" /\ \A h \in Gens : h # g => ph[h] = phase[h]
  BY <1>1, <1>2
<1>5. /\ timers' = timers
      /\ \A h \in Gens : h # g => phase'[h] = phase[h]
      /\ phase'[g] \in {"draining", "disposing"}
      /\ \/ started' = started \cup {g}
         \/ started' = started /\ phase'[g] = "draining" /\ (Leased(g) \/ g \in started)
  <2>1. DisposeIfDrained(g, ph, ~Leased(g), timers)
    BY <1>1, <1>2
  <2>2. \/ /\ started' = started \cup {g} /\ timers' = timers \ {g}
           /\ phase'[g] = "disposing" /\ \A h \in Gens : h # g => phase'[h] = ph[h]
        \/ /\ ~Leased(g) /\ ph[g] = "draining" => g \in started
           /\ started' = started /\ timers' = timers /\ phase' = ph
    <3> HIDE DEF DisposalInv
    <3> QED BY <1>1, <2>1, DisposalCases
  <2> QED BY <1>3, <1>4, <2>2
<1>6. DisposalArranged'
  BY <1>1, <1>5 DEF DisposalArranged, Leased
<1>7. TimersForDrained'
  BY <1>1, <1>3, <1>5 DEF TimersForDrained, Leased
<1> QED
  BY <1>1, <1>5, <1>6, <1>7 DEF NoneOpenOnceClosed

LEMMA PublishArranged ==
  ASSUME RuntimeInv, DisposalInv, NEW g \in Gens, Publish(g) PROVE DisposalInv'
<1> USE DEF DisposalInv
<1>1. /\ ~closed /\ g # current /\ current \in Gens /\ phase[current] = "current"
      /\ current \notin started /\ phase[g] = "prepared"
  BY DEF Publish, RuntimeInv, ImageTypeOK, GenInv, ChangeInv, CurrentAlive
<1>2. /\ timers' = Schedule(current, timers) /\ UNCHANGED <<lease, started, closed>>
      /\ phase'[current] = "draining" /\ phase'[g] = "current"
      /\ \A h \in Gens : h # g /\ h # current => phase'[h] = phase[h]
  BY <1>1 DEF Publish, RuntimeInv, ImageTypeOK
<1>3. DisposalArranged'
  BY <1>1, <1>2 DEF DisposalArranged, Leased, Schedule
<1>4. TimersForDrained'
  BY <1>1, <1>2 DEF TimersForDrained, Leased, Schedule, RuntimeInv, ImageTypeOK
<1> QED
  BY <1>1, <1>2, <1>3, <1>4 DEF NoneOpenOnceClosed

LEMMA RollBackArranged ==
  ASSUME RuntimeInv, DisposalInv, RollBack, NEW g, g = txn, NEW old, old = previous[txn]
  PROVE  DisposalInv'
<1> USE DEF DisposalInv
<1>1. /\ g \in Gens /\ old \in Gens /\ old # g /\ g = current /\ ~closed
      /\ phase[g] = "current" /\ g \notin started /\ old \notin started
      /\ phase \in [Gens -> Phases] /\ timers \ {old} \in SUBSET Gens
      /\ UNCHANGED <<lease, closed>>
  BY DEF RollBack, TxnInv, RuntimeInv, ImageTypeOK, GenInv, CurrentAlive
<1>2. PICK ph \in [Gens -> Phases] : ph = [phase EXCEPT ![old] = "current", ![g] = "draining"]
  BY <1>1 DEF Phases
<1>3. /\ ph[g] = "draining" /\ ph[old] = "current"
      /\ \A h \in Gens : h # g /\ h # old => ph[h] = phase[h]
  BY <1>1, <1>2
<1>4. DisposeIfDrained(g, ph, ~Leased(g), timers \ {old})
  BY <1>2 DEF RollBack, Restore
<1>5. g \notin timers
  BY <1>1 DEF TimersForDrained
<1>6. /\ timers' = timers \ {old}
      /\ phase'[old] = "current" /\ \A h \in Gens : h # g /\ h # old => phase'[h] = phase[h]
      /\ phase'[g] \in {"draining", "disposing"}
      /\ \/ started' = started \cup {g}
         \/ started' = started /\ phase'[g] = "draining" /\ Leased(g)
  <2>1. \/ /\ started' = started \cup {g} /\ timers' = (timers \ {old}) \ {g}
           /\ phase'[g] = "disposing" /\ \A h \in Gens : h # g => phase'[h] = ph[h]
        \/ /\ ~Leased(g) /\ ph[g] = "draining" => g \in started
           /\ started' = started /\ timers' = timers \ {old} /\ phase' = ph
    <3> HIDE DEF DisposalInv
    <3> QED BY <1>1, <1>4, DisposalCases
  <2> QED BY <1>1, <1>3, <1>5, <2>1
<1>7. DisposalArranged'
  BY <1>1, <1>6 DEF DisposalArranged, Leased
<1>8. TimersForDrained'
  BY <1>1, <1>5, <1>6 DEF TimersForDrained, Leased, RuntimeInv, ImageTypeOK
<1> QED
  BY <1>1, <1>7, <1>8 DEF NoneOpenOnceClosed

LEMMA CloseArranged ==
  ASSUME RuntimeInv, DisposalInv, Close PROVE DisposalInv'
<1> USE DEF DisposalInv
<1> DEFINE open == {g \in Gens : phase[g] \in {"prepared", "current", "draining"}}
           gone == {g \in open \ started : ~Leased(g)}
<1>1. /\ timers' = {} /\ UNCHANGED lease /\ started' = started \cup gone
      /\ \A g \in Gens : phase'[g] = IF g \in gone THEN "disposing"
                                      ELSE IF g \in open THEN "draining" ELSE phase[g]
  BY DEF Close
<1>2. DisposalArranged'
  BY <1>1 DEF DisposalArranged, Leased
<1>3. TimersForDrained' /\ NoneOpenOnceClosed'
  BY <1>1 DEF TimersForDrained, NoneOpenOnceClosed
<1> QED
  BY <1>2, <1>3

LEMMA DisposalStep ==
  ASSUME RuntimeInv, DisposalInv, [RuntimeNext]_vars PROVE DisposalInv'
<1>1. ASSUME NEW j \in Jobs, Request(j) PROVE DisposalInv'
  <2>1. CASE SubmitJob(j) \/ EndWait(j) \/ EndJob(j)
    BY <2>1, DisposalSame DEF SubmitJob, EndWait, EndJob, runtimeVars
  <2> QED BY <1>1, <2>1, AcquireArranged, ReturnArranged DEF Request
<1>2. ASSUME NEW g \in Gens, Generation(g) PROVE DisposalInv'
  BY <1>2, TimerArranged, PreparedArranged, DiscardArranged, PublishArranged DEF Generation
<1>3. CASE Commit \/ UNCHANGED vars
  BY <1>3, DisposalSame DEF Commit, vars, runtimeVars
<1> QED
  BY <1>1, <1>2, <1>3, RollBackArranged, CloseArranged DEF RuntimeNext

LEMMA DisposalAlways == RuntimeSpec => []DisposalInv
  BY RuntimeInvAlways, DisposalInit, DisposalStep, PTL DEF RuntimeSpec

(* No generation that was replaced, discarded or rolled back is forgotten, *)
(* and no pending timer is for one in use: the safety half of              *)
(* GenerationsEnd.                                                         *)
THEOREM ImageDisposalArranged == RuntimeSpec => [](DisposalArranged /\ TimersForDrained)
  BY DisposalAlways, PTL DEF DisposalInv

(* Once the daemon stops, a generation that was ever prepared has begun to *)
(* be disposed, or a request still holds it.                               *)
THEOREM ImageNoneLeftOpen ==
  RuntimeSpec => [](closed => \A g \in Gens :
                      phase[g] # "unused" => Leased(g) \/ g \in started)
<1>1. RuntimeInv /\ DisposalInv =>
        (closed => \A g \in Gens : phase[g] # "unused" => Leased(g) \/ g \in started)
  BY DEF RuntimeInv, ImageTypeOK, Phases, DisposalInv, DisposalArranged, TimersForDrained,
         NoneOpenOnceClosed
<1> QED
  BY <1>1, RuntimeInvAlways, DisposalAlways, PTL
=============================================================================
