--------------------------- MODULE ImageScheduler ---------------------------
(***************************************************************************)
(* The image execution schedulers of the daemon                            *)
(* (daemon/src/image-generation/ImageExecutionScheduler.ts).  A scheduler  *)
(* admits jobs to upstream accounts: each account runs a bounded number at *)
(* once, the others wait in one queue per tenant, the tenants of an        *)
(* account are served in turn, and the waiting jobs of all accounts        *)
(* together are bounded.                                                   *)
(*                                                                         *)
(* Every runtime generation owns a scheduler; the state is indexed by      *)
(* scheduler and account, an account without state in the program's map    *)
(* being one with no slots in use and empty queues (pruneAccount).         *)
(***************************************************************************)
EXTENDS Integers, FiniteSets, Waitlist

CONSTANTS
  Schedulers,     \* the schedulers, one per runtime generation
  Accounts,       \* opaque account keys
  Tenants,        \* tenant keys
  Jobs,           \* image jobs, each submitted at most once
  TenantOf,       \* the tenant of a job
  AccountsOf,     \* the accounts that may be selected for a job
  MaxActive,      \* images.queue.maxConcurrentJobsPerAccount
  MaxQueued       \* images.queue.maxQueuedJobs, both of a scheduler's snapshot

ASSUME SchedulerAssumption ==
  /\ Schedulers # {} /\ Accounts # {}
  /\ IsFiniteSet(Jobs)
  /\ TenantOf \in [Jobs -> Tenants]
  /\ AccountsOf \in [Jobs -> SUBSET Accounts]
  /\ MaxActive \in [Schedulers -> Nat \ {0}]
  /\ MaxQueued \in [Schedulers -> Nat \ {0}]

VARIABLES
  activeJobs,     \* slots in use, per scheduler and account
  tenantQueues,   \* waiting jobs, per scheduler, account and tenant
  tenantOrder,    \* the tenants whose turn comes next
  waitingJobs,    \* waiting jobs of a scheduler
  shuttingDown,   \* schedulers that have been shut down
  job,            \* what became of each job
  place           \* the scheduler and account a job was submitted to

schedVars ==
  <<activeJobs, tenantQueues, tenantOrder, waitingJobs, shuttingDown, job, place>>

Places == Schedulers \X Accounts
\* Where a job is that has not been submitted, or is over and forgotten.
Nowhere == CHOOSE p \in Places : TRUE

JobPhases == {"idle", "ready", "waiting", "running", "over", "returned"}

\* The operators named MinusTwo, LeaveOrder, CountForgotten, NotSpliced,
\* RequeueFirst and NoDrain are faulty variants of the operator that follows
\* them.

SchedInit ==
  /\ activeJobs = [p \in Places |-> 0]
  /\ tenantQueues = [p \in Places |-> [t \in Tenants |-> << >>]]
  /\ tenantOrder = [p \in Places |-> << >>]
  /\ waitingJobs = [s \in Schedulers |-> 0]
  /\ shuttingDown = {}
  /\ job = [j \in Jobs |-> "idle"]
  /\ place = [j \in Jobs |-> Nowhere]

-----------------------------------------------------------------------------
(* acquire()                                                               *)

MinusTwo(n) == n - 2

\* Math.max(0, n - 1)
OneLess(n) == IF n > 0 THEN n - 1 ELSE 0

HasSlot(p) == activeJobs[p] < MaxActive[p[1]]

QueueFull(p) == waitingJobs[p[1]] >= MaxQueued[p[1]]

\* A tenant with no waiting job joins the rotation at its end.
JoinRotation(p, t) ==
  IF tenantQueues[p][t] = << >>
  THEN tenantOrder' = [tenantOrder EXCEPT ![p] = Append(@, t)]
  ELSE UNCHANGED tenantOrder

\* The caller's signal is aborted already, or nothing is accepted any more.
AcquireRefused(j) ==
  /\ job[j] = "ready"
  /\ job' = [job EXCEPT ![j] = "over"]
  /\ UNCHANGED <<activeJobs, tenantQueues, tenantOrder, waitingJobs, shuttingDown, place>>

Submit(j, p) ==
  /\ job[j] = "ready"
  /\ p[1] \notin shuttingDown
  /\ place' = [place EXCEPT ![j] = p]

AcquireGranted(j, p) ==
  /\ Submit(j, p)
  /\ HasSlot(p)
  /\ activeJobs' = [activeJobs EXCEPT ![p] = @ + 1]
  /\ job' = [job EXCEPT ![j] = "running"]
  /\ UNCHANGED <<tenantQueues, tenantOrder, waitingJobs, shuttingDown>>

AcquireFull(j, p) ==
  /\ Submit(j, p)
  /\ ~HasSlot(p)
  /\ QueueFull(p)
  /\ job' = [job EXCEPT ![j] = "over"]
  /\ UNCHANGED <<activeJobs, tenantQueues, tenantOrder, waitingJobs, shuttingDown>>

AcquireQueued(j, p) ==
  /\ Submit(j, p)
  /\ ~HasSlot(p)
  /\ ~QueueFull(p)
  /\ JoinRotation(p, TenantOf[j])
  /\ tenantQueues' = [tenantQueues EXCEPT ![p][TenantOf[j]] = Append(@, j)]
  /\ waitingJobs' = [waitingJobs EXCEPT ![p[1]] = @ + 1]
  /\ job' = [job EXCEPT ![j] = "waiting"]
  /\ UNCHANGED <<activeJobs, shuttingDown>>

Acquire(j, p) == AcquireGranted(j, p) \/ AcquireFull(j, p) \/ AcquireQueued(j, p)

-----------------------------------------------------------------------------
(* removeWaiter(): the queue timeout, or the caller's abort, whose         *)
(* listener runs at once: no waiter in a queue ever has an aborted signal. *)

LeaveOrder(j) ==
  LET p == place[j]
      t == TenantOf[j]
  IN  /\ job[j] = "waiting"
      /\ tenantQueues' = [tenantQueues EXCEPT ![p][t] = Without(@, j)]
      /\ waitingJobs' = [waitingJobs EXCEPT ![p[1]] = OneLess(@)]
      /\ job' = [job EXCEPT ![j] = "over"]
      /\ UNCHANGED <<activeJobs, tenantOrder, shuttingDown, place>>

CountForgotten(j) ==
  LET p == place[j]
      t == TenantOf[j]
      left == Without(tenantQueues[p][t], j)
  IN  /\ job[j] = "waiting"
      /\ tenantQueues' = [tenantQueues EXCEPT ![p][t] = left]
      /\ tenantOrder' = IF left = << >> THEN [tenantOrder EXCEPT ![p] = Without(@, t)]
                                        ELSE tenantOrder
      /\ job' = [job EXCEPT ![j] = "over"]
      /\ UNCHANGED <<activeJobs, waitingJobs, shuttingDown, place>>

NotSpliced(j) ==
  /\ job[j] = "waiting"
  /\ waitingJobs' = [waitingJobs EXCEPT ![place[j][1]] = OneLess(@)]
  /\ job' = [job EXCEPT ![j] = "over"]
  /\ UNCHANGED <<activeJobs, tenantQueues, tenantOrder, shuttingDown, place>>

RemoveWaiter(j) ==
  LET p == place[j]
      t == TenantOf[j]
      left == Without(tenantQueues[p][t], j)
  IN  /\ job[j] = "waiting"
      /\ tenantQueues' = [tenantQueues EXCEPT ![p][t] = left]
      /\ tenantOrder' = IF left = << >> THEN [tenantOrder EXCEPT ![p] = Without(@, t)]
                                        ELSE tenantOrder
      /\ waitingJobs' = [waitingJobs EXCEPT ![p[1]] = OneLess(@)]
      /\ job' = [job EXCEPT ![j] = "over"]
      /\ UNCHANGED <<activeJobs, shuttingDown, place>>

-----------------------------------------------------------------------------
(* release() of a grant.  Its slot goes to the next waiter of the account: *)
(* the loop of drain() ends after one grant, since waiters are only found  *)
(* when every slot of the account is in use (FullWhileWaiting).            *)

\* The slot is given back and nobody is waiting, or the scheduler was shut down.
Vacate(j, p) ==
  /\ activeJobs' = [activeJobs EXCEPT ![p] = OneLess(@)]
  /\ job' = [job EXCEPT ![j] = "over"]
  /\ UNCHANGED <<tenantQueues, tenantOrder, waitingJobs>>

RequeueFirst(p, t) ==
  IF Tail(tenantQueues[p][t]) = << >> THEN Tail(tenantOrder[p]) ELSE tenantOrder[p]

\* tenantOrder after takeNextWaiter() has served its first tenant t, which
\* goes to the end as long as it has another job waiting.
OrderAfter(p, t) ==
  IF Tail(tenantQueues[p][t]) = << >> THEN Tail(tenantOrder[p])
                                      ELSE Append(Tail(tenantOrder[p]), t)

\* The slot of j passes to the first job of the tenant whose turn it is.
PassOn(j, p) ==
  LET t == Head(tenantOrder[p])
      next == Head(tenantQueues[p][t])
  IN  /\ activeJobs' = [activeJobs EXCEPT ![p] = OneLess(@) + 1]
      /\ tenantQueues' = [tenantQueues EXCEPT ![p][t] = Tail(@)]
      /\ tenantOrder' = [tenantOrder EXCEPT ![p] = OrderAfter(p, t)]
      /\ waitingJobs' = [waitingJobs EXCEPT ![p[1]] = OneLess(@)]
      /\ job' = [job EXCEPT ![j] = "over", ![next] = "running"]

NoDrain(j) ==
  /\ job[j] = "running"
  /\ Vacate(j, place[j])
  /\ UNCHANGED <<shuttingDown, place>>

Release(j) ==
  LET p == place[j] IN
  /\ job[j] = "running"
  /\ IF p[1] \in shuttingDown \/ tenantOrder[p] = << >> THEN Vacate(j, p) ELSE PassOn(j, p)
  /\ UNCHANGED <<shuttingDown, place>>

-----------------------------------------------------------------------------
\* shutdown(): every waiter is rejected; the running jobs are told to abort
\* and release their slots later.
Shutdown(s) ==
  /\ shuttingDown' = shuttingDown \cup {s}
  /\ tenantQueues' =
       [p \in Places |-> IF p[1] = s THEN [t \in Tenants |-> << >>] ELSE tenantQueues[p]]
  /\ tenantOrder' = [p \in Places |-> IF p[1] = s THEN << >> ELSE tenantOrder[p]]
  /\ waitingJobs' = [waitingJobs EXCEPT ![s] = 0]
  /\ job' = [j \in Jobs |->
               IF job[j] = "waiting" /\ place[j][1] = s THEN "over" ELSE job[j]]
  /\ UNCHANGED <<activeJobs, place>>

\* A caller that comes to the scheduler, and one that has nothing to ask it.
Enter(j) ==
  /\ job[j] = "idle"
  /\ job' = [job EXCEPT ![j] = "ready"]
  /\ UNCHANGED <<activeJobs, tenantQueues, tenantOrder, waitingJobs, shuttingDown, place>>

Leave(j) ==
  /\ job[j] \in {"ready", "over"}
  /\ job' = [job EXCEPT ![j] = "returned"]
  /\ place' = [place EXCEPT ![j] = Nowhere]
  /\ UNCHANGED <<activeJobs, tenantQueues, tenantOrder, waitingJobs, shuttingDown>>

SchedNext ==
  \/ \E j \in Jobs :
       \/ Enter(j) \/ AcquireRefused(j) \/ RemoveWaiter(j) \/ Release(j) \/ Leave(j)
       \/ \E s \in Schedulers, a \in AccountsOf[j] : Acquire(j, <<s, a>>)
  \/ \E s \in Schedulers : Shutdown(s)

SchedSpec == SchedInit /\ [][SchedNext]_schedVars

-----------------------------------------------------------------------------
(* Properties.                                                             *)

Waiting(j) == job[j] = "waiting"
WaitingAt(s) == {j \in Jobs : Waiting(j) /\ place[j][1] = s}
RunningAt(p) == {j \in Jobs : job[j] = "running" /\ place[j] = p}

SchedTypeOK ==
  /\ activeJobs \in [Places -> Nat]
  /\ tenantQueues \in [Places -> [Tenants -> Seq(Jobs)]]
  /\ tenantOrder \in [Places -> Seq(Tenants)]
  /\ waitingJobs \in [Schedulers -> Nat]
  /\ shuttingDown \subseteq Schedulers
  /\ job \in [Jobs -> JobPhases]
  /\ place \in [Jobs -> Places]

\* The one number the bound on waiting jobs is compared with is the number of
\* jobs that wait, over all accounts and tenants and whatever ends of a wait
\* raced: the bound neither leaks shut nor lets the queues grow past it.
WaitingCounted ==
  \A s \in Schedulers :
    waitingJobs[s] = Cardinality(WaitingAt(s)) /\ waitingJobs[s] <= MaxQueued[s]

\* A waiting job is in the queue of its tenant at its account, once, and no
\* other job is.
QueuesExact ==
  \A p \in Places : \A t \in Tenants :
    /\ Distinct(tenantQueues[p][t])
    /\ \A j \in Jobs :
         Queued(tenantQueues[p][t], j) <=> Waiting(j) /\ place[j] = p /\ TenantOf[j] = t

\* The rotation of an account holds each tenant that has a job waiting there,
\* once, and no other: no tenant is forgotten, none is served twice a round.
RotationExact ==
  \A p \in Places :
    /\ Distinct(tenantOrder[p])
    /\ \A t \in Tenants : Queued(tenantOrder[p], t) <=> tenantQueues[p][t] # << >>

\* Slots are neither leaked nor handed out twice, and jobs wait at an account
\* only while every slot of it is in use.
FullWhileWaiting ==
  \A p \in Places :
    /\ activeJobs[p] = Cardinality(RunningAt(p))
    /\ activeJobs[p] <= MaxActive[p[1]]
    /\ tenantOrder[p] # << >> => activeJobs[p] = MaxActive[p[1]]

\* A waiting job of tenant t is passed a slot at p.
Served(p, t) ==
  \E j \in Jobs :
    Waiting(j) /\ job'[j] = "running" /\ place[j] = p /\ TenantOf[j] = t

\* While a tenant waits its place in the rotation never falls back, and moves
\* up with every slot another tenant's job is passed, until a job of its own is
\* passed one: the jobs of another tenant, old or new, never overtake it twice.
TurnsKept ==
  [][\A p \in Places : \A i \in DOMAIN tenantOrder[p], k \in DOMAIN tenantOrder'[p] :
       LET t == tenantOrder[p][i] IN
       tenantOrder'[p][k] = t /\ ~Served(p, t) =>
         k <= i /\ ((\E u \in Tenants : Served(p, u)) => k < i)]_schedVars
=============================================================================
