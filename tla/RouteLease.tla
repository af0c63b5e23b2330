----------------------------- MODULE RouteLease -----------------------------
(***************************************************************************)
(* Route leases (core/src/provider-proxy/RouteLeaseManager.ts) over the    *)
(* route map of the resident proxy (providerProxyRouteMap.ts).  A lease is *)
(* named by the create call that makes it; its route token names the same. *)
(*                                                                         *)
(* There are two clocks: Date.now, which expiresAtMs is compared with, and *)
(* the one timers run on.  They drift: the machine sleeps, the wall clock  *)
(* is set.  A timer that is due fires now or later.  The order and bound   *)
(* of the tombstones are left out: `status' is what the metadata says.     *)
(***************************************************************************)
EXTENDS Integers, FiniteSets

CONSTANTS
  Calls,          \* calls of create
  Keys,           \* consumer and idempotency key
  KeyOf,          \* the key of each call
  PayloadOf,      \* the semantic payload of each call
  TtlOf,          \* the lifetime each call asks for, in ticks
  Renewals,       \* the lifetimes a renewal may ask for, in ticks
  MaxRenewals,    \* bound: renewals of one lease
  None

ASSUME LeaseAssumption ==
  /\ KeyOf \in [Calls -> Keys]
  /\ TtlOf \in [Calls -> Nat \ {0}]
  /\ Renewals \subseteq Nat \ {0}
  /\ MaxRenewals \in Nat
  /\ None \notin Calls

VARIABLES
  closed,         \* RouteLeaseManager.closed
  status,         \* active, or what the tombstone says
  idempotency,    \* the lease each key stands for
  pending,        \* the call that resolves the target for each key
  routes,         \* the route tokens the proxy accepts
  expiresIn,      \* expiresAtMs less the wall clock, 0 once it is past
  timerIn,        \* what is left of the lease's timer, or NotArmed
  idleIn,         \* what is left of the route's idle timer, or NotArmed
  idleMs,         \* the idle time of each route
  renewed,        \* renewals so far, at most MaxRenewals
  call            \* what became of each call

vars == <<closed, status, idempotency, pending, routes, expiresIn, timerIn,
          idleIn, idleMs, renewed, call>>
timers == <<expiresIn, timerIn, idleIn, idleMs>>
lease == <<status, idempotency, routes>>

NotArmed == -1
Statuses == {"none", "active", "released", "expired"}
Outcomes == {"idle", "resolving", "waiting", "created", "replayed", "refused"}

Active == {c \in Calls : status[c] = "active"}

LeaseInit ==
  /\ closed = FALSE
  /\ status = [c \in Calls |-> "none"]
  /\ idempotency = [x \in Keys |-> None]
  /\ pending = [x \in Keys |-> None]
  /\ routes = {}
  /\ expiresIn = [c \in Calls |-> 0]
  /\ timerIn = [c \in Calls |-> NotArmed]
  /\ idleIn = [c \in Calls |-> NotArmed]
  /\ idleMs = [c \in Calls |-> 0]
  /\ renewed = [c \in Calls |-> 0]
  /\ call = [c \in Calls |-> "idle"]

-----------------------------------------------------------------------------
(* finalize: the leases are over, and their keys, timers and routes go.    *)
(* RouteForgotten, LookBehind, WaitersForgotten, PublishAnyway,            *)
(* TimerForgotten and Under are faulty variants of the definitions that    *)
(* follow them.                                                            *)

\* What the records of the leases held is gone with them.
Dropped(leases) ==
  /\ expiresIn' = [c \in Calls |-> IF c \in leases THEN 0 ELSE expiresIn[c]]
  /\ idleMs' = [c \in Calls |-> IF c \in leases THEN 0 ELSE idleMs[c]]
  /\ renewed' = [c \in Calls |-> IF c \in leases THEN 0 ELSE renewed[c]]

RouteForgotten(leases, how) ==
  /\ status' = [c \in Calls |-> IF c \in leases THEN how ELSE status[c]]
  /\ idempotency' = [x \in Keys |->
       IF \E c \in leases : KeyOf[c] = x THEN None ELSE idempotency[x]]
  /\ timerIn' = [c \in Calls |-> IF c \in leases THEN NotArmed ELSE timerIn[c]]
  /\ Dropped(leases)
  /\ UNCHANGED <<routes, idleIn>>

Finalize(leases, how) ==
  /\ status' = [c \in Calls |-> IF c \in leases THEN how ELSE status[c]]
  /\ idempotency' = [x \in Keys |->
       IF \E c \in leases : KeyOf[c] = x THEN None ELSE idempotency[x]]
  /\ timerIn' = [c \in Calls |-> IF c \in leases THEN NotArmed ELSE timerIn[c]]
  /\ idleIn' = [c \in Calls |-> IF c \in leases THEN NotArmed ELSE idleIn[c]]
  /\ routes' = routes \ leases
  /\ Dropped(leases)

-----------------------------------------------------------------------------
(* create.                                                                 *)

\* The live lease of the call's key, if there is one.
Known(c) == {idempotency[KeyOf[c]]} \cap Active

SamePayload(c, d) == PayloadOf[c] = PayloadOf[d]

\* The key stands for a live lease: its result again, or a conflict.
Replay(c) ==
  /\ call[c] = "idle"
  /\ ~closed
  /\ \E d \in Known(c) :
       call' = [call EXCEPT ![c] = IF SamePayload(c, d) THEN "replayed" ELSE "refused"]
  /\ UNCHANGED <<closed, lease, pending, timers, renewed>>

\* A call with the key resolves its target: wait for it, or a conflict.
Join(c) ==
  /\ call[c] = "idle"
  /\ ~closed
  /\ Known(c) = {}
  /\ pending[KeyOf[c]] # None
  /\ call' = [call EXCEPT ![c] =
       IF SamePayload(c, pending[KeyOf[c]]) THEN "waiting" ELSE "refused"]
  /\ UNCHANGED <<closed, lease, pending, timers, renewed>>

LookBehind(c) ==
  /\ call[c] = "idle"
  /\ ~closed
  /\ Known(c) = {}
  /\ call' = [call EXCEPT ![c] = "resolving"]
  /\ pending' = [pending EXCEPT ![KeyOf[c]] = c]
  /\ UNCHANGED <<closed, lease, timers, renewed>>

\* Nobody has the key: resolve the target.
Begin(c) ==
  /\ call[c] = "idle"
  /\ ~closed
  /\ Known(c) = {}
  /\ pending[KeyOf[c]] = None
  /\ call' = [call EXCEPT ![c] = "resolving"]
  /\ pending' = [pending EXCEPT ![KeyOf[c]] = c]
  /\ UNCHANGED <<closed, lease, timers, renewed>>

\* The manager is closed, the proxy not ready or the runtime not supported.
Refuse(c) ==
  /\ call[c] = "idle"
  /\ closed \/ (Known(c) = {} /\ pending[KeyOf[c]] = None)
  /\ call' = [call EXCEPT ![c] = "refused"]
  /\ UNCHANGED <<closed, lease, pending, timers, renewed>>

WaitersForgotten(c, mine, theirs) ==
  /\ call' = [call EXCEPT ![c] = mine]
  /\ pending' = [pending EXCEPT ![KeyOf[c]] = None]

\* The promise of the pending call settles for it and for those who wait.
Settle(c, mine, theirs) ==
  /\ call' = [d \in Calls |->
       CASE d = c -> mine
         [] call[d] = "waiting" /\ KeyOf[d] = KeyOf[c] -> theirs
         [] OTHER -> call[d]]
  /\ pending' = [pending EXCEPT ![KeyOf[c]] = None]

PublishAnyway(c) ==
  /\ call[c] = "resolving"
  /\ Settle(c, "created", "replayed")
  /\ status' = [status EXCEPT ![c] = "active"]
  /\ idempotency' = [idempotency EXCEPT ![KeyOf[c]] = c]
  /\ routes' = routes \cup {c}
  /\ expiresIn' = [expiresIn EXCEPT ![c] = TtlOf[c]]
  /\ timerIn' = [timerIn EXCEPT ![c] = TtlOf[c]]
  /\ idleIn' = [idleIn EXCEPT ![c] = TtlOf[c]]
  /\ idleMs' = [idleMs EXCEPT ![c] = TtlOf[c]]
  /\ UNCHANGED <<closed, renewed>>

\* The target is resolved: add the route, arm the timers, publish the lease.
Publish(c) ==
  /\ call[c] = "resolving"
  /\ ~closed
  /\ Settle(c, "created", "replayed")
  /\ status' = [status EXCEPT ![c] = "active"]
  /\ idempotency' = [idempotency EXCEPT ![KeyOf[c]] = c]
  /\ routes' = routes \cup {c}
  /\ expiresIn' = [expiresIn EXCEPT ![c] = TtlOf[c]]
  /\ timerIn' = [timerIn EXCEPT ![c] = TtlOf[c]]
  /\ idleIn' = [idleIn EXCEPT ![c] = TtlOf[c]]
  /\ idleMs' = [idleMs EXCEPT ![c] = TtlOf[c]]
  /\ UNCHANGED <<closed, renewed>>

\* No target, no launch descriptor, or the manager was closed meanwhile.
CreateFails(c) ==
  /\ call[c] = "resolving"
  /\ Settle(c, "refused", "refused")
  /\ UNCHANGED <<closed, lease, timers, renewed>>

-----------------------------------------------------------------------------
(* A lease that is live.                                                   *)

TimerForgotten(c, ttl) ==
  /\ c \in Active
  /\ renewed[c] < MaxRenewals
  /\ expiresIn[c] > 0
  /\ renewed' = [renewed EXCEPT ![c] = @ + 1]
  /\ expiresIn' = [expiresIn EXCEPT ![c] = ttl]
  /\ timerIn' = [timerIn EXCEPT ![c] = NotArmed]
  /\ idleIn' = [idleIn EXCEPT ![c] = ttl]
  /\ idleMs' = [idleMs EXCEPT ![c] = ttl]
  /\ UNCHANGED <<closed, lease, pending, call>>

\* A new timer replaces the old one, and the route's idle time follows.
Renew(c, ttl) ==
  /\ c \in Active
  /\ renewed[c] < MaxRenewals
  /\ expiresIn[c] > 0
  /\ renewed' = [renewed EXCEPT ![c] = @ + 1]
  /\ expiresIn' = [expiresIn EXCEPT ![c] = ttl]
  /\ timerIn' = [timerIn EXCEPT ![c] = ttl]
  /\ idleIn' = [idleIn EXCEPT ![c] = ttl]
  /\ idleMs' = [idleMs EXCEPT ![c] = ttl]
  /\ UNCHANGED <<closed, lease, pending, call>>

\* The lease is past its time though no timer has ended it.
RenewTooLate(c) ==
  /\ c \in Active
  /\ expiresIn[c] = 0
  /\ Finalize({c}, "expired")
  /\ UNCHANGED <<closed, pending, call>>

Release(c) ==
  /\ c \in Active
  /\ Finalize({c}, "released")
  /\ UNCHANGED <<closed, pending, call>>

\* The lease's timer: too early by the wall clock, arm it for the rest.
TimerEarly(c) ==
  /\ c \in Active
  /\ timerIn[c] = 0
  /\ expiresIn[c] > 0
  /\ timerIn' = [timerIn EXCEPT ![c] = expiresIn[c]]
  /\ UNCHANGED <<closed, lease, pending, expiresIn, idleIn, idleMs, renewed, call>>

TimerDue(c) ==
  /\ c \in Active
  /\ timerIn[c] = 0
  /\ expiresIn[c] = 0
  /\ Finalize({c}, "expired")
  /\ UNCHANGED <<closed, pending, call>>

\* The route's idle timer evicts it, and onRouteEvicted ends the lease.
RouteIdle(c) ==
  /\ c \in routes
  /\ idleIn[c] = 0
  /\ Finalize({c}, "expired")
  /\ UNCHANGED <<closed, pending, call>>

\* A request with the route token re-arms the idle timer.
Lookup(c) ==
  /\ c \in routes
  /\ idleIn' = [idleIn EXCEPT ![c] = idleMs[c]]
  /\ UNCHANGED <<closed, lease, pending, expiresIn, timerIn, idleMs, renewed, call>>

Shutdown ==
  /\ ~closed
  /\ closed' = TRUE
  /\ Finalize(Active, "released")
  /\ UNCHANGED <<pending, call>>

-----------------------------------------------------------------------------

Under(n) == n - 1

Less(n) == IF n > 0 THEN n - 1 ELSE n

WallTick ==
  /\ \E c \in Active : expiresIn[c] > 0
  /\ expiresIn' = [c \in Calls |->
       IF c \in Active THEN Less(expiresIn[c]) ELSE expiresIn[c]]
  /\ UNCHANGED <<closed, lease, pending, timerIn, idleIn, idleMs, renewed, call>>

TimerTick ==
  /\ \E c \in Calls : timerIn[c] > 0 \/ idleIn[c] > 0
  /\ timerIn' = [c \in Calls |-> Less(timerIn[c])]
  /\ idleIn' = [c \in Calls |-> Less(idleIn[c])]
  /\ UNCHANGED <<closed, lease, pending, expiresIn, idleMs, renewed, call>>

Create(c) == Replay(c) \/ Join(c) \/ Begin(c) \/ Refuse(c)

Resolve(c) == Publish(c) \/ CreateFails(c)

Timer(c) == TimerEarly(c) \/ TimerDue(c) \/ RouteIdle(c)

LeaseNext ==
  \/ Shutdown \/ WallTick \/ TimerTick
  \/ \E c \in Calls :
       \/ Create(c) \/ Resolve(c) \/ Timer(c) \/ Lookup(c)
       \/ Release(c) \/ RenewTooLate(c)
       \/ \E ttl \in Renewals : Renew(c, ttl)

LeaseSpec == LeaseInit /\ [][LeaseNext]_vars

\* Both clocks run, timers that are due fire, and targets are resolved.
FairLeaseSpec ==
  /\ LeaseSpec
  /\ WF_vars(WallTick) /\ WF_vars(TimerTick)
  /\ \A c \in Calls : WF_vars(Resolve(c)) /\ WF_vars(TimerEarly(c) \/ TimerDue(c))

-----------------------------------------------------------------------------

(* The state has its type.                                                 *)
LeaseTypeOK ==
  /\ closed \in BOOLEAN
  /\ status \in [Calls -> Statuses]
  /\ idempotency \in [Keys -> Calls \cup {None}]
  /\ pending \in [Keys -> Calls \cup {None}]
  /\ routes \subseteq Calls
  /\ expiresIn \in [Calls -> Nat]
  /\ timerIn \in [Calls -> Nat \cup {NotArmed}]
  /\ idleIn \in [Calls -> Nat \cup {NotArmed}]
  /\ idleMs \in [Calls -> Nat]
  /\ renewed \in [Calls -> 0 .. MaxRenewals]
  /\ call \in [Calls -> Outcomes]

(* "Each active lease MUST register exactly one frozen RouteContext" and   *)
(* an expired, released or unpublished one none: the proxy accepts the     *)
(* tokens of the active leases and no others, and the idle timer of each   *)
(* is armed (finalize, onRouteEvicted and createNew keep both maps alike). *)
RoutesAreLeases ==
  /\ routes = Active
  /\ \A c \in routes : idleIn[c] # NotArmed

(* A key stands for the active lease made under it: a retry gets that      *)
(* lease while it lives and a new one after, and no two live leases share  *)
(* a key, whatever retries overlap while the target is resolved.           *)
IdempotencyExact ==
  \A x \in Keys : {c \in Active : KeyOf[c] = x} = {idempotency[x]} \ {None}

(* No lease lives on: once it is no longer renewed its timer ends it, also *)
(* when requests keep its route busy (expire re-arms, renew swaps timers). *)
EveryLeaseEnds == \A c \in Calls : c \in Active ~> c \notin Active

(* A retry that waits for the call that resolves the target is answered,   *)
(* also when that call fails or the manager is closed (pendingCreates).    *)
EveryRetryAnswered == \A c \in Calls : call[c] = "waiting" ~> call[c] # "waiting"

(* The tokens the proxy accepts are the leases of a registry: granted one  *)
(* per key, ended once, none after the shutdown.                           *)
Registry == INSTANCE LeaseRegistry WITH
  Leases <- Calls,
  live <- routes,
  ended <- {c \in Calls : status[c] \in {"released", "expired"}},
  shut <- closed

ImplementsRegistry == Registry!RegistrySpec

=============================================================================
