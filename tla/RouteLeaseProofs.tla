-------------------------- MODULE RouteLeaseProofs --------------------------
(* Proofs about the route leases, for any calls, keys, lifetimes and       *)
(* renewals and however the two clocks drift.                              *)
EXTENDS RouteLease, TLAPS

(* A call that resolves its target is the pending one of its key, no lease *)
(* is live under the key meanwhile, and only a call that created has one.  *)
OnePending ==
  \A c \in Calls : call[c] = "resolving" =>
    /\ pending[KeyOf[c]] = c
    /\ idempotency[KeyOf[c]] \notin Active

OnlyCreated == \A c \in Calls : status[c] # "none" => call[c] = "created"

LeaseInv ==
  /\ LeaseTypeOK
  /\ RoutesAreLeases
  /\ IdempotencyExact
  /\ OnePending
  /\ OnlyCreated

Ended == {c \in Calls : status[c] \in {"released", "expired"}}

(* Leases that end leave the active ones, their routes and their keys.     *)
LEMMA FinalizeEnds ==
  ASSUME LeaseInv, NEW leases \in SUBSET Active,
         NEW how \in {"released", "expired"}, Finalize(leases, how)
  PROVE  /\ Active' = Active \ leases
         /\ routes' = routes \ leases
         /\ Ended' = Ended \cup leases
  BY LeaseAssumption DEF LeaseInv, LeaseTypeOK, Finalize, Active, Ended, Statuses

LEMMA FinalizeKeeps ==
  ASSUME LeaseInv, NEW leases \in SUBSET Active,
         NEW how \in {"released", "expired"}, Finalize(leases, how),
         UNCHANGED <<pending, call>>, closed' \in BOOLEAN
  PROVE  LeaseInv'
<1> USE LeaseAssumption
<1>1. LeaseTypeOK'
  BY DEF LeaseInv, LeaseTypeOK, Finalize, Dropped, Statuses, NotArmed
<1>2. RoutesAreLeases'
  BY FinalizeEnds DEF LeaseInv, LeaseTypeOK, RoutesAreLeases, Finalize, NotArmed
<1>3. IdempotencyExact'
  <2> SUFFICES ASSUME NEW x \in Keys
               PROVE  {c \in Active' : KeyOf[c] = x} = {idempotency'[x]} \ {None}
    BY DEF IdempotencyExact
  <2>1. {c \in Active : KeyOf[c] = x} = {idempotency[x]} \ {None}
    BY DEF LeaseInv, IdempotencyExact
  <2>2. idempotency'[x] =
          IF \E c \in leases : KeyOf[c] = x THEN None ELSE idempotency[x]
    BY DEF Finalize
  <2> QED
    BY <2>1, <2>2, FinalizeEnds DEF Active
<1>4. OnePending'
  BY FinalizeEnds DEF LeaseInv, LeaseTypeOK, OnePending, Finalize, Active
<1>5. OnlyCreated'
  BY DEF LeaseInv, LeaseTypeOK, OnlyCreated, Finalize, Active
<1> QED
  BY <1>1, <1>2, <1>3, <1>4, <1>5 DEF LeaseInv

LEMMA LeaseInvInit == LeaseInit => LeaseInv
<1> SUFFICES ASSUME LeaseInit PROVE LeaseInv
  OBVIOUS
<1> USE LeaseAssumption
<1>1. LeaseTypeOK
  <2>1. closed \in BOOLEAN /\ routes \subseteq Calls
    BY DEF LeaseInit
  <2>2. status \in [Calls -> Statuses] /\ call \in [Calls -> Outcomes]
    BY DEF LeaseInit, Statuses, Outcomes
  <2>3. /\ idempotency \in [Keys -> Calls \cup {None}]
        /\ pending \in [Keys -> Calls \cup {None}]
    BY DEF LeaseInit
  <2>4. expiresIn \in [Calls -> Nat] /\ idleMs \in [Calls -> Nat]
    BY DEF LeaseInit
  <2>5. /\ timerIn \in [Calls -> Nat \cup {NotArmed}]
        /\ idleIn \in [Calls -> Nat \cup {NotArmed}]
    BY DEF LeaseInit
  <2>6. renewed \in [Calls -> 0 .. MaxRenewals]
    BY DEF LeaseInit
  <2> QED
    BY <2>1, <2>2, <2>3, <2>4, <2>5, <2>6 DEF LeaseTypeOK
<1>2. \A c \in Calls : status[c] = "none" /\ call[c] = "idle"
  BY DEF LeaseInit
<1>3. Active = {}
  BY <1>2 DEF Active
<1>4. RoutesAreLeases
  BY <1>3 DEF LeaseInit, RoutesAreLeases
<1>5. \A x \in Keys : idempotency[x] = None
  BY DEF LeaseInit
<1>6. IdempotencyExact
  BY <1>3, <1>5 DEF IdempotencyExact
<1>7. OnePending /\ OnlyCreated
  BY <1>2 DEF OnePending, OnlyCreated
<1> QED
  BY <1>1, <1>4, <1>6, <1>7 DEF LeaseInv

(* What the settling of a create leaves of the calls with its key.         *)
LEMMA SettleShape ==
  ASSUME LeaseInv, NEW c \in Calls, call[c] = "resolving",
         NEW mine \in {"created", "refused"}, NEW theirs \in {"replayed", "refused"},
         Settle(c, mine, theirs)
  PROVE  /\ call' \in [Calls -> Outcomes]
         /\ pending' \in [Keys -> Calls \cup {None}]
         /\ call'[c] = mine
         /\ \A d \in Calls : call'[d] = "resolving" =>
              call[d] = "resolving" /\ d # c /\ KeyOf[d] # KeyOf[c]
         /\ \A d \in Calls : call[d] = "created" => call'[d] = "created"
         /\ \A x \in Keys : x # KeyOf[c] => pending'[x] = pending[x]
  BY LeaseAssumption DEF LeaseInv, LeaseTypeOK, OnePending, Settle, Outcomes

(* The step that publishes a lease keeps the invariant and grants it.      *)
LEMMA PublishShape ==
  ASSUME LeaseInv, NEW c \in Calls, Publish(c)
  PROVE  /\ Active' = Active \cup {c}
         /\ status[c] = "none"
         /\ \A d \in Active : KeyOf[d] # KeyOf[c]
         /\ Ended' = Ended
<1> USE LeaseAssumption
<1>1. status[c] = "none"
  BY DEF LeaseInv, OnlyCreated, Publish
<1>2. {d \in Active : KeyOf[d] = KeyOf[c]} = {idempotency[KeyOf[c]]} \ {None}
  BY DEF LeaseInv, LeaseTypeOK, IdempotencyExact
<1>3. idempotency[KeyOf[c]] \notin Active
  BY DEF LeaseInv, OnePending, Publish
<1>4. \A d \in Active : KeyOf[d] # KeyOf[c]
  BY <1>2, <1>3
<1>5. Active' = Active \cup {c} /\ Ended' = Ended
  BY <1>1 DEF LeaseInv, LeaseTypeOK, Publish, Active, Ended
<1> QED
  BY <1>1, <1>4, <1>5

LEMMA PublishKeeps ==
  ASSUME LeaseInv, NEW c \in Calls, Publish(c)
  PROVE  LeaseInv'
<1> USE LeaseAssumption
<1>1. LeaseTypeOK'
  BY SettleShape DEF LeaseInv, LeaseTypeOK, Publish, Statuses, NotArmed
<1>2. RoutesAreLeases'
  <2>1. routes' = Active'
    BY PublishShape DEF LeaseInv, RoutesAreLeases, Publish
  <2>2. \A d \in routes : idleIn[d] # NotArmed
    BY DEF LeaseInv, RoutesAreLeases
  <2>3. idleIn' = [idleIn EXCEPT ![c] = TtlOf[c]]
    BY DEF Publish
  <2>4. idleIn \in [Calls -> Nat \cup {NotArmed}]
    BY DEF LeaseInv, LeaseTypeOK
  <2>5. routes' = routes \cup {c} /\ routes \subseteq Calls
    BY DEF LeaseInv, LeaseTypeOK, Publish
  <2>6. TtlOf[c] # NotArmed
    BY DEF NotArmed
  <2> QED
    BY <2>1, <2>2, <2>3, <2>4, <2>5, <2>6 DEF RoutesAreLeases
<1>3. IdempotencyExact'
  <2> SUFFICES ASSUME NEW x \in Keys
               PROVE  {d \in Active' : KeyOf[d] = x} = {idempotency'[x]} \ {None}
    BY DEF IdempotencyExact
  <2>1. {d \in Active : KeyOf[d] = x} = {idempotency[x]} \ {None}
    BY DEF LeaseInv, IdempotencyExact
  <2>2. CASE x = KeyOf[c]
    <3>1. idempotency'[x] = c
      BY <2>2 DEF LeaseInv, LeaseTypeOK, Publish
    <3> QED
      BY <2>2, <3>1, PublishShape
  <2>3. CASE x # KeyOf[c]
    <3>1. idempotency'[x] = idempotency[x]
      BY <2>3 DEF LeaseInv, LeaseTypeOK, Publish
    <3> QED
      BY <2>1, <2>3, <3>1, PublishShape
  <2> QED
    BY <2>2, <2>3
<1>4. OnePending'
  <2> SUFFICES ASSUME NEW d \in Calls, call'[d] = "resolving"
               PROVE  /\ pending'[KeyOf[d]] = d
                      /\ idempotency'[KeyOf[d]] \notin Active'
    BY DEF OnePending
  <2>1. call[d] = "resolving" /\ d # c /\ KeyOf[d] # KeyOf[c]
    BY SettleShape DEF Publish
  <2>2. pending'[KeyOf[d]] = pending[KeyOf[d]]
    BY <2>1, SettleShape DEF Publish
  <2>3. idempotency'[KeyOf[d]] = idempotency[KeyOf[d]]
    BY <2>1 DEF LeaseInv, LeaseTypeOK, Publish
  <2>4. idempotency[KeyOf[d]] # c
    <3>1. call[c] = "resolving" /\ status[c] = "none"
      BY PublishShape DEF Publish
    <3>2. {e \in Active : KeyOf[e] = KeyOf[d]} = {idempotency[KeyOf[d]]} \ {None}
      BY DEF LeaseInv, IdempotencyExact
    <3> QED
      BY <3>1, <3>2 DEF Active
  <2> QED
    BY <2>1, <2>2, <2>3, <2>4, PublishShape DEF LeaseInv, OnePending
<1>5. OnlyCreated'
  BY SettleShape DEF LeaseInv, LeaseTypeOK, OnlyCreated, Publish
<1> QED
  BY <1>1, <1>2, <1>3, <1>4, <1>5 DEF LeaseInv

(* The leases, their keys and their routes do not change: the invariant is *)
(* kept when its types are and no call starts to resolve.                  *)
LEMMA OthersKeep ==
  ASSUME LeaseInv, LeaseTypeOK', UNCHANGED lease,
         \A c \in routes : idleIn'[c] # NotArmed, OnePending', OnlyCreated'
  PROVE  LeaseInv'
  BY DEF LeaseInv, lease, RoutesAreLeases, IdempotencyExact, Active

(* Every step keeps the invariant.                                         *)
LEMMA LeaseInvStep ==
  ASSUME LeaseInv, [LeaseNext]_vars
  PROVE  LeaseInv'
<1> USE LeaseAssumption
<1>1. CASE UNCHANGED vars
  BY <1>1 DEF vars, LeaseInv, LeaseTypeOK, RoutesAreLeases, IdempotencyExact,
              OnePending, OnlyCreated, Active
<1>2. CASE Shutdown
  BY <1>2, FinalizeKeeps DEF Shutdown
<1>3. CASE WallTick
  <2>1. LeaseTypeOK'
    BY <1>3 DEF WallTick, Less, LeaseInv, LeaseTypeOK, lease, NotArmed
  <2> QED
    BY <1>3, <2>1, OthersKeep
    DEF WallTick, lease, LeaseInv, RoutesAreLeases, OnePending, OnlyCreated, Active
<1>4. CASE TimerTick
  <2>1. LeaseTypeOK'
    BY <1>4 DEF TimerTick, Less, LeaseInv, LeaseTypeOK, lease, NotArmed
  <2>2. \A c \in routes : idleIn'[c] # NotArmed
    BY <1>4 DEF TimerTick, Less, LeaseInv, LeaseTypeOK, RoutesAreLeases, NotArmed
  <2> QED
    BY <1>4, <2>1, <2>2, OthersKeep
    DEF TimerTick, lease, LeaseInv, OnePending, OnlyCreated, Active
<1>5. ASSUME NEW c \in Calls, Replay(c) \/ Join(c) \/ Refuse(c)
      PROVE  LeaseInv'
  <2>1. \E to \in {"replayed", "refused", "waiting"} : call' = [call EXCEPT ![c] = to]
    BY <1>5 DEF Replay, Join, Refuse
  <2>2. call[c] = "idle" /\ UNCHANGED <<closed, lease, pending, timers, renewed>>
    BY <1>5 DEF Replay, Join, Refuse
  <2>3. LeaseTypeOK'
    BY <2>1, <2>2 DEF LeaseInv, LeaseTypeOK, lease, timers, Outcomes
  <2>4. OnePending' /\ OnlyCreated'
    BY <2>1, <2>2 DEF LeaseInv, LeaseTypeOK, OnePending, OnlyCreated, lease, Active
  <2> QED
    BY <2>2, <2>3, <2>4, OthersKeep DEF timers, LeaseInv, RoutesAreLeases
<1>6. ASSUME NEW c \in Calls, Begin(c)
      PROVE  LeaseInv'
  <2>1. LeaseTypeOK'
    BY <1>6 DEF Begin, LeaseInv, LeaseTypeOK, lease, timers, Outcomes
  <2>2. OnePending'
    BY <1>6 DEF Begin, Known, LeaseInv, LeaseTypeOK, OnePending, lease, Active
  <2>3. OnlyCreated'
    BY <1>6 DEF Begin, LeaseInv, LeaseTypeOK, OnlyCreated, lease
  <2> QED
    BY <1>6, <2>1, <2>2, <2>3, OthersKeep DEF Begin, timers, LeaseInv, RoutesAreLeases
<1>7. ASSUME NEW c \in Calls, Publish(c)
      PROVE  LeaseInv'
  BY <1>7, PublishKeeps
<1>8. ASSUME NEW c \in Calls, CreateFails(c)
      PROVE  LeaseInv'
  <2>1. LeaseTypeOK'
    BY <1>8, SettleShape DEF CreateFails, LeaseInv, LeaseTypeOK, lease, timers
  <2>2. OnePending'
    BY <1>8, SettleShape DEF CreateFails, LeaseInv, LeaseTypeOK, OnePending, lease, Active
  <2>3. OnlyCreated'
    BY <1>8, SettleShape DEF CreateFails, LeaseInv, OnlyCreated, lease
  <2> QED
    BY <1>8, <2>1, <2>2, <2>3, OthersKeep
    DEF CreateFails, timers, LeaseInv, RoutesAreLeases
<1>9. ASSUME NEW c \in Calls, NEW ttl \in Renewals, Renew(c, ttl)
      PROVE  LeaseInv'
  <2>1. LeaseTypeOK'
    BY <1>9 DEF Renew, LeaseInv, LeaseTypeOK, lease
  <2> QED
    BY <1>9, <2>1, OthersKeep
    DEF Renew, lease, LeaseInv, LeaseTypeOK, RoutesAreLeases, OnePending, OnlyCreated,
        Active, NotArmed
<1>10. ASSUME NEW c \in Calls, RenewTooLate(c) \/ TimerDue(c) \/ RouteIdle(c) \/ Release(c)
       PROVE  LeaseInv'
  BY <1>10, FinalizeKeeps
  DEF RenewTooLate, TimerDue, RouteIdle, Release, LeaseInv, LeaseTypeOK, RoutesAreLeases
<1>11. ASSUME NEW c \in Calls, TimerEarly(c)
       PROVE  LeaseInv'
  <2>1. LeaseTypeOK'
    BY <1>11 DEF TimerEarly, LeaseInv, LeaseTypeOK, lease
  <2> QED
    BY <1>11, <2>1, OthersKeep
    DEF TimerEarly, lease, LeaseInv, RoutesAreLeases, OnePending, OnlyCreated, Active
<1>12. ASSUME NEW c \in Calls, Lookup(c)
       PROVE  LeaseInv'
  <2>1. LeaseTypeOK'
    BY <1>12 DEF Lookup, LeaseInv, LeaseTypeOK, lease
  <2> QED
    BY <1>12, <2>1, OthersKeep
    DEF Lookup, lease, LeaseInv, LeaseTypeOK, RoutesAreLeases, OnePending, OnlyCreated,
        Active, NotArmed
<1> QED
  BY <1>1, <1>2, <1>3, <1>4, <1>5, <1>6, <1>7, <1>8, <1>9, <1>10, <1>11, <1>12
  DEF LeaseNext, Create, Resolve, Timer

LEMMA LeaseInvAlways == LeaseSpec => []LeaseInv
  BY LeaseInvInit, LeaseInvStep, PTL DEF LeaseSpec

(* The state keeps its type.                                               *)
THEOREM LeaseTypeCorrect == LeaseSpec => []LeaseTypeOK
  BY LeaseInvAlways, PTL DEF LeaseInv

(* The proxy accepts exactly the tokens of the active leases.              *)
THEOREM LeaseRoutes == LeaseSpec => []RoutesAreLeases
  BY LeaseInvAlways, PTL DEF LeaseInv

(* An idempotency key stands for the one live lease made under it.         *)
THEOREM LeaseIdempotency == LeaseSpec => []IdempotencyExact
  BY LeaseInvAlways, PTL DEF LeaseInv

(* A step of the leases is a step of the registry or leaves it alone.      *)
LEMMA RegistryStep ==
  ASSUME LeaseInv, [LeaseNext]_vars
  PROVE  [Registry!RegistryNext]_(Registry!registryVars)
<1> USE DEF Registry!RegistryNext, Registry!registryVars
<1>1. routes = Active
  BY DEF LeaseInv, RoutesAreLeases
<1>2. ASSUME NEW c \in Active, NEW how \in {"released", "expired"},
             Finalize({c}, how), UNCHANGED closed
      PROVE  Registry!End(c)
  BY <1>1, <1>2, FinalizeEnds DEF Registry!End, Ended
<1>3. ASSUME NEW c \in Calls, Publish(c)
      PROVE  Registry!Grant(c)
  BY <1>1, <1>3, PublishShape DEF Registry!Grant, Publish, Active, Ended
<1>4. ASSUME Shutdown
      PROVE  Registry!ShutDown
  BY <1>1, <1>4, FinalizeEnds DEF Registry!ShutDown, Shutdown, Ended
<1>5. ASSUME NEW c \in Calls, RenewTooLate(c) \/ TimerDue(c) \/ RouteIdle(c) \/ Release(c)
      PROVE  Registry!End(c)
  BY <1>1, <1>2, <1>5 DEF RenewTooLate, TimerDue, RouteIdle, Release
<1>6. CASE UNCHANGED <<routes, status, closed>>
  BY <1>6
<1> QED
  BY <1>3, <1>4, <1>5, <1>6
  DEF LeaseNext, Create, Resolve, Timer, Replay, Join, Begin, Refuse, CreateFails,
      Renew, TimerEarly, Lookup, WallTick, TimerTick, lease, vars, Active

(* The route tokens behave as the registry promises: granted one per key,  *)
(* ended once and for good, none after the shutdown.                       *)
THEOREM LeasesAreARegistry == LeaseSpec => ImplementsRegistry
<1>1. LeaseInit => Registry!RegistryInit
  BY DEF LeaseInit, Registry!RegistryInit
<1>2. LeaseInv /\ [LeaseNext]_vars => [Registry!RegistryNext]_(Registry!registryVars)
  BY RegistryStep
<1> QED
  BY <1>1, <1>2, LeaseInvAlways, PTL DEF LeaseSpec, ImplementsRegistry, Registry!RegistrySpec

-----------------------------------------------------------------------------
(* What has still to happen is arranged for: the part of the two liveness  *)
(* properties that needs no fairness.                                      *)

(* Each active lease has a timer that will end it: no renewal, no early    *)
(* timer and no lookup leaves one that only a request could end.           *)
LeasesArmed == \A c \in Active : timerIn[c] # NotArmed

(* A key is pending only for a call of it that resolves its target.        *)
PendingResolves ==
  \A x \in Keys : pending[x] # None =>
    /\ call[pending[x]] = "resolving"
    /\ KeyOf[pending[x]] = x

(* A retry waits for a call that resolves the very target it asked for.    *)
RetriesAwaited ==
  \A c \in Calls : call[c] = "waiting" =>
    /\ pending[KeyOf[c]] # None
    /\ SamePayload(c, pending[KeyOf[c]])

ArrangedInv == LeasesArmed /\ PendingResolves /\ RetriesAwaited

LEMMA ArrangedInvInit == LeaseInit => ArrangedInv
<1> SUFFICES ASSUME LeaseInit PROVE ArrangedInv
  OBVIOUS
<1>1. \A c \in Calls : status[c] = "none" /\ call[c] = "idle"
  BY DEF LeaseInit
<1>2. \A x \in Keys : pending[x] = None
  BY DEF LeaseInit
<1> QED
  BY <1>1, <1>2 DEF ArrangedInv, LeasesArmed, PendingResolves, RetriesAwaited, Active

(* A settled create leaves nobody with its key behind.                     *)
LEMMA SettleAnswers ==
  ASSUME LeaseInv, ArrangedInv, NEW c \in Calls, call[c] = "resolving",
         NEW mine \in {"created", "refused"}, NEW theirs \in {"replayed", "refused"},
         Settle(c, mine, theirs)
  PROVE  PendingResolves' /\ RetriesAwaited'
<1> USE LeaseAssumption
<1>1. /\ pending'[KeyOf[c]] = None
      /\ \A x \in Keys : x # KeyOf[c] => pending'[x] = pending[x]
  BY DEF Settle, LeaseInv, LeaseTypeOK
<1>2. \A d \in Calls : KeyOf[d] # KeyOf[c] => call'[d] = call[d]
  BY DEF Settle
<1>3. \A d \in Calls : call'[d] = "waiting" => call[d] = "waiting" /\ KeyOf[d] # KeyOf[c]
  BY DEF Settle
<1>4. PendingResolves'
  <2> SUFFICES ASSUME NEW x \in Keys, pending'[x] # None
               PROVE  call'[pending'[x]] = "resolving" /\ KeyOf[pending'[x]] = x
    BY DEF PendingResolves
  <2>1. x # KeyOf[c] /\ pending'[x] = pending[x]
    BY <1>1
  <2>2. pending[x] \in Calls /\ KeyOf[pending[x]] = x /\ call[pending[x]] = "resolving"
    BY <2>1 DEF ArrangedInv, PendingResolves, LeaseInv, LeaseTypeOK
  <2> QED
    BY <1>2, <2>1, <2>2
<1>5. RetriesAwaited'
  BY <1>1, <1>3 DEF ArrangedInv, RetriesAwaited, SamePayload
<1> QED
  BY <1>4, <1>5

(* A step that changes neither the calls nor what is pending keeps who is  *)
(* awaited.                                                                *)
LEMMA CallsKeep ==
  ASSUME ArrangedInv, LeasesArmed', UNCHANGED <<pending, call>>
  PROVE  ArrangedInv'
  BY DEF ArrangedInv, PendingResolves, RetriesAwaited, SamePayload

LEMMA ArrangedInvStep ==
  ASSUME LeaseInv, ArrangedInv, [LeaseNext]_vars
  PROVE  ArrangedInv'
<1> USE LeaseAssumption
<1>1. CASE UNCHANGED vars
  BY <1>1, CallsKeep DEF vars, ArrangedInv, LeasesArmed, Active
<1>2. ASSUME NEW leases \in SUBSET Active, NEW how \in {"released", "expired"},
             Finalize(leases, how), UNCHANGED <<pending, call>>
      PROVE  ArrangedInv'
  <2>1. LeasesArmed'
    BY <1>2, FinalizeEnds DEF Finalize, ArrangedInv, LeasesArmed, Active
  <2> QED
    BY <1>2, <2>1, CallsKeep
<1>3. CASE Shutdown
  BY <1>2, <1>3 DEF Shutdown
<1>4. CASE WallTick
  BY <1>4, CallsKeep DEF WallTick, lease, ArrangedInv, LeasesArmed, Active
<1>5. CASE TimerTick
  <2>1. LeasesArmed'
    BY <1>5 DEF TimerTick, Less, lease, ArrangedInv, LeasesArmed, Active,
                LeaseInv, LeaseTypeOK, NotArmed
  <2> QED
    BY <1>5, <2>1, CallsKeep DEF TimerTick
<1>6. ASSUME NEW c \in Calls, Replay(c) \/ Join(c) \/ Refuse(c)
      PROVE  ArrangedInv'
  <2>1. PICK to \in {"replayed", "refused", "waiting"} :
          /\ call' = [call EXCEPT ![c] = to]
          /\ to = "waiting" => /\ pending[KeyOf[c]] # None
                              /\ SamePayload(c, pending[KeyOf[c]])
    BY <1>6 DEF Replay, Join, Refuse
  <2>2. call[c] = "idle" /\ UNCHANGED <<lease, pending, timers>>
    BY <1>6 DEF Replay, Join, Refuse
  <2>3. \A d \in Calls : call'[d] = IF d = c THEN to ELSE call[d]
    BY <2>1 DEF LeaseInv, LeaseTypeOK
  <2>4. LeasesArmed'
    BY <2>2 DEF lease, timers, ArrangedInv, LeasesArmed, Active
  <2>5. PendingResolves'
    BY <2>2, <2>3 DEF ArrangedInv, PendingResolves, LeaseInv, LeaseTypeOK
  <2>6. RetriesAwaited'
    BY <2>1, <2>2, <2>3 DEF ArrangedInv, RetriesAwaited, SamePayload
  <2> QED
    BY <2>4, <2>5, <2>6 DEF ArrangedInv
<1>7. ASSUME NEW c \in Calls, Begin(c)
      PROVE  ArrangedInv'
  <2>1. /\ \A d \in Calls : call'[d] = IF d = c THEN "resolving" ELSE call[d]
        /\ \A x \in Keys : pending'[x] = IF x = KeyOf[c] THEN c ELSE pending[x]
    BY <1>7 DEF Begin, LeaseInv, LeaseTypeOK
  <2>2. LeasesArmed'
    BY <1>7 DEF Begin, lease, timers, ArrangedInv, LeasesArmed, Active
  <2>3. PendingResolves'
    BY <2>1 DEF ArrangedInv, PendingResolves, LeaseInv, LeaseTypeOK
  <2>4. RetriesAwaited'
    <3>1. \A d \in Calls : call[d] = "waiting" => KeyOf[d] # KeyOf[c]
      BY <1>7 DEF Begin, ArrangedInv, RetriesAwaited
    <3> QED
      BY <2>1, <3>1 DEF ArrangedInv, RetriesAwaited, SamePayload
  <2> QED
    BY <2>2, <2>3, <2>4 DEF ArrangedInv
<1>8. ASSUME NEW c \in Calls, Publish(c)
      PROVE  ArrangedInv'
  <2>1. LeasesArmed'
    <3>1. \A d \in Calls : timerIn'[d] = IF d = c THEN TtlOf[c] ELSE timerIn[d]
      BY <1>8 DEF Publish, LeaseInv, LeaseTypeOK
    <3>2. TtlOf[c] # NotArmed
      BY DEF NotArmed
    <3> QED
      BY <1>8, <3>1, <3>2, PublishShape DEF ArrangedInv, LeasesArmed, Active
  <2>2. PendingResolves' /\ RetriesAwaited'
    BY <1>8, SettleAnswers DEF Publish
  <2> QED
    BY <2>1, <2>2 DEF ArrangedInv
<1>9. ASSUME NEW c \in Calls, CreateFails(c)
      PROVE  ArrangedInv'
  <2>1. LeasesArmed'
    BY <1>9 DEF CreateFails, lease, timers, ArrangedInv, LeasesArmed, Active
  <2>2. PendingResolves' /\ RetriesAwaited'
    BY <1>9, SettleAnswers DEF CreateFails
  <2> QED
    BY <2>1, <2>2 DEF ArrangedInv
<1>10. ASSUME NEW c \in Calls, NEW ttl \in Renewals, Renew(c, ttl)
       PROVE  ArrangedInv'
  <2>1. LeasesArmed'
    BY <1>10 DEF Renew, lease, ArrangedInv, LeasesArmed, Active, LeaseInv, LeaseTypeOK,
                 NotArmed
  <2> QED
    BY <1>10, <2>1, CallsKeep DEF Renew
<1>11. ASSUME NEW c \in Calls, RenewTooLate(c) \/ TimerDue(c) \/ RouteIdle(c) \/ Release(c)
       PROVE  ArrangedInv'
  BY <1>2, <1>11
  DEF RenewTooLate, TimerDue, RouteIdle, Release, LeaseInv, RoutesAreLeases
<1>12. ASSUME NEW c \in Calls, TimerEarly(c)
       PROVE  ArrangedInv'
  <2>1. LeasesArmed'
    BY <1>12 DEF TimerEarly, lease, ArrangedInv, LeasesArmed, Active, LeaseInv,
                 LeaseTypeOK, NotArmed
  <2> QED
    BY <1>12, <2>1, CallsKeep DEF TimerEarly
<1>13. ASSUME NEW c \in Calls, Lookup(c)
       PROVE  ArrangedInv'
  BY <1>13, CallsKeep DEF Lookup, lease, ArrangedInv, LeasesArmed, Active
<1> QED
  BY <1>1, <1>3, <1>4, <1>5, <1>6, <1>7, <1>8, <1>9, <1>10, <1>11, <1>12, <1>13
  DEF LeaseNext, Create, Resolve, Timer

LEMMA ArrangedInvAlways == LeaseSpec => []ArrangedInv
  BY LeaseInvAlways, ArrangedInvInit, ArrangedInvStep, PTL DEF LeaseSpec

(* A lease that is live is always one its own timer ends: renewals, early  *)
(* timers and drifting clocks leave none unarmed.                          *)
THEOREM LeaseTimersArmed == LeaseSpec => []LeasesArmed
  BY ArrangedInvAlways, PTL DEF ArrangedInv

(* The call a retry waits for is under way under the retry's own key and   *)
(* with its payload: what it is answered with is what it asked for.        *)
THEOREM LeaseRetriesAwaited == LeaseSpec => [](RetriesAwaited /\ PendingResolves)
  BY ArrangedInvAlways, PTL DEF ArrangedInv

=============================================================================
