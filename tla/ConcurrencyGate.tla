-------------------------- MODULE ConcurrencyGate --------------------------
(***************************************************************************)
(* The per-key concurrency gate of the outbound API server                 *)
(* (core/src/outbound-api/outboundConcurrencyGate.ts): for every API key a *)
(* counting semaphore in front of a bounded first-in first-out queue.      *)
(*                                                                         *)
(* An acquisition is one call of acquire() with the handle it returns.     *)
(* The limit is an argument of each call (the key's maxConcurrency when    *)
(* its request was authenticated), so an administrator's edit shows up as  *)
(* two calls on one key with different limits; a waiter keeps the limit it *)
(* was queued with.                                                        *)
(***************************************************************************)
EXTENDS Integers, FiniteSets, Waitlist

CONSTANTS
  Keys,           \* API key ids
  Acqs,           \* acquisitions, each made at most once
  KeyOf,          \* the key an acquisition is made for
  LimitsOf,       \* the limits calls on a key may carry; 0 means unlimited
  QueueFactor,    \* concurrencyQueue.maxQueueSizeFactor
  MinQueue        \* concurrencyQueue.minQueueSize

ASSUME GateAssumption ==
  /\ IsFiniteSet(Acqs)
  /\ KeyOf \in [Acqs -> Keys]
  /\ LimitsOf \in [Keys -> SUBSET Nat]
  /\ QueueFactor \in Nat
  /\ MinQueue \in Nat

VARIABLES
  active,         \* GateKeyState.active, 0 for a key without state
  waiters,        \* GateKeyState.waiters
  phase,          \* what became of each acquisition
  cap             \* the limit an acquisition was made under

gateVars == <<active, waiters, phase, cap>>

Phases == {"idle", "waiting", "granted", "released", "full", "timedOut", "cancelled"}

\* The operators named BelowOrAt, FailInPlace, NoTimeout, DispatchNobody,
\* DispatchLast, ReleaseTwice and ReleaseMinusTwo are faulty variants of the
\* operator that follows them: put in its place, each breaks a property below.

BelowOrAt(n, limit) == limit = 0 \/ n <= limit

\* active < cap, where limit 0 stands for the cap Infinity.
Below(n, limit) == limit = 0 \/ n < limit

\* max(cap * factor, minQueueSize) for a finite cap.
MaxQueueSize(limit) ==
  IF limit * QueueFactor > MinQueue THEN limit * QueueFactor ELSE MinQueue

GateInit ==
  /\ active = [k \in Keys |-> 0]
  /\ waiters = [k \in Keys |-> << >>]
  /\ phase = [a \in Acqs |-> "idle"]
  /\ cap = [a \in Acqs |-> 0]

-----------------------------------------------------------------------------
(* acquire(): grant at once, else queue, else reject.                      *)

Enter(a, limit) ==
  /\ phase[a] = "idle"
  /\ cap' = [cap EXCEPT ![a] = limit]

AcquireGranted(a, limit) ==
  LET k == KeyOf[a] IN
  /\ Enter(a, limit)
  /\ Below(active[k], limit)
  /\ active' = [active EXCEPT ![k] = @ + 1]
  /\ phase' = [phase EXCEPT ![a] = "granted"]
  /\ UNCHANGED waiters

AcquireQueued(a, limit) ==
  LET k == KeyOf[a] IN
  /\ Enter(a, limit)
  /\ ~Below(active[k], limit)
  /\ Len(waiters[k]) < MaxQueueSize(limit)
  /\ waiters' = [waiters EXCEPT ![k] = Append(@, a)]
  /\ phase' = [phase EXCEPT ![a] = "waiting"]
  /\ UNCHANGED active

AcquireFull(a, limit) ==
  LET k == KeyOf[a] IN
  /\ Enter(a, limit)
  /\ ~Below(active[k], limit)
  /\ Len(waiters[k]) >= MaxQueueSize(limit)
  /\ phase' = [phase EXCEPT ![a] = "full"]
  /\ UNCHANGED <<active, waiters>>

Acquire(a, limit) ==
  AcquireGranted(a, limit) \/ AcquireQueued(a, limit) \/ AcquireFull(a, limit)

-----------------------------------------------------------------------------
(* waiter.fail(): the wait timer fires, or cancel() is called before the   *)
(* grant.  The waiter leaves the queue; nobody is granted.                 *)

FailInPlace(a, outcome) ==
  /\ phase[a] = "waiting"
  /\ phase' = [phase EXCEPT ![a] = outcome]
  /\ UNCHANGED <<active, waiters, cap>>

Fail(a, outcome) ==
  LET k == KeyOf[a] IN
  /\ phase[a] = "waiting"
  /\ waiters' = [waiters EXCEPT ![k] = Without(@, a)]
  /\ phase' = [phase EXCEPT ![a] = outcome]
  /\ UNCHANGED <<active, cap>>

NoTimeout(a) == FALSE

Timeout(a) == Fail(a, "timedOut")
Cancel(a) == Fail(a, "cancelled")

-----------------------------------------------------------------------------
(* slot.release(): give the slot back and grant the head of the queue if   *)
(* it fits under the head's own cap.                                       *)

DispatchNobody(k, released, left) ==
  /\ active' = [active EXCEPT ![k] = left]
  /\ phase' = [phase EXCEPT ![released] = "released"]
  /\ UNCHANGED waiters

DispatchLast(k, released, left) ==
  IF waiters[k] = << >>
  THEN DispatchNobody(k, released, left)
  ELSE LET last == waiters[k][Len(waiters[k])] IN
       /\ waiters' = [waiters EXCEPT ![k] = Without(@, last)]
       /\ active' = [active EXCEPT ![k] = left + 1]
       /\ phase' = [phase EXCEPT ![released] = "released", ![last] = "granted"]

\* dispatchNext() on key k after `released' gave its slot back, `left' slots
\* being still in use.
DispatchNext(k, released, left) ==
  IF waiters[k] # << >> /\ Below(left, cap[Head(waiters[k])])
  THEN /\ waiters' = [waiters EXCEPT ![k] = Tail(@)]
       /\ active' = [active EXCEPT ![k] = left + 1]
       /\ phase' = [phase EXCEPT ![released] = "released", ![Head(waiters[k])] = "granted"]
  ELSE /\ active' = [active EXCEPT ![k] = left]
       /\ phase' = [phase EXCEPT ![released] = "released"]
       /\ UNCHANGED waiters

\* Math.max(0, active - 1)
OneLess(n) == IF n > 0 THEN n - 1 ELSE 0

ReleaseTwice(a) ==
  /\ phase[a] \in {"granted", "released"}
  /\ DispatchNext(KeyOf[a], a, OneLess(active[KeyOf[a]]))
  /\ UNCHANGED cap

ReleaseMinusTwo(a) ==
  /\ phase[a] = "granted"
  /\ DispatchNext(KeyOf[a], a, active[KeyOf[a]] - 2)
  /\ UNCHANGED cap

\* The slot's `released' flag makes a second call return at once: the callers
\* release from a finally block and from a close listener.
Release(a) ==
  \/ /\ phase[a] = "granted"
     /\ DispatchNext(KeyOf[a], a, OneLess(active[KeyOf[a]]))
     /\ UNCHANGED cap
  \/ /\ phase[a] = "released"
     /\ UNCHANGED gateVars

GateNext ==
  \E a \in Acqs :
    \/ \E limit \in LimitsOf[KeyOf[a]] : Acquire(a, limit)
    \/ Timeout(a)
    \/ Cancel(a)
    \/ Release(a)

GateSpec == GateInit /\ [][GateNext]_gateVars

-----------------------------------------------------------------------------
(* Properties.                                                             *)

Holders(k) == {a \in Acqs : KeyOf[a] = k /\ phase[a] = "granted"}
Waiting(a) == phase[a] = "waiting"

\* Every acquisition of key k so far was made under the limit n > 0: nobody has
\* edited the limit.
Unedited(k, n) ==
  n > 0 /\ \A a \in Acqs : KeyOf[a] = k /\ phase[a] # "idle" => cap[a] = n

TypeOK ==
  /\ active \in [Keys -> Nat]
  /\ waiters \in [Keys -> Seq(Acqs)]
  /\ phase \in [Acqs -> Phases]
  /\ cap \in [Acqs -> Nat]

\* The counter of a key is the number of slots handed out and not yet given
\* back, whatever releases, cancels and timeouts raced: no slot is leaked or
\* freed twice by the gate itself.
SlotAccounting == \A k \in Keys : active[k] = Cardinality(Holders(k))

\* Every acquisition that waits is in its key's queue exactly once, and
\* nothing else is: a grant, a timeout or a cancel leaves no ghost behind.
QueueAccounting ==
  \A k \in Keys :
    /\ \A i, j \in DOMAIN waiters[k] : waiters[k][i] = waiters[k][j] => i = j
    /\ \A a \in Acqs :
         (Waiting(a) /\ KeyOf[a] = k) <=> (\E i \in DOMAIN waiters[k] : waiters[k][i] = a)

\* Someone waits only while someone holds a slot whose release will look at
\* the queue, even when the limit was edited between the calls: no waiter is
\* stranded on an idle key.
NoStrandedWaiter == \A k \in Keys : waiters[k] # << >> => active[k] > 0

\* As long as the limit is not edited the gate never holds back capacity: a
\* queue forms only while the slots in use are exactly the limit, and never
\* outgrows the bound that limit gives it.
WorkConserving ==
  \A k \in Keys : \A n \in LimitsOf[k] :
    Unedited(k, n) =>
      /\ active[k] <= n
      /\ waiters[k] # << >> => active[k] = n
      /\ Len(waiters[k]) <= MaxQueueSize(n)
=============================================================================
