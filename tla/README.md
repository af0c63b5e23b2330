# Omnicross: TLA+ models, checks and proofs

Omnicross is a gateway for language models. A Node daemon (`src/packages/daemon`)
serves an outbound HTTP API and a local proxy for command-line tools, picks an
upstream (a provider with a pool of API keys, a subscription account, an image
back end) and converts between the vendors' wire formats
(`src/packages/core`, `src/packages/subscriptions`). The conversions are plain
data and well tested. What is hard to test is the shared state between requests:
slots, queues, timers, rotating keys, leases, account marks. This project models
that state.

All paths below are relative to `src/packages/`, with these abbreviations:

| | |
|---|---|
| `gate` | `core/src/outbound-api/outboundConcurrencyGate.ts` |
| `router` | `core/src/outbound-api/outboundApiRouter.ts` |
| `serial` | `core/src/outbound-api/userMessageSerialQueue.ts` |
| `pool` | `core/src/completion/ApiKeyPoolService.ts` |
| `auth` | `core/src/pipeline/LlmConfigProviderAuth.ts` |
| `lease` | `core/src/provider-proxy/RouteLeaseManager.ts` |
| `routes` | `core/src/provider-proxy/providerProxyRouteMap.ts` |
| `sched` | `daemon/src/image-generation/ImageExecutionScheduler.ts` |
| `runtime` | `daemon/src/image-generation/ImageRuntimeManager.ts` |
| `redeem` | `core/src/outbound-api/voucherRedeem.ts` |
| `cards`, `keys` | `daemon/src/ports/JsonVoucherDb.ts`, `daemon/src/ports/JsonOutboundKeyDb.ts` |
| `breaker` | `subscriptions/src/opencodego/CircuitBreaker.ts` |
| `plan` | `core/src/provider-proxy/ingress/anthropicSubscriptionPlan.ts` |

`PROJECT.json` holds the exact correspondence: for each definition the lines it
translates, the runs, the hazards with the properties that guard them, the
findings and the theorems.

## 1. Inventory

One JavaScript thread runs everything. A callback runs to its end, so
interleaving happens at `await`s, timers and events only; the hard behaviours
are state read before an `await` and used after it, timers that race the calls
they time out, listeners in the wrong order, and failures between two steps.

### Modelled

| Component | State | Operations | Meets | Hard | What makes it correct |
|---|---|---|---|---|---|
| **Outbound concurrency gate** (`gate`) | per key: `active`, FIFO `waiters`, each with its own cap | `acquire` (grant, queue, reject), wait timer, `cancel`, `release` + `dispatchNext` | called by the router, twice for some requests | release, timeout and cancel of one waiter race; the limit is edited between calls | the counter is the slots out; the queue is the waiters; nobody waits on an idle key; no capacity is held back; FIFO |
| **Outbound request admission** (`router`) | where each handler is, `close` listeners of each response | authentication, the routed acquisition, body, route, dispatch, the relay with its own acquisition, `finally` | gate, serial queue, `res` events | a slot is released from two places; the client may leave at any step; a relay nested in a routed request | each handler gives its slot back; a request does not wait for itself; a client that has gone is granted nothing |
| **User-message serial queue** (`serial`) | per account: `holding`, `waiters`, `lastReleaseTs`, `dispatchHandle` | `acquire`, wait timer, dispatch timer, `release` | called by the router around the dispatch | a dispatch timer armed for a waiter that gives up; event-loop lag; an edited delay | one message in flight; a gap between messages; FIFO; no lost wakeup |
| **API key pool** (`pool`, `auth`, `daemon/src/pool`) | key cache, cooldowns, session bindings, rotation index, disabled keys | select, report success or error, disable, invalidate on edit | ingress code before and after each upstream call, administrators | requests of a session overlap; reports arrive after the binding has moved | no stale key list; a session keeps a healthy key; weights are honoured; a strict key stays; only refused keys are disabled |
| **Route leases** (`lease`, `routes`) | leases, tombstones, idempotency map, pending creates, route tokens, two timers per lease | create, renew, release, expire, route idle, lookup, shutdown | the lease API, the proxy's route map, the target resolver | retries overlap an unfinished create; shutdown during it; two clocks that drift | live tokens are the live leases; one lease per idempotency key; every lease ends; every retry is answered |
| **Image execution scheduler** (`sched`) | per account: active count, tenant queues and tenant order; one bound on all waiters | `acquire` (grant, queue, reject), `removeWaiter` (abort, timeout), `release` + `drain`, `shutdown` | called by the image provider of a generation | an order list kept beside the queues; one count for the queues of all accounts; every wait has several ends | the count is the waiters; the rotation is the tenants with waiters; nobody waits beside a free slot; turns are kept |
| **Image runtime generations** (`runtime`, `daemon/src/admin/serverConfigTransaction.ts`) | generations with their phase, leases on them, disposal timers, the change being published | lease, return, prepare, publish, roll back, discard, deferred disposal, manager `dispose` | owns one scheduler per generation; driven by configuration transactions | a change is published under load, and rolled back when another part of its transaction fails | the current generation is alive; none is disposed under a request; each replaced one ends |
| **Vouchers** (`redeem`, `core/src/outbound-api/keyedMutex.ts`, `voucher.ts`, `cards`, `keys`) | card: unredeemed, redeemed, revoked, its owner, grant and mark; policy of a key; a mutex per key | redeem (reconcile, look up, read, flip, apply, revert, mark), create, revoke, administrators' edits | two files, written one after the other | a crash or a failed write between any two calls, retries, two keys and one card | each card is credited once, to one key; success is durable; a crash is repaired |
| **Subscription routing**, in part (`breaker`, `plan`, `subscriptions/src/SubscriptionProviderRegistry.ts`) | breaker per model: closed, open, half-open with its count of probes | allow, record success or failure, fall back to the next model | the breakers are shared by all requests | a probe that ends neither in success nor in failure | a model that answers again is admitted again |

### Not modelled yet

| Component | State and operations | Hard | What would make it correct |
|---|---|---|---|
| **Account health and allowances** (`core/src/pipeline/SubscriptionAccountHealth.ts`, sweepers and probes of the daemon) | marks with expiry, quota marks, signals. Report, clear, sweep | the signals are edges of a state that expires by itself | anomaly and recovery signals alternate and agree with the marks |
| **Subscription credentials** (`daemon/src/ports/JsonSubscriptionCredentialStore.ts`) | tokens by account, refreshes under way | coalescing by two keys for one account | one refresh spends a token; the winner's token is kept |

### Left out

| Component | Why |
|---|---|
| Outbound rate limit and key spend | sequential between awaits, but for one seeding race listed as a hazard |
| Image storage, audit, integrations | file I/O; what could fail is the platform's rename and fsync |
| Billing and usage, webhooks | best effort or at least once by design; the one duplication is listed as a hazard |
| Wire conversion | pure data, no shared state |
| Daemon bootstrap, admin API, configuration | wiring and validation; its effects on modelled parts are actions there |
| Codex sessions, ChatGPT web bridge | driven by external protocols that are not in the repository |
| CLI launcher, search, desktop shell, contracts, UI | independent of the serving core |

## 2. Plan

Order, the most important behaviour first. Done: 1 to 7.

1. `ConcurrencyGate`, composed with its users in `OutboundAdmission`
   (every request passes here; a slot lost is lost until restart).
2. `SerialQueue`, shown to implement `FifoLock`.
3. `ApiKeyPool`, with the requests as clients.
4. `RouteLease`, shown to implement `LeaseRegistry`.
5. `ImageScheduler`, composed with the generations that own a scheduler each, in
   `ImageRuntime`.
6. `Voucher`, shown to implement `CardLedger`.
7. `CircuitBreaker` with the fallback loop as its client, in `ModelFallback`.
8. `AccountHealth`: marks and signals. Not written.
9. Subscription credentials: refreshes coalesced under two keys. Not written; it
   needs the OAuth endpoint as an environment.

Proofs come with each module. The safety properties of the runs are proved; for
most of those that fail, and for liveness, the part that does hold is (section 6).
Still worth proving: abstract specifications of the gate (a counting semaphore with
one queue) and of the generations (one in service, each disposed once and unused),
refined by `ConcurrencyGate` and `ImageRuntime` as the lock, the registry and the
ledger are.

## 3. Modules

```
Waitlist ──────────┬── ConcurrencyGate ── OutboundAdmission ── MCOutboundAdmission
  (queues)         │                              │
                   │                              OutboundAdmissionProofs (gate and handlers)
WaitlistProofs ────┤
                   ├── FifoLock  (abstract)
                   └── SerialQueue ── MCSerialQueue;  SerialQueueProofs
ApiKeyPool ── MCApiKeyPool;  ApiKeyPoolProofs
LeaseRegistry (abstract);  RouteLease ── MCRouteLease;  RouteLeaseProofs
Waitlist ── ImageScheduler ── ImageRuntime ── MCImageRuntime;  ImageProofs
Waitlist ── Voucher ── MCVoucher;  VoucherProofs;  CardLedger (abstract)
CircuitBreaker ── ModelFallback ── MCModelFallback;  ModelFallbackProofs
```

Where a run needs evidence that a property can fail, the module also defines
*faulty variants* of its operators, each just before the one it varies
(`ReleaseTwice` before `Release`: the slot's `released` flag is missing). No
specification uses them; section 7 says which property each one breaks.

**`Waitlist`** has what the arrays of waiters need: membership, distinctness, and
`Without`, which is `splice(indexOf(waiter), 1)`.

**`ConcurrencyGate`** is the class `OutboundConcurrencyGate`. `active[k]` and
`waiters[k]` are the key's `GateKeyState` (a collected entry reads as 0 and empty,
so `gc` does nothing to see); `phase[a]` stands for the `settled`, `granted` and
`released` flags of acquisition `a`, and `cap[a]` for the limit of that call
(0 is no limit). `Acquire` is `acquire` with its three ends; `Timeout` and
`Cancel` are `waiter.fail`; `Release` is the slot's `release`, including
`dispatchNext`.

**`OutboundAdmission`** is `handleOutboundRequest` and `relayDirectUpstream` as
users of the gate. `pc[r]` is the `await` a handler stands at, `onClose[r]` the
`close` listeners in the order they were bound, and `turn` the ones an emission
has still to call, so that "listeners, then the continuations they resolved, then
the next event" is what the model does: a handler that can resume (`Resumable`)
runs before any event (`Idle`). Quota, routing and dispatch are one choice each,
for a handler can return from any of them. Image, search and token-count paths
reach the gate in the same way or not at all. The handler that `readBody` leaves
hanging when its client had gone before the listeners were bound is the state
`hung`.

**`SerialQueue`** is `UserMessageSerialQueue` for one account. Time is the age of
the last release (`sinceRelease`, saturating at `LongAgo`) and the rest of the
dispatch timer (`dispatchIn`), in ticks; a timer that is due fires now or later.
`FifoLock` is what it promises: a lock handed over in the order of arrival, with
waiters that may give up.

**`ApiKeyPool`** is `ApiKeyPoolService` for one provider and the requests that use
it, each a first attempt and at most one retry. `pc` separates the steps at the
`await`s: the list is read, then acted on; a disable is stored, then the cache is
dropped and filled again. The cumulative weights that `selectWeightedRoundRobin`
adds up are counted here as `Slots`, a set of pairs, in the order of `Place`; an index
belongs to the first key whose slots, and those of the keys before it, outnumber
it. A cooldown is a member of `cooling` that leaves when it
likes; the length of the backoff is left out. `troubled` is a history variable:
keys ever off, disabled, refused or cooling.

**`RouteLease`** is `RouteLeaseManager` with the route map. A lease and its route
token are named by the `create` call that makes them. `expiresIn` runs with the
wall clock, `timerIn` and `idleIn` with the timers', and the two drift apart at
will: a machine sleeps, a clock is set. Tombstones are the final `status`; their
order and bound, the schema checks and the contents of results are left out.
`LeaseRegistry` is what it promises: one grant per lease and key, one end, and
none after shutdown.

**`ImageScheduler`** is the class `ImageExecutionScheduler`, once per generation.
`activeJobs`, `tenantQueues` and `tenantOrder` are an account's state (a pruned
account reads as 0 and empty), `waitingJobs` the one count a bound is compared
with. `RemoveWaiter` is the timeout and the abort, whose listener runs at once.
`drain` loops in the code; after a release it grants once, because jobs wait only
while every slot is in use (`FullWhileWaiting`, proved), so `Release` passes one
slot on. `retire` has no caller and is left out.

**`ImageRuntime`** is `ImageRuntimeManager`: a job is a request that leases the
current generation, submits to that generation's scheduler, and returns its lease
when it is over. A provider gives its slot back before the lease ends
(`subscriptions/src/image-generation/CodexSubscriptionImageProvider.ts:243-350`), so
`Return` follows `EndJob`. Between publication and rollback a transaction awaits
settled promises only, so everything that answers a timer or a request waits for
`Quiet`; a rollback onto a generation that is being disposed, which
`runtime:382` would let through, cannot happen. `Discard` after `Close` sets the
phase back to `draining`, as the code does.

**`Voucher`** is the redeem handler, one action per call on `vouchers.json` or
`keys.json`. `mutex[k]` is the chain of promises in `keyedMutex.ts`; the first of
it runs. `Crash` drops mutex and requests and keeps the files; `Throw` is a write
that fails. `pc` goes back to `idle` after either, which is the client's retry.
**Assumption:** a write is made whole or not at all. The code sees to it for
`keys.json` (`atomicReplace`, `keys:269-271`), but `vouchers.json` is written in
place (`cards:136-138`), and a file torn by a crash is read as an empty list
(`cards:126-134`), with every card forgotten. The model leaves that crash out, and
everything said of cards below, `SuccessIsDurable` first, rests on this. An
administrator's edit waits for `Quiet`: the calls of a chain settle at once, so no
other request's I/O event falls between them, but edits do fall before the chain and
between a crash and the retry. A reconciliation writes the absolute limit recorded
with the open grant and so overwrites an edit made in between, and a cap below the
current limit lowers it; both are the code's, and in the ledger.
`CardLedger` is what redemption promises: a card raises the limit of one key,
once, in one step, from what the limit is at that moment. Its `Spend` is mapped to
the flip, since an open grant is counted as given. The code keeps this promise
except to a key that is disabled between the verification of a request and its
chain: `Read` does not find such a key and starts from zero. `FoundEnabled` says that
this has not happened, `SteadySpec` has the behaviours of which it is true, and they
implement the ledger; for `Spec`, which has all of them, `voucher_disabled` shows
the promise broken (finding 6).

**`CircuitBreaker`** has the breaker's snapshot and its transitions as operators,
**`ModelFallback`** the loop `runPipelineWithSubscriptionRetry` of concurrent
requests over them. `Neutral` is an attempt that ends in a plain 4xx, in content
the chain refuses to convert, or with a client that has gone.

## 4. Runs

| Run | Result | Properties | Instance |
|---|---|---|---|
| `admission` | holds | `AdmissionTypeOK`, `SlotAccounting`, `QueueAccounting`, `NoStrandedWaiter`, `WorkConserving`, `HeldSlotsBound`, `GrantsInOrder`, `RoutedSlotReturned` | two requests with two acquisitions each, one provider-bound key, limit edited between 1 and 2, queue bound 1 or 2 (factor 1, minimum 1) |
| `disconnect` | violated | `NoGrantAfterDisconnect` | one request |
| `serial` | holds | `SerialTypeOK`, `OneInFlight`, `NoLostWakeup`, `SpacedWithoutTimeouts`, `ImplementsFifoLock`, `EveryoneServed` | four messages, gaps of 1 and 2 ticks |
| `serial_gap` | violated | `Spaced` | four messages, one gap of 2 ticks |
| `pool` | holds | `PoolTypeOK`, `CacheFresh`, `RotationFair`, `AffinityKept` | three keys weighing 1, 2, 1; two requests of one session, one bound request; one revoked key, one key that is edited |
| `pool_strict` | violated | `StrictKept` | one strictly bound request |
| `pool_blame` | violated | `NoInnocentDisabled` | two requests of one session |
| `lease` | holds | `LeaseTypeOK`, `RoutesAreLeases`, `IdempotencyExact`, `ImplementsRegistry`, `EveryLeaseEnds`, `EveryRetryAnswered` | four `create` calls on two keys, one with a conflicting payload; lifetimes of 1 and 2 ticks; one renewal each |
| `image` | holds | `ImageTypeOK`, `WaitingCounted`, `QueuesExact`, `RotationExact`, `FullWhileWaiting`, `CurrentAlive`, `NoJobCutOff`, `TurnsKept`, `GenerationsEnd`, `WaitersServed` | two generations, the second with a queue bound of 1 for 3; two tenants with two jobs each, two accounts of one slot, one of them for the second tenant only |
| `voucher` | holds | `VoucherTypeOK`, `MutexHeld`, `OneUnsettled`, `SuccessIsDurable`, `NextOneRepairs`, `ImplementsLedger` | two keys, two cards, three requests; two changes to keys; crashes and failed writes without bound; `SteadySpec` |
| `voucher_disabled` | violated | `CardsAccumulate` | the same keys, cards and requests; one change to a key and no edit of a limit; `Spec` |
| `breaker` | violated | `ProbationEnds` | two requests, one primary and one fallback |

Why these bounds are enough to be worth something:

- **admission.** Four acquisitions on one key under limit 1 fill the slot and the
  queue and leave one to be rejected; under two limits heads and newcomers
  disagree. A second key would share nothing. The proofs of section 6 remove the
  bounds for safety.
- **serial.** Four calls are one that holds, one whose timer is armed, one that
  gives up and one that profits; two gap lengths let an edit shorten or lengthen
  the gap under an armed timer; `LongAgo` is the longest gap, older releases are
  alike.
- **pool.** Two overlapping requests of a session are needed for a report that
  comes after the binding has moved, three keys for a rotation that still has a
  choice after one is out, with indices left over from the list of three.
  `RotationFair` plays a full turn from each state reached. The run uses positive
  weights (see the hazard for weight 0).
- **lease.** One call that resolves, one that joins it, one that conflicts, one
  on another key; a lifetime of 2 is needed for a timer that fires early by the
  wall clock; `MaxRenewals` bounds the renewals of a lease.
- **image.** In the first generation three jobs, two of one tenant, wait for one
  slot, so that turns matter; in the second the bound is met, also by waiters of two
  accounts together. Two generations are enough for a publication, its rollback,
  and an old generation that drains beside the new one. A third would need a
  second transaction; the proofs cover any number.
- **voucher.** Two cards on one key contend for its mutex, one card is tried by
  two keys; `c2` has a cap that an edit to 5 already exceeds. `MaxChanges` bounds
  the administrator. Crashes and failed writes need no bound: what they leave
  behind is finite. Keys are enabled and disabled at any time, also while a request's
  body arrives; only the computation of a grant for a key found disabled is kept out.
- **voucher_disabled.** That computation, and nothing else an administrator could do
  to the limit, so that the counterexample is about it alone.
- **breaker.** The code's own numbers (3 failures, 3 probes, 3 attempts). The
  counterexample needs one model on probation and another that answers.

`CHECK_DEADLOCK FALSE` is set for admission, leases and images only: when all
requests are answered, the calls used up and every lease ended, or all jobs returned
and both generations disposed, nothing is left to do.

## 5. Fairness and liveness

Liveness is model-checked only. Fairness is weak but where noted.

- `RoutedSlotReturned` (`FairAdmissionSpec`): handlers whose `await` has settled
  run, wait timers fire, listeners are called, and a response that has been sent
  emits `close`. Node's event loop gives all four. A body that is read and an
  upstream call that was made are assumed to end, well or badly; no client is
  assumed to leave. The property excepts a `hung` handler, which is a hazard of its own.
- `EveryoneServed` (`FairSerialSpec`): time passes, a due dispatch timer fires, a
  holder releases (its handler has a `finally`). The wait timers are *not*
  fair: the queue must drain without them.
- `EveryLeaseEnds`, `EveryRetryAnswered` (`FairLeaseSpec`): both clocks advance, a
  due lease timer fires, a target is resolved or not. The idle timer of the
  route is not needed and has no fairness; renewals are bounded, so "no longer
  renewed" is not vacuous.
- `GenerationsEnd`, `WaitersServed` (`FairRuntimeSpec`): the event loop does not
  stop while a handler, a timer or a microtask can go on; running jobs end, at the
  latest by their generation timeout. No wait is assumed to time out, no caller to
  abort and no administrator to act: waiters are served by the rotation alone.
- `ProbationEnds` (`FairSpec`): time passes, callers come, and an attempt at a
  model that is made again and again succeeds again and again (the only strong
  fairness of the project). The property fails although this much is given.

## 6. Proofs

TLAPS checks every theorem for all values of the constants. The assumptions are
the named `ASSUME`s next to the constants (`GateAssumption`, `AdmissionAssumption`,
`SerialAssumption`, `PoolAssumption`, `LeaseAssumption`, `SchedulerAssumption`,
`RuntimeAssumption`, `VoucherAssumption`): types, finiteness of the acquisitions,
calls or jobs, bounds and credits above zero, and distinct marker values. Three more
are hypotheses of single theorems:

- `AtMostOneWeightless` (`PoolRotationFair`): a list of two keys that weigh nothing
  makes the index `NaN`, after which the rotation is unfair for good. The admin API
  accepts such weights; the hazard of `pool:456` is about them.
- `Configured` (both theorems of `ModelFallbackProofs`): types, finitely many
  requests, thresholds above zero. It is what an `ASSUME` would say.
- `RedirectsOnce` (`ProbationCanEnd`): a redirected model id is not redirected again,
  as in the table of `contracts/src/canonical-models.ts:390-393`.

| Theorem | States | Inductive invariant and why |
|---|---|---|
| `GateTypeCorrect`, `GateAccounting`, `GateConservesWork` | the gate's type, `SlotAccounting`, `QueueAccounting`, `NoStrandedWaiter`, `WorkConserving` | `GateInv`, their conjunction. None stands alone: the counter is right because a granted waiter was in the queue once; no waiter is stranded because the counter is right; and the gate conserves work because all waiters of an unedited key carry one limit. It is shown key by key: a step touches one key |
| `AdmissionInOrder` | `GrantsInOrder` | from `GateInv`, action by action: a grant at once means a free slot, and no one waits beside a free slot of an unedited key |
| `AdmissionSlotsBound` | `HeldSlotsBound` | `HandlersInv`: where a handler stands tells the phases of its two acquisitions, and a slot held by a connected request has its release bound, or its handler is about to resume and bind it. The safety half of `RoutedSlotReturned` |
| `AdmissionTypeCorrect`, `AdmissionUsesGate`, `AdmissionSafe` | the handlers implement `GateSpec`, and so have the gate's safety | `AdmissionInv`: `GateInv`, and each cap in use is a limit the key may have, which the relay needs when it acquires under the limit its request was verified with; and the type of the listeners, which makes a `close` emission a run of gate steps |
| `SerialTypeCorrect`, `SerialSafe` | the type, `OneInFlight`, `NoLostWakeup` | `SerialInv`: flag, queue and phases agree (`Consistent`), clocks are typed, and `TimerFits` |
| `SerialSpaced` | `SpacedWithoutTimeouts` | `TimerFits` in `SerialInv`: while no wait has timed out an armed timer is the head's own, and what is left of it and the age of the last release make up the head's gap |
| `SerialIsFifoLock` | `ImplementsFifoLock` | each step maps to a hand-over of the lock or a stutter, from `SerialInv` |
| `PoolCacheFresh`, `PoolAffinity` | `CacheFresh`, `AffinityKept` | `PoolInv`: what is missing from the cache or from the list a request was handed is `troubled`, which is what a request that acts on an old list needs. Which key the rotation draws does not matter to it |
| `PoolTypeCorrect` | `PoolTypeOK` | `PoolTypeInv`: a selection from a list is a key of the list (`SelectedFromList`), and the index stays a number unless a list weighs nothing |
| `PoolRotationFair` | `RotationFair` | no invariant but the type: from any index, `(last + i) % total` meets each slot once in a full turn (`TurnMeetsEachOnce`), and a key has as many slots in a row as it weighs (`SlotsInARow`, `KeyAtItsSlots`) |
| `PoolStrictFirst`, `PoolInnocentIfAlone` | what is left of `StrictKept` and `NoInnocentDisabled`, which fail: the first attempt of a strict request carries its own key and reports on it; without two requests in one session, and with a static key that is accepted, only refused keys are disabled | `BlameInv`: while a request's call is out, its session is bound to the key it carries, or another request of the session has come |
| `LeaseTypeCorrect`, `LeaseRoutes`, `LeaseIdempotency` | the type, `RoutesAreLeases`, `IdempotencyExact` | `LeaseInv` adds `OnePending` (a call that resolves is the pending one of its key, under which no lease is live meanwhile) and `OnlyCreated` (only a call that created has a lease) |
| `LeaseTimersArmed`, `LeaseRetriesAwaited` | each active lease has its timer armed; a retry that waits has a pending create of its key and payload, which resolves. The safety halves of `EveryLeaseEnds` and `EveryRetryAnswered` | `ArrangedInv` with `LeaseInv`: a create starts to resolve only when its key is not pending, so it cannot cut off those who wait for another, and settling answers all of them; each step that clears a lease's timer ends the lease or arms another |
| `LeasesAreARegistry` | `ImplementsRegistry` | `OnePending` gives the guard of `Grant`, `FinalizeEnds` the effect of `End` and `ShutDown` |
| `ImageTypeCorrect`, `ImageWaitingCounted`, `ImageQueues`, `ImageRotation`, `ImageSlots`, `ImageTurns` | the type, `WaitingCounted`, `QueuesExact`, `RotationExact`, `FullWhileWaiting`, `TurnsKept` | `RuntimeInv`. Each step of the runtime is a step of the schedulers (`RuntimeMovesSched`), so `SchedInv` is kept by the latter alone; its parts need each other: `Math.max(0, n - 1)` hides no error because the count is exact, and the head of the rotation has a waiter because the rotation is. `NoneAtClosed` says that a scheduler shut down has nobody waiting |
| `ImageCurrentAlive`, `ImageNoJobCutOff` | `CurrentAlive`, `NoJobCutOff` | `GenInv` in `RuntimeInv`: a disposal that has started has no lease and is not the current generation (`LeaseInv`), states of changes and phases of generations agree (`ChangeInv`), and what a transaction has published is current with an intact predecessor (`TxnInv`) |
| `ImageDisposalArranged`, `ImageNoneLeftOpen` | each generation given up is leased, has its timer armed or has begun to be disposed; a timer is armed for no other; once the manager is disposed none is left open. The safety half of `GenerationsEnd` | `DisposalInv` with `RuntimeInv`: the last lease to end disposes what was replaced, a new lease is on the current generation only, and a rollback drops the timer of the generation it brings back |
| `VoucherTypeCorrect`, `VoucherMutex`, `VoucherOneUnsettled`, `VoucherDurable` | the type, `MutexHeld`, `OneUnsettled`, `SuccessIsDurable` | `VoucherInv`: what a redemption knows at each call (`Known`), for instance that past the reconciliation its key has no open grant, and from the flip to the mark only that of its own card. The mutex is what keeps that true while redemptions of other keys run; a crash or a failed write goes back to where nothing is known |
| `VoucherRepairs` | `NextOneRepairs` | `Known` at the calls that end a chain |
| `VoucherIsALedger` | `ImplementsLedger`, of `SteadySpec` | `SteadyInv` beside `VoucherInv`: from the reading of the limit to the flip a key is not a disabled one, because no other request falls between the calls. The flip maps to `Spend` (to `Hold` if the key is revoked), since `Known` says that the grant was computed from the limit the key still has, if it was found enabled; the revert to `GiveBack`; an edit on an open grant to `EditLimit`; all else changes neither owner nor balance |
| `BreakersKeepTheirCaps` | a breaker is closed exactly below its threshold, half-open with one to `MaxProbes` probes and fewer successes than close it | `BreakerInv`, snapshot by snapshot |
| `ProbationCanEnd` | what is left of `ProbationEnds`, which fails: if every outcome is recorded, a half-open breaker at its cap has an attempt under way whose outcome it will be told | `ProbesUnderWay`: probes not yet answered well are attempts under way; and `UntoldClosed`: the breaker of a redirected id, which hears of no outcome, is closed, without which a redirected fallback could wedge too |

`WaitlistProofs` holds the facts about queues that gate, serial queue, schedulers and
the mutex of a key share (what is left after `Without`, `Tail` and `Append`), and
`LeastNatural`: a set of naturals that is not empty has a least element.

Only model-checked: liveness (section 5), of which the safety halves named above are
proved, and the six properties that fail. Out of the prover's reach are liveness
under fairness, `ENABLED`, and the library's induction theorems, whose operator
parameters the provers cannot instantiate. The one recursive function of the models
that matters, the index in `RotationFair`, is proved about all the same: a least
place at which it differs from the closed form `TurnIndex` cannot exist
(`TurnIsUnique`).

## 7. Can each property fail?

Each property of a passing run has a faulty variant of the code that breaks it on
the same instance:

| Property | Variant | The mistake |
|---|---|---|
| `AdmissionTypeOK` | `ReleaseMinusTwo` | the counter is lowered once too often |
| `SlotAccounting` | `ReleaseTwice` | no `released` flag: finally and listener both count |
| `QueueAccounting` | `FailInPlace` | a waiter that gives up stays in the queue |
| `NoStrandedWaiter` | `DispatchNobody` | release does not look at the queue |
| `WorkConserving` | `BelowOrAt` | `<=` for `<` |
| `HeldSlotsBound` | `NoOthers` | `removeListener` takes every listener off |
| `GrantsInOrder` | `DispatchLast` | the last waiter is served first |
| `RoutedSlotReturned` | `NoTimeout` | no wait timer: a nested relay waits for its own request for ever |
| `SerialTypeOK` | `SwappedElapsed` | the elapsed time is added to the gap |
| `OneInFlight` | `ReleaseTwice` | the second release frees another message's slot |
| `NoLostWakeup` | `TimeoutDisarms` | a wait timeout clears the dispatch timer |
| `SpacedWithoutTimeouts` | `NoClear` | a direct grant leaves the dispatch timer |
| `ImplementsFifoLock` | `Barge` | an immediate grant does not look at the queue |
| `EveryoneServed` | `ReleaseOnly` | release dispatches nobody |
| `PoolTypeOK` | `CoolUnbound` | an error without a binding is reported too |
| `CacheFresh` | `CacheKept` | the cache is not dropped after a disable |
| `RotationFair` | `LateSlot` | `<=` for `<` in the search for the slot |
| `AffinityKept` | `DrawAgain` | a bound session draws again |
| `LeaseTypeOK` | `Under` | a timer counts below zero |
| `RoutesAreLeases` | `RouteForgotten` | an ended lease leaves its route |
| `IdempotencyExact` | `LookBehind` | pending creates are not consulted |
| `ImplementsRegistry` | `PublishAnyway` | no second look at `closed` after the resolve |
| `EveryLeaseEnds` | `TimerForgotten` | a renewal arms no timer |
| `EveryRetryAnswered` | `WaitersForgotten` | the callers that joined a create are not answered |
| `ImageTypeOK` | `MinusTwo` | a count is lowered twice |
| `WaitingCounted` | `CountForgotten` | a waiter that gives up is not counted off |
| `QueuesExact` | `NotSpliced` | a waiter that gives up stays in its queue |
| `RotationExact` | `LeaveOrder` | its tenant stays in the rotation with nobody waiting |
| `FullWhileWaiting`, `WaitersServed` | `NoDrain` | a release serves nobody |
| `TurnsKept` | `RequeueFirst` | a tenant that was served keeps its turn |
| `CurrentAlive` | `DisposeAtOnce` | a replaced generation is disposed before the transaction is kept |
| `NoJobCutOff` | `ReturnEarly` | a lease ends while a job of the request runs |
| `GenerationsEnd` | `NoTimer` | a replaced generation without leases gets no timer |
| `VoucherTypeOK` | `RoomLeft` | a grant is the room left under the cap, below zero after an edit |
| `MutexHeld` | `KeepMutex` | a chain that throws keeps its mutex |
| `OneUnsettled` | `SettleNothing` | no reconciliation |
| `NextOneRepairs` | `SettledUnmarked` | the reconciliation applies a grant and does not mark it |
| `SuccessIsDurable` | `OkAnyway` | success although the policy was not written |
| `ImplementsLedger` | `CreditAgain` | the reconciliation adds the credit instead of writing the recorded limit |

## 8. Findings

Statements of the repository's own comments and docs that the code does not
keep. Each violated run shows one; `PROJECT.json` quotes the lines.

1. **A request can wait for itself, and lose a slot when its client leaves
   meanwhile** (`disconnect`; `router:2084` and `router:1135`). The relay that a
   routed request falls back to acquires the same key's gate a second time; with a
   limit of 1 it waits behind its own slot. The close listeners run in the order
   they were bound: the routed release grants the relay's waiter before the cancel
   is called, and the listener that should release that grant is bound after
   `close`.
2. **The gap between messages is not kept after a wait timeout** (`serial_gap`;
   `serial:112`). The dispatch timer outlives the waiter it was armed for and
   an immediate grant, and grants a later message right after a release.
   `SpacedWithoutTimeouts` is the part of the promise that does hold, and is
   proved.
3. **A strict key is left after a rate limit** (`pool_strict`; `auth:132`). The
   retry takes any key of the pool.
4. **A healthy key can be disabled for another's 401** (`pool_blame`;
   `pool:195`). The report blames the key the session is bound to when the
   answer arrives.
5. **A model on probation can stay on it for ever** (`breaker`; `breaker:108`).
   A half-open circuit admits three probes. A probe that ends in a plain 4xx, in
   content the chain refuses, or with a client that has gone records neither
   success nor failure and its slot is not given back; after three of them the
   model is refused for good while the fallback answers.
   `subscriptions/src/SubscriptionProviderRegistry.ts:305` avoids the same wedge for
   another caller. With the slot given back on such answers the property
   holds on the same instance.
6. **Different cards do not always accumulate** (`voucher_disabled`; `redeem:237`).
   `redeem:16-18` and `redeem:254-255` say that they do, because "current" includes
   every earlier card. A key that is disabled after its request was verified and
   before the chain starts (the body is uploaded in between) is not found by its
   hash, the grant is computed from zero, and the policy write, which only rejects a
   revoked row (`keys:209-236`), replaces the old limit: the earlier cards' credit is
   gone, also once the key is enabled again. `ImplementsLedger` of `SteadySpec` is
   the part of the promise that does hold, and is proved.

Hazards no property covers yet are listed in `PROJECT.json` with the reason.
