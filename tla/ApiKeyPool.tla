----------------------------- MODULE ApiKeyPool -----------------------------
(***************************************************************************)
(* The key pool of one provider                                            *)
(* (core/src/completion/ApiKeyPoolService.ts) and the requests that draw   *)
(* on it: resolvePoolBoundKey before the upstream call,                    *)
(* LlmConfigProviderAuth.onResult after it, and one retry with the key     *)
(* onResult hands back.  All requests of one downstream key share one pool *)
(* session, so requests of a session overlap.                              *)
(*                                                                         *)
(* A cooldown is a key in `cooling' that leaves when its time is up; how   *)
(* long the backoff lasts is left out.  The loader of the daemon           *)
(* (pool/loadPoolKeys.ts) reads the stores at the call, so reading them,   *)
(* filling the cache and filtering the list are one step; what the request *)
(* does with the list is another, after the awaits.                        *)
(***************************************************************************)
EXTENDS Integers, FiniteSets

CONSTANTS
  Keys,           \* the pool entries of the provider
  Place,          \* their places in the configuration
  WeightOf,       \* the weight of each key
  Requests,       \* requests, each served once
  Sessions,
  SessionOf,      \* the session of each request
  PinOf,          \* the key a request is bound to, or NoKey
  PolicyOf,       \* the fallback policies a bound request may find
  Edited,         \* the keys an administrator switches on and off
  Revoked,        \* what the upstream answers 401 or 403 to
  NoKey,          \* no pool key: nothing yet, or the row's own static key
  NoList          \* the cache holds no list for the provider

ASSUME PoolAssumption ==
  /\ IsFiniteSet(Keys)
  /\ NoKey \notin Keys
  /\ Place \in [Keys -> 1 .. Cardinality(Keys)]
  /\ \A k, l \in Keys : Place[k] = Place[l] => k = l
  /\ WeightOf \in [Keys -> Nat]
  /\ SessionOf \in [Requests -> Sessions]
  /\ PinOf \in [Requests -> Keys \cup {NoKey}]
  /\ PolicyOf \in [Requests -> SUBSET {"strict", "pool"}]
  /\ Edited \subseteq Keys
  /\ Revoked \subseteq Keys \cup {NoKey}
  /\ \A list \in SUBSET Keys : NoList # list

VARIABLES
  enabled,        \* keys the configuration enables
  disabled,       \* AutoDisableStore: keys disabled after a 401 or 403
  cache,          \* keyCache: the keys loaded as enabled, or NoList
  cooling,        \* cooldowns whose time is not up
  binding,        \* sessionBindings: the key of each session
  rr,             \* rrIndex
  pc,             \* where each request is
  seen,           \* the available keys a request was handed
  used,           \* the key a request's upstream call carries
  troubled        \* history: keys ever off, disabled, refused or cooling

vars == <<enabled, disabled, cache, cooling, binding, rr, pc, seen, used,
          troubled>>
store == <<enabled, disabled>>

NotSet == -1
NaN == -2
Stages == {"new", "pinning", "picking", "sent", "disabling", "rotating",
           "retrying", "done"}

PoolInit ==
  /\ enabled \in SUBSET Keys
  /\ disabled = {}
  /\ cache = NoList
  /\ cooling = {}
  /\ binding = [s \in Sessions |-> NoKey]
  /\ rr = NotSet
  /\ pc = [r \in Requests |-> "new"]
  /\ seen = [r \in Requests |-> {}]
  /\ used = [r \in Requests |-> NoKey]
  /\ troubled = Keys \ enabled

-----------------------------------------------------------------------------
(* selectWeightedRoundRobin over the available keys, in their order.       *)
(* LateSlot, DrawAgain, CoolUnbound and CacheKept are faulty variants of   *)
(* the definitions that follow them.                                       *)

\* A key takes as many slots of the rotation as it weighs.
Slots(list) == UNION {{key} \X (1 .. WeightOf[key]) : key \in list}

Weight(list) == Cardinality(Slots(list))

NextIndex(list, last) ==
  IF Cardinality(list) = 1 THEN last
  ELSE IF Weight(list) = 0 \/ last = NaN THEN NaN
  ELSE (last + 1) % Weight(list)

Foremost(list) == CHOOSE key \in list : \A k \in list : Place[key] <= Place[k]

UpTo(list, key) == {k \in list : Place[k] <= Place[key]}

LateSlot(list, at) ==
  LET hit == {key \in list : at <= Weight(UpTo(list, key))}
  IN  Foremost(IF hit = {} THEN list ELSE hit)

\* The key whose slots hold the index; with none, the first of the list.
KeyAt(list, at) ==
  LET hit == {key \in list : at # NaN /\ at < Weight(UpTo(list, key))}
  IN  Foremost(IF hit = {} \/ Cardinality(list) = 1 THEN list ELSE hit)

Selected(list) == KeyAt(list, NextIndex(list, rr))

-----------------------------------------------------------------------------
(* getAllKeys and getAvailableKeys, for a request that then awaits.        *)

Loaded(list) == IF list = NoList THEN enabled \ disabled ELSE list

LoadFor(r, list, cold) ==
  /\ cache' = list
  /\ seen' = [seen EXCEPT ![r] = list \ cold]

Bound(r) == binding[SessionOf[r]]

\* The key goes into the upstream call; the list is of no further use.
Carry(r, key) ==
  /\ used' = [used EXCEPT ![r] = key]
  /\ seen' = [seen EXCEPT ![r] = {}]

Bind(r, key) ==
  /\ binding' = [binding EXCEPT ![SessionOf[r]] = key]
  /\ Carry(r, key)

\* Select the next key of the rotation and bind the session to it.
Rotate(r) ==
  /\ Bind(r, Selected(seen[r]))
  /\ rr' = NextIndex(seen[r], rr)

-----------------------------------------------------------------------------
(* The key of the first attempt.                                           *)

Arrive(r) ==
  /\ pc[r] = "new"
  /\ LoadFor(r, Loaded(cache), cooling)
  /\ pc' = [pc EXCEPT ![r] = IF PinOf[r] = NoKey THEN "picking" ELSE "pinning"]
  /\ UNCHANGED <<store, cooling, binding, rr, used, troubled>>

Pin(r) ==
  /\ pc[r] = "pinning"
  /\ PinOf[r] \in seen[r]
  /\ Bind(r, PinOf[r])
  /\ pc' = [pc EXCEPT ![r] = "sent"]
  /\ UNCHANGED <<store, cache, cooling, rr, troubled>>

\* The bound key is out: 502 when the binding is strict ...
Refuse(r) ==
  /\ pc[r] = "pinning"
  /\ PinOf[r] \notin seen[r]
  /\ "strict" \in PolicyOf[r]
  /\ pc' = [pc EXCEPT ![r] = "done"]
  /\ seen' = [seen EXCEPT ![r] = {}]
  /\ UNCHANGED <<store, cache, cooling, binding, rr, used, troubled>>

\* ... and otherwise on to the pool.
FallBack(r) ==
  /\ pc[r] = "pinning"
  /\ PinOf[r] \notin seen[r]
  /\ "pool" \in PolicyOf[r]
  /\ pc' = [pc EXCEPT ![r] = "picking"]
  /\ LoadFor(r, Loaded(cache), cooling)
  /\ UNCHANGED <<store, cooling, binding, rr, used, troubled>>

DrawAgain(r) == Bound(r) \in seen[r] /\ Rotate(r)

Keep(r) ==
  /\ Bound(r) \in seen[r]
  /\ Carry(r, Bound(r))
  /\ UNCHANGED <<binding, rr>>

Redraw(r) ==
  /\ Bound(r) \notin seen[r]
  /\ seen[r] # {}
  /\ Rotate(r)

Pick(r) ==
  /\ pc[r] = "picking"
  /\ Keep(r) \/ Redraw(r)
  /\ pc' = [pc EXCEPT ![r] = "sent"]
  /\ UNCHANGED <<store, cache, cooling, troubled>>

\* No key is available: the row's own static key, or 502 without one.
PickNone(r) ==
  /\ pc[r] = "picking"
  /\ seen[r] = {}
  /\ \E next \in {"sent", "done"} : pc' = [pc EXCEPT ![r] = next]
  /\ UNCHANGED <<store, cache, cooling, binding, rr, seen, used, troubled>>

-----------------------------------------------------------------------------
(* onResult: reportSuccess and reportError for the session's bound key.    *)

\* reportSuccess ends the cooldown of the bound key.
Succeed(r) ==
  /\ pc[r] = "sent"
  /\ cooling' = cooling \ {Bound(r)}
  /\ pc' = [pc EXCEPT ![r] = "done"]
  /\ UNCHANGED <<store, cache, binding, rr, seen, used, troubled>>

\* A status that says nothing of the key, or an error with no binding.
Fail(r) ==
  /\ pc[r] = "sent"
  /\ pc' = [pc EXCEPT ![r] = "done"]
  /\ UNCHANGED <<store, cache, cooling, binding, rr, seen, used, troubled>>

CoolUnbound(r) ==
  /\ pc[r] = "sent"
  /\ cooling' = cooling \cup {Bound(r)}
  /\ LoadFor(r, Loaded(cache), cooling')
  /\ pc' = [pc EXCEPT ![r] = "rotating"]
  /\ troubled' = troubled \cup {Bound(r)}
  /\ UNCHANGED <<store, binding, rr, used>>

\* 429 or 529: applyCooldown, then on to the other keys.
RateLimited(r) ==
  /\ pc[r] = "sent"
  /\ Bound(r) # NoKey
  /\ cooling' = cooling \cup {Bound(r)}
  /\ LoadFor(r, Loaded(cache), cooling')
  /\ pc' = [pc EXCEPT ![r] = "rotating"]
  /\ troubled' = troubled \cup {Bound(r)}
  /\ UNCHANGED <<store, binding, rr, used>>

\* 401 or 403: markAutoDisabled.  A host whose store fails marks nothing.
AuthFailed(r) ==
  /\ pc[r] = "sent"
  /\ used[r] \in Revoked
  /\ Bound(r) # NoKey
  /\ disabled' \in {disabled, disabled \cup {Bound(r)}}
  /\ pc' = [pc EXCEPT ![r] = "disabling"]
  /\ troubled' = troubled \cup {Bound(r)}
  /\ UNCHANGED <<enabled, cache, cooling, binding, rr, seen, used>>

CacheKept(r) ==
  /\ pc[r] = "disabling"
  /\ LoadFor(r, Loaded(cache), cooling)
  /\ pc' = [pc EXCEPT ![r] = "rotating"]
  /\ UNCHANGED <<store, cooling, binding, rr, used, troubled>>

\* The mark is made: the cache is dropped and filled again.
DisableReturns(r) ==
  /\ pc[r] = "disabling"
  /\ LoadFor(r, Loaded(NoList), cooling)
  /\ pc' = [pc EXCEPT ![r] = "rotating"]
  /\ UNCHANGED <<store, cooling, binding, rr, used, troubled>>

\* reportError hands back another key, which the one retry carries.
Reselect(r) ==
  /\ pc[r] = "rotating"
  /\ seen[r] # {}
  /\ Rotate(r)
  /\ pc' = [pc EXCEPT ![r] = "retrying"]
  /\ UNCHANGED <<store, cache, cooling, troubled>>

NothingLeft(r) ==
  /\ pc[r] = "rotating"
  /\ seen[r] = {}
  /\ pc' = [pc EXCEPT ![r] = "done"]
  /\ UNCHANGED <<store, cache, cooling, binding, rr, seen, used, troubled>>

\* What the retry ends in is relayed and not reported.
RetryEnds(r) ==
  /\ pc[r] = "retrying"
  /\ pc' = [pc EXCEPT ![r] = "done"]
  /\ UNCHANGED <<store, cache, cooling, binding, rr, seen, used, troubled>>

-----------------------------------------------------------------------------

CoolingEnds(key) ==
  /\ key \in cooling
  /\ cooling' = cooling \ {key}
  /\ UNCHANGED <<store, cache, binding, rr, pc, seen, used, troubled>>

\* An administrator switches a key on or off: reload, then invalidateCache.
Edit(key) ==
  /\ enabled' = IF key \in enabled THEN enabled \ {key} ELSE enabled \cup {key}
  /\ cache' = NoList
  /\ troubled' = troubled \cup {key}
  /\ UNCHANGED <<disabled, cooling, binding, rr, pc, seen, used>>

Answered(r) ==
  \/ Succeed(r) \/ Fail(r) \/ RateLimited(r) \/ AuthFailed(r)

Reported(r) ==
  \/ DisableReturns(r) \/ Reselect(r) \/ NothingLeft(r) \/ RetryEnds(r)

PoolNext ==
  \/ \E r \in Requests : \/ Arrive(r) \/ Pin(r) \/ Refuse(r) \/ FallBack(r)
                         \/ Pick(r) \/ PickNone(r)
                         \/ Answered(r) \/ Reported(r)
  \/ \E key \in Keys : CoolingEnds(key)
  \/ \E key \in Edited : Edit(key)

PoolSpec == PoolInit /\ [][PoolNext]_vars

-----------------------------------------------------------------------------

(* The state has its type.                                                 *)
PoolTypeOK ==
  /\ enabled \subseteq Keys
  /\ disabled \subseteq Keys
  /\ cache \in {NoList} \cup SUBSET Keys
  /\ cooling \subseteq Keys
  /\ binding \in [Sessions -> Keys \cup {NoKey}]
  /\ rr \in Nat \cup {NotSet, NaN}
  /\ pc \in [Requests -> Stages]
  /\ seen \in [Requests -> SUBSET Keys]
  /\ used \in [Requests -> Keys \cup {NoKey}]
  /\ troubled \subseteq Keys

\* Unless a disable is under way, the cached list is what the configuration
\* and the AutoDisableStore say: a key switched off or disabled is handed to
\* nobody who asks from then on (invalidateCache and handleAuthFailure drop
\* the list at the right moment).
CacheFresh ==
  (\A r \in Requests : pc[r] # "disabling")
     => cache \in {NoList, enabled \ disabled}

Unpinned(s) == \A r \in Requests : SessionOf[r] = s => PinOf[r] = NoKey

(* A session with no bound requests stays with its key, also when its      *)
(* first requests look for one at once, until that key had trouble or one  *)
(* of its requests reports an error: getKeyForSession reads the binding    *)
(* after its await, and draws only when the bound key is not available.    *)
KeepsItsKey ==
  \A s \in Sessions :
    /\ Unpinned(s)
    /\ binding[s] \in Keys
    /\ binding'[s] # binding[s]
    => \/ binding[s] \in troubled
       \/ \E r \in Requests : SessionOf[r] = s /\ pc[r] = "rotating"

AffinityKept == [][KeepsItsKey]_vars

(* From any index the calls and the edits so far have left, also one of a  *)
(* longer list, a full turn of the rotation gives each key a request was   *)
(* handed as many calls as its weight (selectWeightedRoundRobin).          *)
RotationFair ==
  \A r \in Requests : Cardinality(seen[r]) > 1 =>
    LET turn == 1 .. Weight(seen[r])
        index[i \in turn \cup {0}] == IF i = 0 THEN rr ELSE NextIndex(seen[r], index[i - 1])
    IN  \A key \in seen[r] :
          WeightOf[key] = Cardinality({i \in turn : KeyAt(seen[r], index[i]) = key})

(* What docs/rasen-route-lease-consumer.md:78 says of a strict key: its    *)
(* requests carry that key or none, retries included.                      *)
StrictKept ==
  \A r \in Requests :
    PolicyOf[r] = {"strict"} => used[r] \in {NoKey, PinOf[r]}

(* What providerProxyShared.ts:997 says of a key the pool disables: it is *)
(* one the upstream refused.                                               *)
NoInnocentDisabled == disabled \subseteq Revoked

=============================================================================
