---------------------------- MODULE ModelFallback ----------------------------
(***************************************************************************)
(* Requests of an opencodego subscription                                  *)
(* (core/src/provider-proxy/ingress/anthropicSubscriptionPlan.ts,          *)
(* runPipelineWithSubscriptionRetry, with the closures of                  *)
(* subscriptions/src/SubscriptionProviderRegistry.ts) and the circuit      *)
(* breakers of the models, which all requests share.                       *)
(*                                                                         *)
(* A request tries its primary model, or the first fallback that is        *)
(* admitted when the primary's circuit is open, and goes on to the next    *)
(* fallback after a failure.  From the answer to an attempt to the start   *)
(* of the next one the breakers are only touched in one synchronous run.   *)
(***************************************************************************)
EXTENDS CircuitBreaker, FiniteSets, Sequences

CONSTANTS
  Requests,       \* requests under way, each serving one caller after another
  Models,         \* model ids
  PrimaryOf,      \* the model a request's scenario is mapped to
  FallbacksOf,    \* the fallbacks of the scenario, in order
  ServedAs,       \* resolveModelRedirect: the model tried in place of another
  MaxAttempts,    \* MAX_FALLBACK_ATTEMPTS
  NoModel

VARIABLES
  breaker,        \* CircuitBreakerRegistry.breakers, fresh before first use
  trying,         \* the configured model a request is trying, or NoModel
  attempted       \* the configured models a request has tried or skipped

vars == <<breaker, trying, attempted>>

Init ==
  /\ breaker = [m \in Models |-> Fresh]
  /\ trying = [r \in Requests |-> NoModel]
  /\ attempted = [r \in Requests |-> {}]

\* nextFallback: the first fallback not yet attempted that is admitted, given
\* the breakers bs.  Only the one it returns has a request admitted.
NextFallback(r, tried, bs) ==
  LET list == FallbacksOf[r]
      open == {i \in DOMAIN list : list[i] \notin tried /\ Admits(bs[list[i]])}
  IN  IF open = {} THEN NoModel ELSE list[CHOOSE i \in open : \A k \in open : i <= k]

AdmittedTo(m, bs) == [bs EXCEPT ![m] = Admitted(@)]

Try(r, m, tried, bs) ==
  /\ trying' = [trying EXCEPT ![r] = m]
  /\ attempted' = [attempted EXCEPT ![r] = tried \cup {m}]
  /\ breaker' = bs

EndRequest(r, bs) ==
  /\ trying' = [trying EXCEPT ![r] = NoModel]
  /\ attempted' = [attempted EXCEPT ![r] = {}]
  /\ breaker' = bs

Begin(r) ==
  LET p == PrimaryOf[r]
      first == NextFallback(r, {p}, breaker)
  IN  /\ trying[r] = NoModel
      /\ IF Admits(breaker[ServedAs[p]])
         THEN Try(r, p, {}, AdmittedTo(ServedAs[p], breaker))
         ELSE IF first # NoModel
         THEN Try(r, first, {p}, AdmittedTo(first, breaker))
         ELSE Try(r, p, {}, breaker)          \* every circuit is open: fail open

\* A 2xx.
Success(r) ==
  /\ trying[r] # NoModel
  /\ EndRequest(r, [breaker EXCEPT ![ServedAs[trying[r]]] = Succeeded(@)])

\* A network error, a 429 or a 5xx.
Failure(r) ==
  LET bs == [breaker EXCEPT ![ServedAs[trying[r]]] = Failed(@)]
      next == NextFallback(r, attempted[r], bs)
  IN  /\ trying[r] # NoModel
      /\ IF Cardinality(attempted[r]) < MaxAttempts /\ next # NoModel
         THEN Try(r, next, attempted[r], AdmittedTo(next, bs))
         ELSE EndRequest(r, bs)

\* Any other status, content the chain refuses to convert, or a client that
\* has gone: nothing is recorded and no other model is tried.
Neutral(r) ==
  /\ trying[r] # NoModel
  /\ EndRequest(r, breaker)

\* The clock of an open breaker reaches the end of its window.
WindowElapses(m) ==
  /\ breaker[m] # Waited(breaker[m])
  /\ breaker' = [breaker EXCEPT ![m] = Waited(@)]
  /\ UNCHANGED <<trying, attempted>>

Next ==
  \/ \E m \in Models : WindowElapses(m)
  \/ \E r \in Requests : Begin(r) \/ Success(r) \/ Failure(r) \/ Neutral(r)

Spec == Init /\ [][Next]_vars

\* Requests keep coming and time passes; and an attempt at a model that is made
\* again and again succeeds again and again.
FairSpec ==
  /\ Spec
  /\ \A m \in Models : WF_vars(WindowElapses(m))
  /\ \A r \in Requests : WF_vars(Begin(r))
  /\ \A r \in Requests : \A m \in Models : SF_vars(trying[r] = m /\ Success(r))

-----------------------------------------------------------------------------
(* Properties.                                                             *)

\* A primary model on probation does not stay on it for ever, however its
\* probes end, as long as callers come and every model answers them well again
\* and again: allowRequest rejects at its cap "until a recorded outcome resolves
\* the state" (CircuitBreaker.ts:90-91), and no model may "wedge permanently in
\* half-open" (SubscriptionProviderRegistry.ts:307-308).
ProbationEnds ==
  \A r \in Requests :
    LET b == breaker[ServedAs[PrimaryOf[r]]] IN b.mode = "half-open" ~> b.mode # "half-open"
=============================================================================
