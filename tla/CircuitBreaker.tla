--------------------------- MODULE CircuitBreaker ---------------------------
(***************************************************************************)
(* The circuit breaker of one model                                        *)
(* (subscriptions/src/opencodego/CircuitBreaker.ts) as operators on its    *)
(* snapshot.  `waited' says that openMs have passed since the last         *)
(* failure; a count of failures past the threshold is not told apart.      *)
(* `mode' is "closed", "open" or "half-open".                              *)
(***************************************************************************)
EXTENDS Integers

CONSTANTS
  Threshold,      \* consecutive failures that open a circuit
  MaxProbes       \* halfOpenMaxCalls

Fresh == [mode |-> "closed", failures |-> 0, waited |-> FALSE, probes |-> 0, successes |-> 0]

\* allowRequest(): the answer, and the snapshot after it has admitted a request.
Admits(b) ==
  \/ b.mode = "closed"
  \/ b.mode = "open" /\ b.waited
  \/ b.mode = "half-open" /\ b.probes < MaxProbes

Admitted(b) ==
  CASE b.mode = "closed"    -> b
    [] b.mode = "open"      -> [b EXCEPT !.mode = "half-open", !.probes = 1, !.successes = 0]
    [] b.mode = "half-open" -> [b EXCEPT !.probes = @ + 1]

\* recordSuccess()
Succeeded(b) ==
  CASE b.mode = "open"      -> b
    [] b.mode = "closed"    -> [b EXCEPT !.failures = 0]
    [] b.mode = "half-open" -> IF b.successes + 1 >= MaxProbes THEN Fresh
                               ELSE [b EXCEPT !.successes = @ + 1]

\* recordFailure()
Failed(b) ==
  LET failures == IF b.failures < Threshold THEN b.failures + 1 ELSE Threshold
      opens == b.mode = "half-open" \/ failures >= Threshold
  IN  IF opens
      THEN [mode |-> "open", waited |-> FALSE, probes |-> 0, successes |-> 0,
            failures |-> IF b.mode = "half-open" THEN b.failures ELSE failures]
      ELSE [b EXCEPT !.failures = failures, !.waited = FALSE]

\* openMs pass.
Waited(b) == [b EXCEPT !.waited = (b.mode = "open")]
=============================================================================
