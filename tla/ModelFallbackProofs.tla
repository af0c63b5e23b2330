------------------------ MODULE ModelFallbackProofs ------------------------
(***************************************************************************)
(* The circuit breakers of the models, for any requests, models, fallbacks *)
(* and thresholds: what their snapshots keep to, and when a half-open one  *)
(* can be resolved.                                                        *)
(***************************************************************************)
EXTENDS ModelFallback, WaitlistProofs

(* What the scenarios and the breaker's options are.                       *)
Configured ==
  /\ IsFiniteSet(Requests)
  /\ NoModel \notin Models
  /\ Threshold \in Nat \ {0} /\ MaxProbes \in Nat \ {0}
  /\ PrimaryOf \in [Requests -> Models]
  /\ FallbacksOf \in [Requests -> Seq(Models)]
  /\ ServedAs \in [Models -> Models]

(* A retired model id is redirected to a current one                       *)
(* (contracts/src/canonical-models.ts:390-393).                            *)
RedirectsOnce == \A m \in Models : ServedAs[ServedAs[m]] = ServedAs[m]

Snapshots ==
  [mode : {"closed", "open", "half-open"}, failures : 0 .. Threshold, waited : BOOLEAN,
   probes : 0 .. MaxProbes, successes : 0 .. MaxProbes]

(* A closed circuit has seen fewer failures in a row than open it, and a   *)
(* half-open one has admitted a probe, no more than its cap, and has not   *)
(* yet as many successes as close it.                                      *)
Coherent(b) ==
  /\ b \in Snapshots
  /\ b.mode = "closed" <=> b.failures < Threshold
  /\ b.mode = "half-open" <=> b.probes > 0
  /\ b.successes < MaxProbes
  /\ b.mode # "half-open" => b.successes = 0

BreakersCoherent == \A m \in Models : Coherent(breaker[m])

FallbackTypeOK ==
  /\ breaker \in [Models -> Snapshots]
  /\ trying \in [Requests -> Models \cup {NoModel}]
  /\ attempted \in [Requests -> SUBSET Models]

BreakerInv == FallbackTypeOK /\ BreakersCoherent

-----------------------------------------------------------------------------
(* The operations of a breaker.                                            *)

LEMMA FreshCoherent == ASSUME Configured PROVE Coherent(Fresh)
BY DEF Configured, Coherent, Fresh, Snapshots

LEMMA OpenCoherent ==
  ASSUME Configured
  PROVE  Coherent([mode |-> "open", waited |-> FALSE, probes |-> 0, successes |-> 0,
                   failures |-> Threshold])
BY DEF Configured, Coherent, Snapshots

LEMMA AdmittedCoherent ==
  ASSUME Configured, NEW b, Coherent(b), Admits(b) PROVE Coherent(Admitted(b))
<1> USE DEF Configured, Coherent, Snapshots
<1>1. CASE b.mode = "closed"
  BY <1>1 DEF Admitted
<1>2. CASE b.mode = "open"
  <2>1. Admitted(b) = [b EXCEPT !.mode = "half-open", !.probes = 1, !.successes = 0]
    BY <1>2 DEF Admitted
  <2>2. b.failures = Threshold
    BY <1>2
  <2>3. 1 \in 0 .. MaxProbes /\ 0 \in 0 .. MaxProbes
    OBVIOUS
  <2>4. Admitted(b) \in Snapshots
    BY <2>1, <2>3, Zenon
  <2> QED BY <1>2, <2>1, <2>2, <2>4
<1>3. CASE b.mode = "half-open"
  <2>1. Admitted(b) = [b EXCEPT !.probes = b.probes + 1]
    BY <1>3 DEF Admitted
  <2>2. b.probes + 1 \in 1 .. MaxProbes
    BY <1>3 DEF Admits
  <2> QED BY <1>3, <2>1, <2>2
<1> QED
  BY <1>1, <1>2, <1>3

LEMMA SucceededCoherent ==
  ASSUME Configured, NEW b, Coherent(b) PROVE Coherent(Succeeded(b))
BY DEF Configured, Coherent, Succeeded, Fresh, Snapshots

LEMMA FailedCoherent ==
  ASSUME Configured, NEW b, Coherent(b)
  PROVE  Coherent(Failed(b)) /\ Failed(b).mode # "half-open"
<1> USE DEF Configured, Coherent, Snapshots
<1> DEFINE failures == IF b.failures < Threshold THEN b.failures + 1 ELSE Threshold
<1>1. failures \in 1 .. Threshold
  OBVIOUS
<1>2. CASE b.mode = "half-open" \/ failures >= Threshold
  <2>1. Failed(b) = [mode |-> "open", waited |-> FALSE, probes |-> 0, successes |-> 0,
                     failures |-> IF b.mode = "half-open" THEN b.failures ELSE failures]
    BY <1>2 DEF Failed
  <2>2. (IF b.mode = "half-open" THEN b.failures ELSE failures) = Threshold
    BY <1>1, <1>2
  <2> HIDE DEF failures
  <2>3. Failed(b) = [mode |-> "open", waited |-> FALSE, probes |-> 0, successes |-> 0,
                     failures |-> Threshold]
    BY <2>1, <2>2, Zenon
  <2> HIDE DEF Coherent
  <2> QED BY <2>3, OpenCoherent
<1>3. CASE ~ (b.mode = "half-open" \/ failures >= Threshold)
  <2>1. Failed(b) = [b EXCEPT !.failures = failures, !.waited = FALSE]
    BY <1>3 DEF Failed
  <2>2. b.mode = "closed" /\ failures < Threshold
    BY <1>3
  <2>3. Failed(b) \in Snapshots
    <3> HIDE DEF failures
    <3>1. failures \in 0 .. Threshold
      BY <1>1
    <3> QED BY <2>1, <3>1, Zenon
  <2> HIDE DEF failures
  <2> QED BY <1>1, <2>1, <2>2, <2>3
<1> QED
  BY <1>2, <1>3

LEMMA WaitedCoherent ==
  ASSUME Configured, NEW b, Coherent(b) PROVE Coherent(Waited(b))
BY DEF Configured, Coherent, Waited, Snapshots

(* What an admission or an outcome does to the probes that are out.        *)
LEMMA ProbesMove ==
  ASSUME Configured, NEW b, Coherent(b)
  PROVE  /\ Admits(b) /\ Admitted(b).mode = "half-open" =>
              Admitted(b).probes - Admitted(b).successes <=
                (IF b.mode = "half-open" THEN b.probes - b.successes ELSE 0) + 1
         /\ Succeeded(b).mode = "half-open" =>
              /\ b.mode = "half-open"
              /\ Succeeded(b).probes - Succeeded(b).successes = b.probes - b.successes - 1
         /\ Waited(b).mode = "half-open" =>
              /\ b.mode = "half-open"
              /\ Waited(b).probes - Waited(b).successes = b.probes - b.successes
BY DEF Configured, Coherent, Admits, Admitted, Succeeded, Waited, Fresh, Snapshots

(* nextFallback returns none, or a fallback that was not tried and admits. *)
LEMMA FallbackAdmits ==
  ASSUME Configured, NEW r \in Requests, NEW tried, NEW bs,
         NEW to, to = NextFallback(r, tried, bs), to # NoModel
  PROVE  /\ to \in Models \ tried /\ Admits(bs[to])
         /\ \E i \in DOMAIN FallbacksOf[r] : to = FallbacksOf[r][i]
<1> DEFINE list == FallbacksOf[r]
           open == {i \in DOMAIN list : list[i] \notin tried /\ Admits(bs[list[i]])}
<1>1. list \in Seq(Models) /\ DOMAIN list = 1 .. Len(list) /\ Len(list) \in Nat
  BY LenProperties DEF Configured
<1>2. open \subseteq Nat /\ open # {}
  BY <1>1 DEF NextFallback
<1>3. \E i \in open : \A k \in open : i <= k
  <2> HIDE DEF open
  <2> QED BY <1>2, LeastNatural
<1>4. (CHOOSE i \in open : \A k \in open : i <= k) \in open
  <2> HIDE DEF open
  <2> QED BY <1>3
<1>5. to = list[CHOOSE i \in open : \A k \in open : i <= k]
  BY <1>2 DEF NextFallback
<1>6. PICK i \in open : to = list[i]
  BY <1>4, <1>5
<1>7. list[i] \in Models
  BY <1>1, <1>6, ElementOfSeq
<1> QED
  BY <1>6, <1>7

-----------------------------------------------------------------------------
(* The steps of the requests.                                              *)

(* A breaker has admitted a request to the model m.                        *)
AdmittedAt(n, bs) == Admits(bs[n]) /\ breaker' = AdmittedTo(n, bs)

(* A request begins with its primary, admitted or with every circuit open, *)
(* or with a fallback that admits.                                         *)
LEMMA BeginShape ==
  ASSUME Configured, BreakerInv, NEW r \in Requests, Begin(r)
  PROVE  /\ trying[r] = NoModel /\ attempted' \in [Requests -> SUBSET Models]
         /\ \E m \in Models :
              /\ trying' = [trying EXCEPT ![r] = m]
              /\ \/ UNCHANGED breaker
                 \/ AdmittedAt(ServedAs[m], breaker)
                 \/ /\ \E i \in DOMAIN FallbacksOf[r] : m = FallbacksOf[r][i]
                    /\ AdmittedAt(m, breaker)
<1> DEFINE p == PrimaryOf[r]
           first == NextFallback(r, {p}, breaker)
<1>1. p \in Models /\ attempted \in [Requests -> SUBSET Models] /\ trying[r] = NoModel
  BY DEF Configured, BreakerInv, FallbackTypeOK, Begin
<1>2. CASE Admits(breaker[ServedAs[p]]) /\ Try(r, p, {}, AdmittedTo(ServedAs[p], breaker))
  BY <1>1, <1>2 DEF Try, AdmittedAt
<1>3. CASE first # NoModel /\ Try(r, first, {p}, AdmittedTo(first, breaker))
  <2>1. /\ first \in Models /\ Admits(breaker[first])
        /\ \E i \in DOMAIN FallbacksOf[r] : first = FallbacksOf[r][i]
    BY <1>3, FallbackAdmits
  <2> HIDE DEF first
  <2> QED BY <1>1, <1>3, <2>1 DEF Try, AdmittedAt
<1>4. CASE Try(r, p, {}, breaker)
  BY <1>1, <1>4 DEF Try
<1> QED
  BY <1>2, <1>3, <1>4 DEF Begin

(* After a failure that left the breakers bs the request ends or goes on   *)
(* with a fallback that admits.                                            *)
LEMMA FailureShape ==
  ASSUME Configured, BreakerInv, NEW r \in Requests, NEW tried \in SUBSET Models, NEW bs,
         LET next == NextFallback(r, tried, bs) IN
         \/ next # NoModel /\ Try(r, next, tried, AdmittedTo(next, bs))
         \/ EndRequest(r, bs)
  PROVE  /\ attempted' \in [Requests -> SUBSET Models]
         /\ \/ trying' = [trying EXCEPT ![r] = NoModel] /\ breaker' = bs
            \/ \E n \in Models :
                 /\ trying' = [trying EXCEPT ![r] = n]
                 /\ \E i \in DOMAIN FallbacksOf[r] : n = FallbacksOf[r][i]
                 /\ AdmittedAt(n, bs)
<1> DEFINE next == NextFallback(r, tried, bs)
<1>1. attempted \in [Requests -> SUBSET Models]
  BY DEF BreakerInv, FallbackTypeOK
<1>2. CASE next # NoModel /\ Try(r, next, tried, AdmittedTo(next, bs))
  <2>1. /\ next \in Models /\ Admits(bs[next])
        /\ \E i \in DOMAIN FallbacksOf[r] : next = FallbacksOf[r][i]
    BY <1>2, FallbackAdmits
  <2> HIDE DEF next
  <2> QED BY <1>1, <1>2, <2>1 DEF Try, AdmittedAt
<1>3. CASE EndRequest(r, bs)
  BY <1>1, <1>3 DEF EndRequest
<1> QED
  BY <1>2, <1>3

(* An admission leaves coherent breakers coherent.                         *)
LEMMA AdmissionKeeps ==
  ASSUME Configured, NEW bs \in [Models -> Snapshots], \A x \in Models : Coherent(bs[x]),
         NEW n \in Models, AdmittedAt(n, bs)
  PROVE  breaker' \in [Models -> Snapshots] /\ BreakersCoherent'
<1>1. breaker' = [bs EXCEPT ![n] = Admitted(bs[n])]
  BY DEF AdmittedAt, AdmittedTo
<1>2. Coherent(Admitted(bs[n])) /\ Admitted(bs[n]) \in Snapshots
  <2>1. Coherent(bs[n]) /\ Admits(bs[n])
    BY DEF AdmittedAt
  <2> QED BY <2>1, AdmittedCoherent DEF Coherent
<1> HIDE DEF Snapshots
<1> QED
  BY <1>1, <1>2 DEF BreakersCoherent

LEMMA BreakerInvStep ==
  ASSUME Configured, BreakerInv, [Next]_vars
  PROVE  BreakerInv'
<1> USE DEF BreakerInv, FallbackTypeOK
<1>1. ASSUME NEW m \in Models, WindowElapses(m) PROVE BreakerInv'
  <2>1. \A x \in Models : Coherent(Waited(breaker[x])) /\ Waited(breaker[x]) \in Snapshots
    BY WaitedCoherent DEF BreakersCoherent, Coherent
  <2>2. \A x \in Models : breaker'[x] \in {breaker[x], Waited(breaker[x])}
    BY <1>1 DEF WindowElapses
  <2>3. BreakersCoherent'
    BY <2>1, <2>2 DEF BreakersCoherent
  <2> QED BY <1>1, <2>1, <2>3 DEF WindowElapses
<1>2. ASSUME NEW r \in Requests, Begin(r) PROVE BreakerInv'
  <2>1. PICK m \in Models :
          /\ trying' = [trying EXCEPT ![r] = m]
          /\ \/ UNCHANGED breaker
             \/ \E n \in Models : AdmittedAt(n, breaker)
    BY <1>2, BeginShape DEF Configured
  <2>2. breaker' \in [Models -> Snapshots] /\ BreakersCoherent'
    BY <2>1, AdmissionKeeps DEF BreakersCoherent
  <2> QED BY <1>2, <2>1, <2>2, BeginShape
<1>3. ASSUME NEW r \in Requests, Success(r) PROVE BreakerInv'
  <2>1. PICK m \in Models : m = ServedAs[trying[r]]
    BY <1>3 DEF Configured, Success
  <2>2. /\ breaker' = [breaker EXCEPT ![m] = Succeeded(breaker[m])]
        /\ trying' = [trying EXCEPT ![r] = NoModel] /\ attempted' = [attempted EXCEPT ![r] = {}]
    BY <1>3, <2>1 DEF Success, EndRequest
  <2>3. Coherent(Succeeded(breaker[m])) /\ Succeeded(breaker[m]) \in Snapshots
    BY SucceededCoherent DEF BreakersCoherent, Coherent
  <2> QED BY <2>2, <2>3 DEF BreakersCoherent
<1>4. ASSUME NEW r \in Requests, Failure(r) PROVE BreakerInv'
  <2>1. PICK m \in Models : m = ServedAs[trying[r]]
    BY <1>4 DEF Configured, Failure
  <2>2. PICK bs : bs = [breaker EXCEPT ![m] = Failed(breaker[m])]
    OBVIOUS
  <2>3. LET next == NextFallback(r, attempted[r], bs) IN
        \/ next # NoModel /\ Try(r, next, attempted[r], AdmittedTo(next, bs))
        \/ EndRequest(r, bs)
    BY <1>4, <2>1, <2>2 DEF Failure
  <2>4. bs \in [Models -> Snapshots] /\ \A x \in Models : Coherent(bs[x])
    <3>1. Coherent(Failed(breaker[m])) /\ Failed(breaker[m]) \in Snapshots
      BY FailedCoherent DEF BreakersCoherent, Coherent
    <3> QED BY <2>2, <3>1 DEF BreakersCoherent
  <2>5. /\ attempted' \in [Requests -> SUBSET Models]
        /\ \/ trying' = [trying EXCEPT ![r] = NoModel] /\ breaker' = bs
           \/ \E n \in Models : trying' = [trying EXCEPT ![r] = n] /\ AdmittedAt(n, bs)
    BY <2>3, FailureShape
  <2>6. breaker' \in [Models -> Snapshots] /\ BreakersCoherent'
    BY <2>4, <2>5, AdmissionKeeps DEF BreakersCoherent
  <2> QED BY <2>5, <2>6
<1>5. ASSUME NEW r \in Requests, Neutral(r) PROVE BreakerInv'
  BY <1>5 DEF Neutral, EndRequest, BreakersCoherent
<1>6. CASE UNCHANGED vars
  BY <1>6 DEF vars, BreakersCoherent
<1> QED
  BY <1>1, <1>2, <1>3, <1>4, <1>5, <1>6 DEF Next

LEMMA BreakerInvInit == ASSUME Configured PROVE Init => BreakerInv
<1> SUFFICES ASSUME Init PROVE BreakerInv
  OBVIOUS
<1>1. Coherent(Fresh) /\ Fresh \in Snapshots
  BY FreshCoherent DEF Coherent
<1> QED
  BY <1>1 DEF Init, BreakerInv, FallbackTypeOK, BreakersCoherent

(* Through any interleaving of requests a breaker keeps to its thresholds: *)
(* it opens with the failure that reaches Threshold and on probation       *)
(* admits MaxProbes requests at most (allowRequest, recordFailure).        *)
THEOREM BreakersKeepTheirCaps ==
  ASSUME Configured PROVE Spec => [](FallbackTypeOK /\ BreakersCoherent)
<1>1. Init => BreakerInv
  BY BreakerInvInit
<1>2. BreakerInv /\ [Next]_vars => BreakerInv'
  BY BreakerInvStep
<1>3. BreakerInv => FallbackTypeOK /\ BreakersCoherent
  BY DEF BreakerInv
<1> QED
  BY <1>1, <1>2, <1>3, PTL DEF Spec

-----------------------------------------------------------------------------
(* Probation.                                                              *)

(* The requests whose outcome the breaker of x will be told.               *)
TryingAt(x) == {r \in Requests : trying[r] # NoModel /\ ServedAs[trying[r]] = x}

(* The probes a breaker still counts on are under way.                     *)
ProbesUnderWay ==
  \A x \in Models : breaker[x].mode = "half-open" =>
    breaker[x].probes - breaker[x].successes <= Cardinality(TryingAt(x))

(* The breaker of a redirected model is told of no outcome: nextFallback   *)
(* asks for the configured id and the outcome goes to the one it is served *)
(* as.                                                                     *)
UntoldClosed == \A x \in Models : ServedAs[x] # x => breaker[x].mode = "closed"

(* A breaker on probation admits another request, or one whose outcome it  *)
(* will be told is under way: "reject once the cap is reached (until a     *)
(* recorded outcome resolves the state)" (CircuitBreaker.ts:90-91).        *)
ProbationResolvable ==
  \A x \in Models : breaker[x].mode = "half-open" => Admits(breaker[x]) \/ TryingAt(x) # {}

(* The behaviours in which every attempt ends in an outcome that is        *)
(* recorded: no plain 4xx, no refused content and no client that has gone. *)
RecordedSpec ==
  /\ Init
  /\ [][\/ \E m \in Models : WindowElapses(m)
        \/ \E r \in Requests : Begin(r) \/ Success(r) \/ Failure(r)]_vars

LEMMA LessOne ==
  ASSUME NEW T, IsFiniteSet(T), NEW r
  PROVE  Cardinality(T \ {r}) = Cardinality(T) - (IF r \in T THEN 1 ELSE 0)
<1>1. CASE r \in T
  BY <1>1, FS_RemoveElement
<1>2. CASE r \notin T
  <2>1. T \ {r} = T /\ Cardinality(T) \in Nat
    BY <1>2, FS_CardinalityType
  <2> QED BY <1>2, <2>1
<1> QED
  BY <1>1, <1>2

(* One request turns from what it tries to another model or to none.       *)
LEMMA TurnCounts ==
  ASSUME Configured, FallbackTypeOK, NEW r \in Requests, NEW to \in Models \cup {NoModel},
         trying' = [trying EXCEPT ![r] = to], NEW x \in Models
  PROVE  /\ Cardinality(TryingAt(x)) \in Nat /\ Cardinality(TryingAt(x)') \in Nat
         /\ r \in TryingAt(x) => Cardinality(TryingAt(x)) > 0
         /\ r \in TryingAt(x)' <=> to # NoModel /\ ServedAs[to] = x
         /\ Cardinality(TryingAt(x)') = Cardinality(TryingAt(x))
              - (IF r \in TryingAt(x) THEN 1 ELSE 0) + (IF r \in TryingAt(x)' THEN 1 ELSE 0)
<1> DEFINE T == TryingAt(x)
           U == TryingAt(x)'
<1>1. IsFiniteSet(T) /\ IsFiniteSet(U)
  <2>1. T \subseteq Requests /\ U \subseteq Requests /\ IsFiniteSet(Requests)
    BY DEF Configured, TryingAt
  <2> HIDE DEF T, U
  <2> QED BY <2>1, FS_Subset
<1>2. r \in U <=> to # NoModel /\ ServedAs[to] = x
  BY DEF TryingAt, FallbackTypeOK
<1>3. T \ {r} = U \ {r}
  BY DEF TryingAt, FallbackTypeOK
<1> HIDE DEF T, U
<1>4. Cardinality(T) \in Nat /\ Cardinality(U) \in Nat
  BY <1>1, FS_CardinalityType
<1>5. Cardinality(T \ {r}) = Cardinality(T) - (IF r \in T THEN 1 ELSE 0)
  BY <1>1, LessOne
<1>6. Cardinality(U \ {r}) = Cardinality(U) - (IF r \in U THEN 1 ELSE 0)
  BY <1>1, LessOne
<1>7. r \in T => Cardinality(T) > 0
  BY <1>1, <1>4, FS_EmptySet
<1>8. Cardinality(U) = Cardinality(T) - (IF r \in T THEN 1 ELSE 0) + (IF r \in U THEN 1 ELSE 0)
  BY <1>3, <1>4, <1>5, <1>6
<1> QED
  BY <1>2, <1>4, <1>7, <1>8 DEF T, U

(* A request that was not counted on is admitted and turns to the model    *)
(* whose breaker will be told.                                             *)
LEMMA AdmittedOneMore ==
  ASSUME Configured, BreakerInv, ProbesUnderWay, NEW r \in Requests,
         NEW bs \in [Models -> Snapshots], \A x \in Models : Coherent(bs[x]),
         \A x \in Models : bs[x].mode = "half-open" => bs[x] = breaker[x],
         \A x \in Models : bs[x].mode = "half-open" => r \notin TryingAt(x),
         NEW m \in Models, NEW n \in Models, n = ServedAs[m],
         trying' = [trying EXCEPT ![r] = m], AdmittedAt(n, bs)
  PROVE  ProbesUnderWay'
<1> SUFFICES ASSUME NEW x \in Models, breaker'[x].mode = "half-open"
             PROVE  breaker'[x].probes - breaker'[x].successes <= Cardinality(TryingAt(x)')
  BY DEF ProbesUnderWay
<1>1. /\ Cardinality(TryingAt(x)) \in Nat /\ Cardinality(TryingAt(x)') \in Nat
      /\ r \in TryingAt(x) => Cardinality(TryingAt(x)) > 0
      /\ r \in TryingAt(x)' <=> n = x
      /\ Cardinality(TryingAt(x)') = Cardinality(TryingAt(x))
           - (IF r \in TryingAt(x) THEN 1 ELSE 0) + (IF r \in TryingAt(x)' THEN 1 ELSE 0)
  BY TurnCounts DEF BreakerInv, Configured
<1>2. breaker' = [bs EXCEPT ![n] = Admitted(bs[n])] /\ Admits(bs[n])
  BY DEF AdmittedAt, AdmittedTo
<1>3. bs[x].mode = "half-open" =>
        /\ bs[x].probes - bs[x].successes <= Cardinality(TryingAt(x))
        /\ r \notin TryingAt(x)
  BY DEF ProbesUnderWay
<1>4. /\ Coherent(bs[x]) /\ bs[x].probes \in Int /\ bs[x].successes \in Int
  BY DEF Coherent, Snapshots
<1>5. CASE x # n
  <2>1. breaker'[x] = bs[x]
    BY <1>2, <1>5
  <2> QED BY <1>1, <1>3, <1>4, <1>5, <2>1
<1>6. CASE x = n
  <2>1. breaker'[x] = Admitted(bs[x]) /\ Admits(bs[x])
    BY <1>2, <1>6
  <2>2. breaker'[x].probes - breaker'[x].successes <=
          (IF bs[x].mode = "half-open" THEN bs[x].probes - bs[x].successes ELSE 0) + 1
    BY <1>4, <2>1, ProbesMove
  <2>3. breaker'[x].probes \in Int /\ breaker'[x].successes \in Int
    BY <1>4, <2>1, AdmittedCoherent DEF Coherent, Snapshots
  <2> QED BY <1>1, <1>3, <1>4, <1>6, <2>2, <2>3
<1> QED
  BY <1>5, <1>6

(* A request that was not counted on turns to a model or to none, and      *)
(* nothing is admitted.                                                    *)
LEMMA NobodyAdmitted ==
  ASSUME Configured, BreakerInv, ProbesUnderWay, NEW r \in Requests, NEW bs,
         \A x \in Models : bs[x].mode = "half-open" => bs[x] = breaker[x],
         \A x \in Models : bs[x].mode = "half-open" => r \notin TryingAt(x),
         NEW to \in Models \cup {NoModel}, trying' = [trying EXCEPT ![r] = to],
         \A x \in Models : breaker'[x] = bs[x]
  PROVE  ProbesUnderWay'
<1> SUFFICES ASSUME NEW x \in Models, bs[x].mode = "half-open"
             PROVE  bs[x].probes - bs[x].successes <= Cardinality(TryingAt(x)')
  BY DEF ProbesUnderWay
<1>1. /\ Cardinality(TryingAt(x)) \in Nat /\ Cardinality(TryingAt(x)') \in Nat
      /\ Cardinality(TryingAt(x)') = Cardinality(TryingAt(x))
           - (IF r \in TryingAt(x) THEN 1 ELSE 0) + (IF r \in TryingAt(x)' THEN 1 ELSE 0)
  BY TurnCounts DEF BreakerInv
<1>2. /\ bs[x] = breaker[x] /\ r \notin TryingAt(x)
      /\ bs[x].probes - bs[x].successes <= Cardinality(TryingAt(x))
      /\ bs[x].probes \in Int /\ bs[x].successes \in Int
  BY DEF ProbesUnderWay, BreakerInv, BreakersCoherent, Coherent, Snapshots
<1> QED BY <1>1, <1>2

(* A request goes on with a fallback: its own breaker, if the model is not *)
(* redirected, has one more probe, and otherwise it was never told.        *)
LEMMA FallbackTaken ==
  ASSUME Configured, RedirectsOnce, BreakerInv, ProbesUnderWay, NEW r \in Requests,
         NEW bs \in [Models -> Snapshots], \A x \in Models : Coherent(bs[x]),
         \A x \in Models : bs[x].mode = "half-open" => bs[x] = breaker[x],
         \A x \in Models : bs[x].mode = "half-open" => r \notin TryingAt(x),
         \A x \in Models : ServedAs[x] # x => bs[x].mode = "closed",
         NEW n \in Models, trying' = [trying EXCEPT ![r] = n], AdmittedAt(n, bs)
  PROVE  ProbesUnderWay' /\ UntoldClosed'
<1>1. breaker' = [bs EXCEPT ![n] = Admitted(bs[n])]
  BY DEF AdmittedAt, AdmittedTo
<1>2. CASE ServedAs[n] = n
  <2>1. ProbesUnderWay'
    BY <1>2, AdmittedOneMore
  <2>2. \A x \in Models : ServedAs[x] # x => breaker'[x] = bs[x]
    BY <1>1, <1>2
  <2> QED BY <2>1, <2>2 DEF UntoldClosed
<1>3. CASE ServedAs[n] # n
  <2>1. Admitted(bs[n]) = bs[n]
    BY <1>3 DEF Admitted
  <2>2. \A x \in Models : breaker'[x] = bs[x]
    BY <1>1, <2>1
  <2> QED BY <2>2, NobodyAdmitted DEF UntoldClosed
<1> QED
  BY <1>2, <1>3

LEMMA BeginAwaited ==
  ASSUME Configured, RedirectsOnce, BreakerInv, ProbesUnderWay, UntoldClosed,
         NEW r \in Requests, Begin(r)
  PROVE  ProbesUnderWay' /\ UntoldClosed'
<1>1. PICK m \in Models :
        /\ trying[r] = NoModel /\ trying' = [trying EXCEPT ![r] = m]
        /\ \/ UNCHANGED breaker
           \/ AdmittedAt(ServedAs[m], breaker)
           \/ AdmittedAt(m, breaker)
  BY BeginShape
<1>2. \A x \in Models : r \notin TryingAt(x)
  BY <1>1 DEF TryingAt
<1>3. /\ breaker \in [Models -> Snapshots] /\ \A x \in Models : Coherent(breaker[x])
      /\ ServedAs[m] \in Models /\ ServedAs[ServedAs[m]] = ServedAs[m]
  BY DEF BreakerInv, BreakersCoherent, FallbackTypeOK, Configured, RedirectsOnce
<1>4. CASE UNCHANGED breaker
  BY <1>1, <1>2, <1>4, NobodyAdmitted DEF UntoldClosed
<1>5. CASE AdmittedAt(ServedAs[m], breaker)
  <2>1. ProbesUnderWay'
    BY <1>1, <1>2, <1>3, <1>5, AdmittedOneMore
  <2>2. \A x \in Models : ServedAs[x] # x => breaker'[x] = breaker[x]
    BY <1>3, <1>5 DEF AdmittedAt, AdmittedTo
  <2> QED BY <2>1, <2>2 DEF UntoldClosed
<1>6. CASE AdmittedAt(m, breaker)
  BY <1>1, <1>2, <1>3, <1>6, FallbackTaken DEF UntoldClosed
<1> QED
  BY <1>1, <1>4, <1>5, <1>6

LEMMA SuccessAwaited ==
  ASSUME Configured, RedirectsOnce, BreakerInv, ProbesUnderWay, UntoldClosed,
         NEW r \in Requests, Success(r)
  PROVE  ProbesUnderWay' /\ UntoldClosed'
<1>1. PICK m \in Models : m = ServedAs[trying[r]]
  BY DEF Configured, BreakerInv, FallbackTypeOK, Success
<1>2. /\ breaker' = [breaker EXCEPT ![m] = Succeeded(breaker[m])]
      /\ trying' = [trying EXCEPT ![r] = NoModel] /\ trying[r] # NoModel
  BY <1>1 DEF Success, EndRequest
<1>u. UntoldClosed'
  <2>1. ServedAs[m] = m
    BY <1>1 DEF RedirectsOnce, BreakerInv, FallbackTypeOK, Success
  <2>2. \A x \in Models : ServedAs[x] # x => breaker'[x] = breaker[x]
    BY <1>2, <2>1 DEF BreakerInv, FallbackTypeOK
  <2> QED BY <2>2 DEF UntoldClosed
<1> SUFFICES ASSUME NEW x \in Models, breaker'[x].mode = "half-open"
             PROVE  breaker'[x].probes - breaker'[x].successes <= Cardinality(TryingAt(x)')
  BY <1>u DEF ProbesUnderWay
<1>3. /\ Cardinality(TryingAt(x)) \in Nat /\ Cardinality(TryingAt(x)') \in Nat
      /\ r \notin TryingAt(x)'
      /\ Cardinality(TryingAt(x)') = Cardinality(TryingAt(x))
           - (IF r \in TryingAt(x) THEN 1 ELSE 0) + (IF r \in TryingAt(x)' THEN 1 ELSE 0)
  BY <1>2, TurnCounts DEF BreakerInv
<1>4. r \in TryingAt(x) <=> m = x
  BY <1>1, <1>2 DEF TryingAt
<1>5. /\ Coherent(breaker[x]) /\ breaker[x].probes \in Int /\ breaker[x].successes \in Int
      /\ breaker[x].mode = "half-open" =>
           breaker[x].probes - breaker[x].successes <= Cardinality(TryingAt(x))
  BY DEF ProbesUnderWay, BreakerInv, BreakersCoherent, Coherent, Snapshots
<1>6. CASE x # m
  <2>1. breaker'[x] = breaker[x]
    BY <1>2, <1>6 DEF BreakerInv, FallbackTypeOK
  <2> QED BY <1>3, <1>4, <1>5, <1>6, <2>1
<1>7. CASE x = m
  <2>1. breaker'[x] = Succeeded(breaker[x])
    BY <1>2, <1>7 DEF BreakerInv, FallbackTypeOK
  <2>2. /\ breaker[x].mode = "half-open"
        /\ breaker'[x].probes - breaker'[x].successes = breaker[x].probes - breaker[x].successes - 1
    BY <1>5, <2>1, ProbesMove
  <2> QED BY <1>3, <1>4, <1>5, <1>7, <2>2
<1> QED
  BY <1>6, <1>7

LEMMA FailureAwaited ==
  ASSUME Configured, RedirectsOnce, BreakerInv, ProbesUnderWay, UntoldClosed,
         NEW r \in Requests, Failure(r)
  PROVE  ProbesUnderWay' /\ UntoldClosed'
<1>1. PICK m \in Models : m = ServedAs[trying[r]]
  BY DEF Configured, BreakerInv, FallbackTypeOK, Failure
<1>2. PICK bs : bs = [breaker EXCEPT ![m] = Failed(breaker[m])]
  OBVIOUS
<1>3. LET next == NextFallback(r, attempted[r], bs) IN
      \/ next # NoModel /\ Try(r, next, attempted[r], AdmittedTo(next, bs))
      \/ EndRequest(r, bs)
  BY <1>1, <1>2 DEF Failure
<1>4. attempted[r] \in SUBSET Models /\ trying[r] # NoModel /\ trying[r] \in Models
  BY DEF BreakerInv, FallbackTypeOK, Failure
<1>5. Coherent(Failed(breaker[m])) /\ Failed(breaker[m]).mode # "half-open"
  BY FailedCoherent DEF BreakerInv, BreakersCoherent
<1>6. bs[m] = Failed(breaker[m]) /\ \A x \in Models : x # m => bs[x] = breaker[x]
  BY <1>2 DEF BreakerInv, FallbackTypeOK
<1>7. \A x \in Models : bs[x].mode = "half-open" => bs[x] = breaker[x] /\ r \notin TryingAt(x)
  BY <1>1, <1>5, <1>6 DEF TryingAt
<1>8. bs \in [Models -> Snapshots] /\ \A x \in Models : Coherent(bs[x])
  <2>1. Failed(breaker[m]) \in Snapshots
    BY <1>5 DEF Coherent
  <2> QED BY <1>2, <1>5, <1>6, <2>1 DEF BreakerInv, FallbackTypeOK, BreakersCoherent
<1>9. \A x \in Models : ServedAs[x] # x => bs[x].mode = "closed"
  <2>1. ServedAs[m] = m
    BY <1>1, <1>4 DEF RedirectsOnce
  <2> QED BY <1>6, <2>1 DEF UntoldClosed
<1> HIDE <1>2, <1>6
<1>10. CASE trying' = [trying EXCEPT ![r] = NoModel] /\ breaker' = bs
  BY <1>7, <1>9, <1>10, NobodyAdmitted DEF UntoldClosed
<1>11. ASSUME NEW n \in Models, trying' = [trying EXCEPT ![r] = n], AdmittedAt(n, bs)
       PROVE  ProbesUnderWay' /\ UntoldClosed'
  BY <1>7, <1>8, <1>9, <1>11, FallbackTaken
<1> QED
  BY <1>3, <1>4, <1>10, <1>11, FailureShape

(* As long as every outcome is recorded, a breaker on probation is never   *)
(* at its cap with nobody whose outcome will resolve it: the outcomes that *)
(* are not recorded, and nothing else, wedge it (ProbationEnds).           *)
THEOREM ProbationCanEnd ==
  ASSUME Configured, RedirectsOnce PROVE RecordedSpec => []ProbationResolvable
<1> DEFINE RecordedNext ==
             \/ \E m \in Models : WindowElapses(m)
             \/ \E r \in Requests : Begin(r) \/ Success(r) \/ Failure(r)
           Inv == BreakerInv /\ ProbesUnderWay /\ UntoldClosed
<1>1. Init => Inv
  BY BreakerInvInit DEF Init, ProbesUnderWay, UntoldClosed, Fresh
<1>2. Inv /\ [RecordedNext]_vars => Inv'
  <2> SUFFICES ASSUME BreakerInv, ProbesUnderWay, UntoldClosed, [RecordedNext]_vars PROVE Inv'
    OBVIOUS
  <2>1. BreakerInv'
    BY BreakerInvStep DEF Next
  <2>2. ASSUME NEW m \in Models, WindowElapses(m) PROVE ProbesUnderWay'
    <3> SUFFICES ASSUME NEW x \in Models, breaker'[x].mode = "half-open"
                 PROVE  breaker'[x].probes - breaker'[x].successes <= Cardinality(TryingAt(x)')
      BY DEF ProbesUnderWay
    <3>1. /\ breaker'[x] \in {breaker[x], Waited(breaker[x])}
          /\ TryingAt(x)' = TryingAt(x)
      BY <2>2 DEF WindowElapses, TryingAt, BreakerInv, FallbackTypeOK
    <3>2. Coherent(breaker[x])
      BY DEF BreakerInv, BreakersCoherent
    <3>3. /\ breaker[x].mode = "half-open"
          /\ breaker'[x].probes - breaker'[x].successes = breaker[x].probes - breaker[x].successes
      BY <3>1, <3>2, ProbesMove
    <3> QED BY <3>1, <3>3 DEF ProbesUnderWay
  <2>3. ASSUME NEW m \in Models, WindowElapses(m) PROVE UntoldClosed'
    BY <2>3 DEF WindowElapses, Waited, UntoldClosed, BreakerInv, FallbackTypeOK, Snapshots
  <2>4. ASSUME UNCHANGED vars PROVE ProbesUnderWay' /\ UntoldClosed'
    BY <2>4 DEF vars, ProbesUnderWay, UntoldClosed, TryingAt
  <2> QED
    BY <2>1, <2>2, <2>3, <2>4, BeginAwaited, SuccessAwaited, FailureAwaited
<1>3. Inv => ProbationResolvable
  <2> SUFFICES ASSUME BreakerInv, ProbesUnderWay, NEW x \in Models,
                      breaker[x].mode = "half-open", ~Admits(breaker[x])
               PROVE  TryingAt(x) # {}
    BY DEF ProbationResolvable
  <2>1. /\ Coherent(breaker[x]) /\ breaker[x].probes - breaker[x].successes > 0
    BY DEF BreakerInv, BreakersCoherent, Coherent, Snapshots, Admits, Configured
  <2>2. Cardinality({}) = 0
    BY FS_EmptySet
  <2>3. breaker[x].probes - breaker[x].successes <= Cardinality(TryingAt(x))
    BY DEF ProbesUnderWay
  <2>4. breaker[x].probes \in Int /\ breaker[x].successes \in Int
    BY <2>1 DEF Coherent, Snapshots
  <2> QED BY <2>1, <2>2, <2>3, <2>4
<1> HIDE DEF Inv
<1> QED
  BY <1>1, <1>2, <1>3, PTL DEF RecordedSpec

=============================================================================
