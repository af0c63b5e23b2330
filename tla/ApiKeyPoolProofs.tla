-------------------------- MODULE ApiKeyPoolProofs --------------------------
(* Proofs about the key pool, for any keys, weights, requests and sessions. *)
(* The cache and the sessions come first: which key the rotation draws     *)
(* does not matter for them.  The type and the rotation follow.            *)
EXTENDS ApiKeyPool, WaitlistProofs, TLAPS

(* What is not available to a request, a cache or a session has had        *)
(* trouble; the rest types what the proofs look into.                      *)
PoolShape ==
  /\ pc \in [Requests -> Stages]
  /\ seen = [r \in Requests |-> seen[r]]
  /\ binding = [s \in Sessions |-> binding[s]]
  /\ \A r \in Requests : pc[r] = "pinning" => PinOf[r] # NoKey

OutIsTroubled ==
  /\ Keys \ enabled \subseteq troubled
  /\ disabled \subseteq troubled \cup {NoKey}
  /\ cooling \subseteq troubled \cup {NoKey}
  /\ cache # NoList => Keys \ cache \subseteq troubled
  /\ \A r \in Requests : pc[r] = "picking" => Keys \ seen[r] \subseteq troubled

PoolInv == PoolShape /\ OutIsTroubled /\ CacheFresh

(* What a load hands out or caches leaves out only keys that had trouble.  *)
LEMMA LoadLeavesTrouble ==
  ASSUME NEW list, list = Loaded(cache) \/ list = Loaded(NoList),
         NEW cold, cold \subseteq troubled \cup {NoKey}, OutIsTroubled
  PROVE  /\ Keys \ list \subseteq troubled
         /\ Keys \ (list \ cold) \subseteq troubled
<1>1. NoKey \notin Keys
  BY PoolAssumption
<1>2. Keys \ (enabled \ disabled) \subseteq troubled
  BY <1>1 DEF OutIsTroubled
<1>3. Keys \ list \subseteq troubled
  BY <1>2 DEF Loaded, OutIsTroubled
<1> QED
  BY <1>1, <1>3

(* The initial state and every step keep the invariant.                    *)
LEMMA PoolInvInit == PoolInit => PoolInv
  BY PoolAssumption DEF PoolInit, PoolInv, PoolShape, OutIsTroubled, CacheFresh, Stages

(* Every step keeps the invariant.                                         *)
LEMMA PoolInvStep ==
  ASSUME PoolInv, [PoolNext]_vars
  PROVE  PoolInv'
<1> USE DEF PoolInv, store
<1>1. ASSUME NEW r \in Requests, Arrive(r)
      PROVE  PoolInv'
  <2>1. PoolShape'
    BY <1>1 DEF Arrive, LoadFor, PoolShape, Stages
  <2>2. OutIsTroubled'
    BY <1>1, LoadLeavesTrouble DEF Arrive, LoadFor, PoolShape, OutIsTroubled
  <2>3. CacheFresh'
    BY <1>1 DEF Arrive, LoadFor, Loaded, PoolShape, CacheFresh
  <2> QED
    BY <2>1, <2>2, <2>3
<1>2. ASSUME NEW r \in Requests, Pin(r)
      PROVE  PoolInv'
  <2>1. PoolShape'
    BY <1>2 DEF Pin, Bind, Carry, PoolShape, Stages
  <2>2. OutIsTroubled'
    BY <1>2 DEF Pin, Bind, Carry, PoolShape, OutIsTroubled
  <2>3. CacheFresh'
    BY <1>2 DEF Pin, Bind, Carry, PoolShape, CacheFresh
  <2> QED
    BY <2>1, <2>2, <2>3
<1>3. ASSUME NEW r \in Requests, Refuse(r)
      PROVE  PoolInv'
  <2>1. PoolShape'
    BY <1>3 DEF Refuse, PoolShape, Stages
  <2>2. OutIsTroubled'
    BY <1>3 DEF Refuse, PoolShape, OutIsTroubled
  <2>3. CacheFresh'
    BY <1>3 DEF Refuse, PoolShape, CacheFresh
  <2> QED
    BY <2>1, <2>2, <2>3
<1>4. ASSUME NEW r \in Requests, FallBack(r)
      PROVE  PoolInv'
  <2>1. PoolShape'
    BY <1>4 DEF FallBack, LoadFor, PoolShape, Stages
  <2>2. OutIsTroubled'
    BY <1>4, LoadLeavesTrouble DEF FallBack, LoadFor, PoolShape, OutIsTroubled
  <2>3. CacheFresh'
    BY <1>4 DEF FallBack, LoadFor, Loaded, PoolShape, CacheFresh
  <2> QED
    BY <2>1, <2>2, <2>3
<1>5. ASSUME NEW r \in Requests, Pick(r)
      PROVE  PoolInv'
  <2>1. PoolShape'
    BY <1>5 DEF Pick, Bind, Carry, Rotate, Keep, Redraw, PoolShape, Stages
  <2>2. OutIsTroubled'
    BY <1>5 DEF Pick, Bind, Carry, Rotate, Keep, Redraw, PoolShape, OutIsTroubled
  <2>3. CacheFresh'
    BY <1>5 DEF Pick, Bind, Carry, Rotate, Keep, Redraw, PoolShape, CacheFresh
  <2> QED
    BY <2>1, <2>2, <2>3
<1>6. ASSUME NEW r \in Requests, PickNone(r)
      PROVE  PoolInv'
  <2>1. PoolShape'
    BY <1>6 DEF PickNone, PoolShape, Stages
  <2>2. OutIsTroubled'
    BY <1>6 DEF PickNone, PoolShape, OutIsTroubled
  <2>3. CacheFresh'
    BY <1>6 DEF PickNone, PoolShape, CacheFresh
  <2> QED
    BY <2>1, <2>2, <2>3
<1>7. ASSUME NEW r \in Requests, Succeed(r)
      PROVE  PoolInv'
  <2>1. PoolShape'
    BY <1>7 DEF Succeed, PoolShape, Stages
  <2>2. OutIsTroubled'
    BY <1>7 DEF Succeed, PoolShape, OutIsTroubled
  <2>3. CacheFresh'
    BY <1>7 DEF Succeed, PoolShape, CacheFresh
  <2> QED
    BY <2>1, <2>2, <2>3
<1>8. ASSUME NEW r \in Requests, Fail(r)
      PROVE  PoolInv'
  <2>1. PoolShape'
    BY <1>8 DEF Fail, PoolShape, Stages
  <2>2. OutIsTroubled'
    BY <1>8 DEF Fail, PoolShape, OutIsTroubled
  <2>3. CacheFresh'
    BY <1>8 DEF Fail, PoolShape, CacheFresh
  <2> QED
    BY <2>1, <2>2, <2>3
<1>9. ASSUME NEW r \in Requests, RateLimited(r)
      PROVE  PoolInv'
  <2>1. PoolShape'
    BY <1>9 DEF RateLimited, LoadFor, PoolShape, Stages
  <2>2. OutIsTroubled'
    BY <1>9, LoadLeavesTrouble DEF RateLimited, LoadFor, PoolShape, OutIsTroubled, Bound
  <2>3. CacheFresh'
    BY <1>9 DEF RateLimited, LoadFor, PoolShape, CacheFresh, Loaded
  <2> QED
    BY <2>1, <2>2, <2>3
<1>10. ASSUME NEW r \in Requests, AuthFailed(r)
       PROVE  PoolInv'
  <2>1. PoolShape'
    BY <1>10 DEF AuthFailed, PoolShape, Stages
  <2>2. OutIsTroubled'
    BY <1>10 DEF AuthFailed, PoolShape, OutIsTroubled, Bound
  <2>3. CacheFresh'
    BY <1>10 DEF AuthFailed, PoolShape, CacheFresh
  <2> QED
    BY <2>1, <2>2, <2>3
<1>11. ASSUME NEW r \in Requests, DisableReturns(r)
       PROVE  PoolInv'
  <2>1. PoolShape'
    BY <1>11 DEF DisableReturns, LoadFor, PoolShape, Stages
  <2>2. OutIsTroubled'
    BY <1>11, LoadLeavesTrouble DEF DisableReturns, LoadFor, PoolShape, OutIsTroubled
  <2>3. CacheFresh'
    BY <1>11 DEF DisableReturns, LoadFor, Loaded, PoolShape, CacheFresh
  <2> QED
    BY <2>1, <2>2, <2>3
<1>12. ASSUME NEW r \in Requests, Reselect(r)
       PROVE  PoolInv'
  <2>1. PoolShape'
    BY <1>12 DEF Reselect, Bind, Carry, Rotate, PoolShape, Stages
  <2>2. OutIsTroubled'
    BY <1>12 DEF Reselect, Bind, Carry, Rotate, PoolShape, OutIsTroubled
  <2>3. CacheFresh'
    BY <1>12 DEF Reselect, Bind, Carry, Rotate, PoolShape, CacheFresh
  <2> QED
    BY <2>1, <2>2, <2>3
<1>13. ASSUME NEW r \in Requests, NothingLeft(r)
       PROVE  PoolInv'
  <2>1. PoolShape'
    BY <1>13 DEF NothingLeft, PoolShape, Stages
  <2>2. OutIsTroubled'
    BY <1>13 DEF NothingLeft, PoolShape, OutIsTroubled
  <2>3. CacheFresh'
    BY <1>13 DEF NothingLeft, PoolShape, CacheFresh
  <2> QED
    BY <2>1, <2>2, <2>3
<1>14. ASSUME NEW r \in Requests, RetryEnds(r)
       PROVE  PoolInv'
  <2>1. PoolShape'
    BY <1>14 DEF RetryEnds, PoolShape, Stages
  <2>2. OutIsTroubled'
    BY <1>14 DEF RetryEnds, PoolShape, OutIsTroubled
  <2>3. CacheFresh'
    BY <1>14 DEF RetryEnds, PoolShape, CacheFresh
  <2> QED
    BY <2>1, <2>2, <2>3
<1>15. ASSUME NEW key \in Keys, CoolingEnds(key)
      PROVE  PoolInv'
  BY <1>15 DEF CoolingEnds, PoolShape, OutIsTroubled, CacheFresh
<1>16. ASSUME NEW key \in Keys, Edit(key)
      PROVE  PoolInv'
  BY <1>16 DEF Edit, PoolShape, OutIsTroubled, CacheFresh
<1>17. CASE UNCHANGED vars
  BY <1>17 DEF vars, PoolShape, OutIsTroubled, CacheFresh
<1> QED
  BY <1>1, <1>2, <1>3, <1>4, <1>5, <1>6, <1>7, <1>8, <1>9, <1>10, <1>11, <1>12, <1>13, <1>14, <1>15, <1>16, <1>17, PoolAssumption
     DEF PoolNext, Answered, Reported

(* PoolInv holds all the time.                                             *)
LEMMA PoolInvAlways == PoolSpec => []PoolInv
  BY PoolInvInit, PoolInvStep, PTL DEF PoolSpec

(* No disabled key is handed out from a list that should be gone.          *)
THEOREM PoolCacheFresh == PoolSpec => []CacheFresh
  BY PoolInvAlways, PTL DEF PoolInv

(* A step that takes a healthy key from a session is the report of one of  *)
(* its own requests.                                                       *)
LEMMA KeepsItsKeyStep ==
  ASSUME PoolInv, [PoolNext]_vars
  PROVE  KeepsItsKey
<1>1. SUFFICES ASSUME NEW s \in Sessions, Unpinned(s), binding[s] \in Keys,
                      binding'[s] # binding[s]
               PROVE  \/ binding[s] \in troubled
                      \/ \E r \in Requests : SessionOf[r] = s /\ pc[r] = "rotating"
  BY DEF KeepsItsKey
<1>2. ASSUME NEW r \in Requests, NEW key, Bind(r, key)
      PROVE  SessionOf[r] = s
  BY <1>1, <1>2, PoolAssumption DEF Bind, PoolInv, PoolShape
<1>3. ASSUME NEW r \in Requests, Pin(r)
      PROVE  FALSE
  <2>1. SessionOf[r] = s
    BY <1>2, <1>3 DEF Pin
  <2>2. PinOf[r] # NoKey
    BY <1>3 DEF Pin, PoolInv, PoolShape
  <2> QED
    BY <1>1, <2>1, <2>2 DEF Unpinned
<1>4. ASSUME NEW r \in Requests, Pick(r)
      PROVE  binding[s] \in troubled
  <2>1. Redraw(r)
    BY <1>1, <1>4 DEF Pick, Keep
  <2>2. SessionOf[r] = s
    BY <1>2, <2>1 DEF Redraw, Rotate
  <2> QED
    BY <1>1, <1>4, <2>1, <2>2 DEF Pick, Redraw, Bound, PoolInv, OutIsTroubled
<1>5. ASSUME NEW r \in Requests, Reselect(r)
      PROVE  SessionOf[r] = s /\ pc[r] = "rotating"
  BY <1>2, <1>5 DEF Reselect, Rotate
<1>6. CASE UNCHANGED binding
  BY <1>1, <1>6
<1> QED
  BY <1>3, <1>4, <1>5, <1>6
     DEF PoolNext, Answered, Reported, Arrive, Refuse, FallBack, PickNone,
         Succeed, Fail, RateLimited, AuthFailed, DisableReturns, NothingLeft,
         RetryEnds, CoolingEnds, Edit, vars

(* A session stays with its key until the key had trouble or one of the    *)
(* session's requests reports an error.                                    *)
THEOREM PoolAffinity == PoolSpec => AffinityKept
<1>1. PoolInv /\ [PoolNext]_vars => KeepsItsKey
  BY KeepsItsKeyStep
<1> QED
  BY <1>1, PoolInvAlways, PTL DEF PoolSpec, AffinityKept

-----------------------------------------------------------------------------
(* Numbers.                                                                *)

(* Of a set of keys that is not empty the foremost is one, and comes first. *)
LEMMA ForemostIsFirst ==
  ASSUME NEW S, S \subseteq Keys, S # {}
  PROVE  Foremost(S) \in S /\ \A k \in S : Place[Foremost(S)] <= Place[k]
<1> DEFINE T == {Place[k] : k \in S}
<1>1. T \subseteq Nat /\ T # {}
  BY PoolAssumption
<1>2. \E m \in T : \A n \in T : m <= n
  <2> HIDE DEF T
  <2> QED BY <1>1, LeastNatural
<1>3. \E key \in S : \A k \in S : Place[key] <= Place[k]
  BY <1>2
<1> QED BY <1>3 DEF Foremost

(* A set of keys that is not empty has a last one.                         *)
LEMMA LastExists ==
  ASSUME NEW S, S \subseteq Keys, S # {}
  PROVE  \E key \in S : \A k \in S : Place[k] <= Place[key]
<1> DEFINE N == Cardinality(Keys)
           T == {N - Place[k] : k \in S}
<1>1. N \in Nat /\ \A k \in S : Place[k] \in 1 .. N
  BY PoolAssumption, FS_CardinalityType
<1>2. T \subseteq Nat /\ T # {}
  <2> HIDE DEF N
  <2> QED BY <1>1
<1>3. \E m \in T : \A n \in T : m <= n
  <2> HIDE DEF T
  <2> QED BY <1>2, LeastNatural
<1>4. PICK key \in S : \A k \in S : N - Place[key] <= N - Place[k]
  BY <1>3
<1>5. \A k \in S : Place[k] <= Place[key]
  <2> HIDE DEF N
  <2> QED BY <1>1, <1>4
<1> QED BY <1>5

-----------------------------------------------------------------------------
(* Division with remainder.                                                *)

(* A remainder is below the divisor and differs from the number by a       *)
(* multiple of it.                                                         *)
LEMMA Divide ==
  ASSUME NEW a \in Nat, NEW T \in Nat \ {0}
  PROVE  a % T \in 0 .. T - 1 /\ \E q \in Nat : a = q * T + (a % T)
<1>1. a = (a \div T) * T + (a % T) /\ a \div T \in Nat /\ a % T \in 0 .. T - 1
  OBVIOUS
<1> QED BY <1>1

(* Quotient and remainder are unique.                                      *)
LEMMA RemainderUnique ==
  ASSUME NEW T \in Nat \ {0}, NEW p \in Int, NEW q \in Int,
         NEW x \in 0 .. T - 1, NEW y \in 0 .. T - 1, p * T + x = q * T + y
  PROVE  p = q /\ x = y
<1>1. \A d \in Int : d >= 1 => d * T >= T
  OBVIOUS
<1>2. (q - p) * T = x - y /\ (p - q) * T = y - x
  OBVIOUS
<1>3. ~ (q - p >= 1) /\ ~ (p - q >= 1)
  BY <1>1, <1>2
<1> QED BY <1>3

(* A multiple and a number below the divisor: that number is the           *)
(* remainder.                                                              *)
LEMMA Remainder ==
  ASSUME NEW T \in Nat \ {0}, NEW q \in Nat, NEW x \in 0 .. T - 1
  PROVE  (q * T + x) % T = x
<1>1. q * T + x \in Nat
  OBVIOUS
<1>2. PICK p \in Nat : q * T + x = p * T + ((q * T + x) % T)
  BY <1>1, Divide
<1>3. (q * T + x) % T \in 0 .. T - 1
  BY <1>1, Divide
<1> DEFINE y == (q * T + x) % T
<1>4. q * T + x = p * T + y /\ y \in 0 .. T - 1
  BY <1>2, <1>3
<1> HIDE DEF y
<1>5. x = y
  BY <1>4, RemainderUnique
<1> QED BY <1>5 DEF y

(* One on from a remainder is the remainder of one on.                     *)
LEMMA RemainderStep ==
  ASSUME NEW a \in Nat, NEW T \in Nat \ {0}
  PROVE  ((a % T) + 1) % T = (a + 1) % T
<1>1. PICK q \in Nat : a = q * T + (a % T)
  BY Divide
<1> DEFINE x == a % T
<1>2. x \in 0 .. T - 1 /\ a = q * T + x
  BY <1>1, Divide
<1> HIDE DEF x
<1>3. CASE x + 1 < T
  <2>1. a + 1 = q * T + (x + 1) /\ x + 1 = 0 * T + (x + 1) /\ x + 1 \in 0 .. T - 1
    BY <1>2, <1>3
  <2>2. (q * T + (x + 1)) % T = x + 1 /\ (0 * T + (x + 1)) % T = x + 1
    BY <2>1, Remainder
  <2> QED BY <2>1, <2>2 DEF x
<1>4. CASE x + 1 = T
  <2>1. a + 1 = (q + 1) * T + 0 /\ x + 1 = 1 * T + 0 /\ q + 1 \in Nat /\ 0 \in 0 .. T - 1
    BY <1>2, <1>4
  <2>2. ((q + 1) * T + 0) % T = 0 /\ (1 * T + 0) % T = 0
    BY <2>1, Remainder
  <2> QED BY <2>1, <2>2 DEF x
<1> QED BY <1>2, <1>3, <1>4

(* T numbers in a row have each remainder once.                            *)
LEMMA RemaindersDiffer ==
  ASSUME NEW T \in Nat \ {0}, NEW a \in Nat, NEW b \in Nat,
         a % T = b % T, a < b, b < a + T
  PROVE  FALSE
<1>1. PICK p \in Nat : a = p * T + (a % T)
  BY Divide
<1>2. PICK q \in Nat : b = q * T + (b % T)
  BY Divide
<1> DEFINE x == a % T
<1>3. x \in 0 .. T - 1 /\ a = p * T + x /\ b = q * T + x
  BY <1>1, <1>2, Divide
<1> HIDE DEF x
<1>4. (q - p) * T = b - a
  BY <1>3
<1>5. \A d \in Int : (d >= 1 => d * T >= T) /\ (d <= 0 => d * T <= 0)
  OBVIOUS
<1> QED BY <1>4, <1>5

(* ... and each remainder is met.                                          *)
LEMMA RemaindersMet ==
  ASSUME NEW T \in Nat \ {0}, NEW c \in Nat, NEW x \in 0 .. T - 1
  PROVE  \E i \in 0 .. T - 1 : (c + i) % T = x
<1>1. PICK q \in Nat : c = q * T + (c % T)
  BY Divide
<1> DEFINE y == c % T
<1>2. y \in 0 .. T - 1 /\ c = q * T + y
  BY <1>1, Divide
<1> HIDE DEF y
<1>3. CASE x >= y
  <2>1. c + (x - y) = q * T + x /\ x - y \in 0 .. T - 1
    BY <1>2, <1>3
  <2>2. (q * T + x) % T = x
    BY Remainder
  <2> QED BY <2>1, <2>2
<1>4. CASE x < y
  <2>1. c + (x - y + T) = (q + 1) * T + x /\ x - y + T \in 0 .. T - 1 /\ q + 1 \in Nat
    BY <1>2, <1>4
  <2>2. ((q + 1) * T + x) % T = x
    BY <2>1, Remainder
  <2> QED BY <2>1, <2>2
<1> QED BY <1>2, <1>3, <1>4

-----------------------------------------------------------------------------
(* Weights.                                                                *)

(* A key has as many slots as it weighs.                                   *)
LEMMA OwnSlots ==
  ASSUME NEW key \in Keys
  PROVE  /\ WeightOf[key] \in Nat
         /\ IsFiniteSet({key} \X (1 .. WeightOf[key]))
         /\ Cardinality({key} \X (1 .. WeightOf[key])) = WeightOf[key]
<1> DEFINE w == WeightOf[key]
           I == 1 .. w
           E == {key}
<1>1. w \in Nat
  BY PoolAssumption
<1>2. IsFiniteSet(E) /\ Cardinality(E) = 1
  BY FS_Singleton
<1> HIDE DEF w
<1>3. IsFiniteSet(I) /\ Cardinality(I) = w
  BY <1>1, FS_Interval
<1> HIDE DEF I, E
<1>4. IsFiniteSet(E \X I) /\ Cardinality(E \X I) = Cardinality(E) * Cardinality(I)
  BY <1>2, <1>3, FS_Product
<1>5. Cardinality(E \X I) = w
  BY <1>1, <1>2, <1>3, <1>4
<1> QED BY <1>1, <1>4, <1>5 DEF w, I, E

(* The slots of finitely many keys are finitely many.                      *)
LEMMA WeightIsNatural ==
  ASSUME NEW S, S \subseteq Keys
  PROVE  IsFiniteSet(S) /\ IsFiniteSet(Slots(S)) /\ Weight(S) \in Nat
<1> DEFINE Own(key) == {key} \X (1 .. WeightOf[key])
           T == {Own(key) : key \in S}
           f == [key \in S |-> Own(key)]
<1>1. IsFiniteSet(S)
  BY PoolAssumption, FS_Subset
<1>2. ASSUME NEW key \in S PROVE IsFiniteSet(Own(key))
  BY OwnSlots
<1>3. IsFiniteSet(T)
  <2>1. f \in Surjection(S, T)
    BY DEF Surjection
  <2> HIDE DEF f, T
  <2> QED BY <1>1, <2>1, FS_Surjection
<1>4. IsFiniteSet(UNION T)
  <2>1. \A U \in T : IsFiniteSet(U)
    BY <1>2
  <2> HIDE DEF T
  <2> QED BY <1>3, <2>1, FS_UNION
<1>5. Slots(S) = UNION T
  BY DEF Slots
<1> QED BY <1>1, <1>4, <1>5, FS_CardinalityType DEF Weight

(* A key adds its own weight.                                              *)
LEMMA WeightAdds ==
  ASSUME NEW S, S \subseteq Keys, NEW key \in Keys \ S
  PROVE  Weight(S \cup {key}) = Weight(S) + WeightOf[key]
<1> DEFINE Own == {key} \X (1 .. WeightOf[key])
<1>1. WeightOf[key] \in Nat /\ IsFiniteSet(Own) /\ Cardinality(Own) = WeightOf[key]
  BY OwnSlots
<1>2. Slots(S \cup {key}) = Slots(S) \cup Own
  BY DEF Slots
<1>3. Slots(S) \cap Own = {}
  BY DEF Slots
<1>4. IsFiniteSet(Slots(S)) /\ Cardinality(Slots(S)) \in Nat
  BY WeightIsNatural DEF Weight
<1> DEFINE A == Slots(S)
<1> HIDE DEF Own, A
<1>5. Cardinality(A \cup Own) = Cardinality(A) + Cardinality(Own) - Cardinality(A \cap Own)
  BY <1>1, <1>4, FS_Union DEF A
<1>6. Cardinality(A \cap Own) = 0
  BY <1>3, FS_EmptySet DEF A
<1>7. Weight(S \cup {key}) = Cardinality(A \cup Own) /\ Weight(S) = Cardinality(A)
  BY <1>2 DEF Weight, A
<1>8. Cardinality(A) \in Nat
  BY <1>4 DEF A
<1> QED BY <1>1, <1>5, <1>6, <1>7, <1>8

(* More keys weigh no less.                                                *)
LEMMA WeightGrows ==
  ASSUME NEW R, R \subseteq Keys, NEW S, S \subseteq R
  PROVE  Weight(S) <= Weight(R)
<1>1. Slots(S) \subseteq Slots(R)
  BY DEF Slots
<1> QED BY <1>1, WeightIsNatural, FS_Subset DEF Weight

(* No keys weigh nothing.                                                  *)
LEMMA NoKeysNoWeight == Weight({}) = 0
<1>1. Slots({}) = {}
  BY DEF Slots
<1> QED BY <1>1, FS_EmptySet DEF Weight

-----------------------------------------------------------------------------
(* The key at an index.                                                    *)

\* The keys of the list before a key.
Before(list, key) == {k \in list : Place[k] < Place[key]}

(* The slots of a key follow those of the keys before it.                  *)
LEMMA SlotsInARow ==
  ASSUME NEW list, list \subseteq Keys, NEW key \in list
  PROVE  /\ Weight(Before(list, key)) \in Nat
         /\ Weight(UpTo(list, key)) = Weight(Before(list, key)) + WeightOf[key]
         /\ Weight(UpTo(list, key)) <= Weight(list)
<1>1. \A k \in Keys : Place[k] \in Nat
  BY PoolAssumption
<1>2. UpTo(list, key) = Before(list, key) \cup {key} /\ key \notin Before(list, key)
  BY <1>1, PoolAssumption DEF UpTo, Before
<1>3. Before(list, key) \subseteq Keys /\ UpTo(list, key) \subseteq list
  BY DEF Before, UpTo
<1> QED BY <1>2, <1>3, WeightAdds, WeightGrows, WeightIsNatural

(* The key drawn at an index is the one whose slots hold it.               *)
LEMMA KeyAtItsSlots ==
  ASSUME NEW list, list \subseteq Keys, Cardinality(list) # 1,
         NEW at \in Nat, at < Weight(list), NEW key \in list
  PROVE  KeyAt(list, at) = key
           <=> Weight(Before(list, key)) <= at /\ at < Weight(UpTo(list, key))
<1> DEFINE hit == {k \in list : at # NaN /\ at < Weight(UpTo(list, k))}
           f == Foremost(hit)
<1>1. at # NaN
  BY DEF NaN
<1>2. \A k \in Keys : Place[k] \in Nat
  BY PoolAssumption
<1>3. hit # {}
  <2>1. PICK last \in list : \A k \in list : Place[k] <= Place[last]
    BY LastExists
  <2>2. UpTo(list, last) = list
    BY <2>1 DEF UpTo
  <2> QED BY <1>1, <2>2
<1>4. KeyAt(list, at) = f
  BY <1>3 DEF KeyAt
<1>5. f \in hit /\ \A k \in hit : Place[f] <= Place[k]
  <2>1. hit \subseteq Keys
    OBVIOUS
  <2> HIDE DEF hit
  <2> QED BY <1>3, <2>1, ForemostIsFirst
<1> HIDE DEF f
<1>6. ASSUME key = f
      PROVE  Weight(Before(list, key)) <= at
  <2>1. CASE Before(list, key) = {}
    BY <2>1, NoKeysNoWeight
  <2>2. CASE Before(list, key) # {}
    <3>1. PICK b \in Before(list, key) : \A k \in Before(list, key) : Place[k] <= Place[b]
      BY <2>2, LastExists DEF Before
    <3>2. UpTo(list, b) = Before(list, key) /\ b \in list /\ Place[b] < Place[key]
      BY <1>2, <3>1 DEF UpTo, Before
    <3>3. b \notin hit
      BY <1>2, <1>5, <1>6, <3>2
    <3> QED BY <1>1, <3>2, <3>3, SlotsInARow
  <2> QED BY <2>1, <2>2
<1>7. ASSUME Weight(Before(list, key)) <= at, at < Weight(UpTo(list, key)), key # f
      PROVE  FALSE
  <2>1. key \in hit /\ f \in list /\ at < Weight(UpTo(list, f))
    BY <1>1, <1>5, <1>7
  <2>2. Place[f] < Place[key]
    BY <1>2, <1>5, <1>7, <2>1, PoolAssumption
  <2>3. UpTo(list, f) \subseteq Before(list, key)
    BY <1>2, <2>1, <2>2 DEF UpTo, Before
  <2>4. Weight(UpTo(list, f)) <= Weight(Before(list, key))
    BY <2>3, WeightGrows DEF Before
  <2>5. Weight(Before(list, key)) \in Nat /\ Weight(UpTo(list, f)) \in Nat
    BY WeightIsNatural DEF Before, UpTo
  <2> QED BY <1>7, <2>1, <2>4, <2>5
<1> QED BY <1>4, <1>5, <1>6, <1>7

-----------------------------------------------------------------------------
(* A turn of the rotation.                                                 *)

(* Of T numbers in a row, as many have their remainder between two bounds  *)
(* as there are numbers between the bounds.                                *)
LEMMA TurnMeetsEachOnce ==
  ASSUME NEW T \in Nat \ {0}, NEW a \in Nat \cup {-1},
         NEW low \in Nat, NEW high \in Nat, low <= high, high <= T
  PROVE  Cardinality({i \in 1 .. T : low <= (a + i) % T /\ (a + i) % T < high}) = high - low
<1> DEFINE C == {i \in 1 .. T : low <= (a + i) % T /\ (a + i) % T < high}
           D == low .. high - 1
           f == [i \in C |-> (a + i) % T]
<1>1. \A i \in 1 .. T : a + i \in Nat /\ (a + i) % T \in 0 .. T - 1
  BY Divide
<1>2. f \in [C -> D]
  <2> SUFFICES ASSUME NEW i \in C PROVE (a + i) % T \in D
    OBVIOUS
  <2>1. (a + i) % T \in Nat
    BY <1>1
  <2> QED BY <2>1
<1>3. ASSUME NEW i \in C, NEW j \in C, f[i] = f[j], i < j
      PROVE  FALSE
  <2>1. a + i \in Nat /\ a + j \in Nat /\ a + i < a + j /\ a + j < a + i + T
    BY <1>1, <1>3
  <2>2. (a + i) % T = (a + j) % T
    BY <1>3
  <2> QED BY <2>1, <2>2, RemaindersDiffer
<1>4. f \in Injection(C, D)
  <2>1. \A i, j \in C : i < j \/ j < i \/ i = j
    OBVIOUS
  <2>2. \A i, j \in C : f[i] = f[j] => i = j
    <3> HIDE DEF f, C
    <3> QED BY <1>3, <2>1
  <2> QED BY <1>2, <2>2 DEF Injection, IsInjective
<1>5. ASSUME NEW x \in D
      PROVE  \E i \in C : f[i] = x
  <2>1. x \in 0 .. T - 1 /\ a + 1 \in Nat
    OBVIOUS
  <2>2. PICK k \in 0 .. T - 1 : (a + 1 + k) % T = x
    BY <2>1, RemaindersMet
  <2>3. a + (k + 1) = a + 1 + k /\ k + 1 \in 1 .. T
    OBVIOUS
  <2>4. (a + (k + 1)) % T = x
    BY <2>2, <2>3
  <2>5. k + 1 \in C
    BY <2>3, <2>4
  <2> QED BY <2>4, <2>5
<1>6. f \in Surjection(C, D)
  BY <1>2, <1>5 DEF Surjection
<1>7. IsFiniteSet(D) /\ Cardinality(D) = high - low
  <2>1. low \in Int /\ high - 1 \in Int
    OBVIOUS
  <2>2. IsFiniteSet(D) /\ Cardinality(D) = IF low > high - 1 THEN 0 ELSE (high - 1) - low + 1
    BY <2>1, FS_Interval
  <2> HIDE DEF D
  <2> QED BY <2>2
<1> HIDE DEF f, C, D
<1>8. Cardinality(C) = Cardinality(D)
  BY <1>4, <1>6, <1>7, FS_Injection
<1> QED BY <1>7, <1>8 DEF C

\* Index number i of a turn that starts after an index.
TurnIndex(list, last, i) == IF i = 0 THEN last ELSE (last + i) % Weight(list)

(* Each index of a turn is the next of the one before it.                  *)
LEMMA TurnStep ==
  ASSUME NEW list, Cardinality(list) # 1, Weight(list) \in Nat \ {0},
         NEW last \in Nat \cup {-1}, NEW i \in 1 .. Weight(list)
  PROVE  NextIndex(list, TurnIndex(list, last, i - 1)) = TurnIndex(list, last, i)
<1> DEFINE T == Weight(list)
<1>1. CASE i = 1
  <2>1. TurnIndex(list, last, i - 1) = last /\ last # NaN
    BY <1>1 DEF TurnIndex, NaN
  <2> QED BY <1>1, <2>1 DEF NextIndex, TurnIndex
<1>2. CASE i # 1
  <2>1. i - 1 \in Nat \ {0} /\ last + (i - 1) \in Nat /\ last + i = (last + (i - 1)) + 1
    BY <1>2
  <2>2. TurnIndex(list, last, i - 1) = (last + (i - 1)) % T
    BY <2>1 DEF TurnIndex
  <2>3. (last + (i - 1)) % T \in Nat
    <3>1. (last + (i - 1)) % T \in 0 .. T - 1
      BY <2>1, Divide
    <3> HIDE DEF T
    <3> QED BY <3>1
  <2>4. NextIndex(list, TurnIndex(list, last, i - 1)) = (((last + (i - 1)) % T) + 1) % T
    BY <2>2, <2>3 DEF NextIndex, NaN
  <2>5. (((last + (i - 1)) % T) + 1) % T = ((last + (i - 1)) + 1) % T
    BY <2>1, RemainderStep
  <2> QED BY <2>1, <2>4, <2>5 DEF TurnIndex
<1> QED BY <1>1, <1>2

(* So a function that starts after the index and goes on from each to the  *)
(* next is the turn.                                                       *)
LEMMA TurnIsUnique ==
  ASSUME NEW list, Cardinality(list) # 1, Weight(list) \in Nat \ {0},
         NEW last \in Nat \cup {-1}, NEW index,
         index = [i \in (1 .. Weight(list)) \cup {0} |->
                    IF i = 0 THEN last ELSE NextIndex(list, index[i - 1])]
  PROVE  \A i \in 1 .. Weight(list) : index[i] = TurnIndex(list, last, i)
<1> DEFINE T == Weight(list)
           wrong == {i \in (1 .. T) \cup {0} : index[i] # TurnIndex(list, last, i)}
<1>1. SUFFICES ASSUME wrong # {} PROVE FALSE
  OBVIOUS
<1>2. PICK m \in wrong : \A k \in wrong : m <= k
  <2>1. wrong \subseteq Nat
    OBVIOUS
  <2> HIDE DEF wrong
  <2> QED BY <1>1, <2>1, LeastNatural
<1>3. m # 0
  <2>1. 0 \in (1 .. T) \cup {0}
    OBVIOUS
  <2>2. index[0] = last
    BY <2>1
  <2> QED BY <2>2 DEF TurnIndex
<1>4. m \in 1 .. T /\ m - 1 \in (1 .. T) \cup {0} /\ m - 1 \notin wrong
  <2>1. m \in (1 .. T) \cup {0} /\ T \in Nat
    OBVIOUS
  <2>2. m \in 1 .. T /\ m - 1 \in (1 .. T) \cup {0}
    <3> HIDE DEF T
    <3> QED BY <1>3, <2>1
  <2>3. ~ (m <= m - 1)
    BY <2>2
  <2> HIDE DEF wrong, T
  <2> QED BY <1>2, <2>2, <2>3
<1>5. index[m - 1] = TurnIndex(list, last, m - 1)
  BY <1>4
<1>6. index[m] = NextIndex(list, index[m - 1])
  BY <1>3, <1>4
<1>7. index[m] = TurnIndex(list, last, m)
  BY <1>4, <1>5, <1>6, TurnStep
<1> QED BY <1>2, <1>7

(* There is one.                                                           *)
LEMMA TurnExists ==
  ASSUME NEW list, Cardinality(list) # 1, Weight(list) \in Nat \ {0},
         NEW last \in Nat \cup {-1}
  PROVE  \E index : index = [i \in (1 .. Weight(list)) \cup {0} |->
                    IF i = 0 THEN last ELSE NextIndex(list, index[i - 1])]
<1> DEFINE T == Weight(list)
           index == [i \in (1 .. T) \cup {0} |-> TurnIndex(list, last, i)]
<1>1. ASSUME NEW i \in (1 .. T) \cup {0}
      PROVE  TurnIndex(list, last, i) = IF i = 0 THEN last ELSE NextIndex(list, index[i - 1])
  <2>1. CASE i = 0
    BY <2>1 DEF TurnIndex
  <2>2. CASE i # 0
    <3>1. i \in 1 .. T /\ i - 1 \in (1 .. T) \cup {0}
      <4>1. T \in Nat
        OBVIOUS
      <4> HIDE DEF T
      <4> QED BY <2>2, <4>1
    <3>2. index[i - 1] = TurnIndex(list, last, i - 1)
      BY <3>1
    <3> QED BY <2>2, <3>1, <3>2, TurnStep
  <2> QED BY <2>1, <2>2
<1>2. index = [i \in (1 .. T) \cup {0} |-> IF i = 0 THEN last ELSE NextIndex(list, index[i - 1])]
  BY <1>1
<1> QED BY <1>2

\* At most one key weighs nothing.
AtMostOneWeightless ==
  \A k, l \in Keys : WeightOf[k] = 0 /\ WeightOf[l] = 0 => k = l

(* Then a list of two keys or more has a slot.                             *)
LEMMA ListsWeigh ==
  ASSUME AtMostOneWeightless, NEW list, list \subseteq Keys, list # {}, Cardinality(list) # 1
  PROVE  Weight(list) \in Nat \ {0}
<1>1. PICK k \in list : TRUE
  OBVIOUS
<1>2. \E l \in list : l # k
  <2>1. list # {k}
    BY FS_Singleton
  <2> QED BY <1>1, <2>1
<1>3. PICK l \in list : WeightOf[l] # 0
  BY <1>1, <1>2 DEF AtMostOneWeightless
<1>4. Weight({} \cup {l}) = Weight({}) + WeightOf[l] /\ {} \cup {l} = {l}
  BY WeightAdds
<1>5. Weight({l}) = WeightOf[l] /\ WeightOf[l] \in Nat
  <2>1. l \in Keys
    OBVIOUS
  <2>2. WeightOf[l] \in Nat
    BY <2>1, PoolAssumption
  <2> QED BY <1>4, <2>2, NoKeysNoWeight
<1>6. Weight({l}) <= Weight(list)
  BY WeightGrows
<1> QED BY <1>3, <1>5, <1>6, WeightIsNatural

(* A full turn gives each key of a list its weight.                        *)
LEMMA TurnIsFair ==
  ASSUME NEW list, list \subseteq Keys, Cardinality(list) # 1, Weight(list) \in Nat \ {0},
         NEW last \in Nat \cup {-1}, NEW index,
         \A i \in 1 .. Weight(list) : index[i] = TurnIndex(list, last, i),
         NEW key \in list, NEW calls,
         calls = {i \in 1 .. Weight(list) : KeyAt(list, index[i]) = key}
  PROVE  WeightOf[key] = Cardinality(calls)
<1> DEFINE T == Weight(list)
           low == Weight(Before(list, key))
           high == Weight(UpTo(list, key))
<1>1. low \in Nat /\ high \in Nat /\ WeightOf[key] \in Nat /\ high = low + WeightOf[key] /\ high <= T
  <2>1. low \in Nat /\ high = low + WeightOf[key] /\ high <= T
    BY SlotsInARow
  <2>2. WeightOf[key] \in Nat
    BY PoolAssumption
  <2> HIDE DEF low, high
  <2> QED BY <2>1, <2>2
<1>2. ASSUME NEW i \in 1 .. T
      PROVE  KeyAt(list, index[i]) = key <=> low <= (last + i) % T /\ (last + i) % T < high
  <2>1. i # 0 /\ last + i \in Nat
    OBVIOUS
  <2>2. index[i] = (last + i) % T
    BY <2>1 DEF TurnIndex
  <2>3. (last + i) % T \in 0 .. T - 1
    BY <2>1, Divide
  <2>4. (last + i) % T \in Nat /\ (last + i) % T < T
    <3>1. T \in Nat
      OBVIOUS
    <3> HIDE DEF T
    <3> QED BY <2>3, <3>1
  <2> QED BY <2>2, <2>4, KeyAtItsSlots
<1>3. calls = {i \in 1 .. T : low <= (last + i) % T /\ (last + i) % T < high}
  BY <1>2
<1>4. low <= high
  <2> HIDE DEF low, high
  <2> QED BY <1>1
<1>5. Cardinality({i \in 1 .. T : low <= (last + i) % T /\ (last + i) % T < high}) = high - low
  <2>1. T \in Nat \ {0}
    OBVIOUS
  <2> HIDE DEF low, high, T
  <2> QED BY <1>1, <1>4, <2>1, TurnMeetsEachOnce
<1>6. high - low = WeightOf[key]
  <2> HIDE DEF low, high
  <2> QED BY <1>1
<1> QED BY <1>3, <1>5, <1>6

(* In a state whose index is a number the rotation is fair.                *)
LEMMA RotationIsFair ==
  ASSUME AtMostOneWeightless, rr \in Nat \cup {NotSet}, seen \in [Requests -> SUBSET Keys]
  PROVE  RotationFair
<1> SUFFICES ASSUME NEW r \in Requests, Cardinality(seen[r]) > 1
             PROVE  LET turn == 1 .. Weight(seen[r])
                        index[i \in turn \cup {0}] ==
                          IF i = 0 THEN rr ELSE NextIndex(seen[r], index[i - 1])
                    IN  \A key \in seen[r] :
                          WeightOf[key] = Cardinality({i \in turn : KeyAt(seen[r], index[i]) = key})
  BY DEF RotationFair
<1> DEFINE list == seen[r]
           turn == 1 .. Weight(list)
           index[i \in turn \cup {0}] == IF i = 0 THEN rr ELSE NextIndex(list, index[i - 1])
<1>1. list \subseteq Keys /\ list # {} /\ Cardinality(list) # 1
  BY FS_EmptySet
<1>2. Weight(list) \in Nat \ {0}
  BY <1>1, ListsWeigh
<1>3. rr \in Nat \cup {-1}
  BY DEF NotSet
<1>4. index = [i \in turn \cup {0} |-> IF i = 0 THEN rr ELSE NextIndex(list, index[i - 1])]
  <2> HIDE DEF list
  <2> QED BY <1>1, <1>2, <1>3, TurnExists
<1> HIDE DEF index
<1>5. \A i \in turn : index[i] = TurnIndex(list, rr, i)
  <2> HIDE DEF list
  <2> QED BY <1>1, <1>2, <1>3, <1>4, TurnIsUnique
<1>6. ASSUME NEW key \in list
      PROVE  WeightOf[key] = Cardinality({i \in turn : KeyAt(list, index[i]) = key})
  <2> DEFINE calls == {i \in turn : KeyAt(list, index[i]) = key}
  <2>1. calls = {i \in 1 .. Weight(list) : KeyAt(list, index[i]) = key}
    OBVIOUS
  <2> HIDE DEF list, calls
  <2>2. WeightOf[key] = Cardinality(calls)
    BY <1>1, <1>2, <1>3, <1>5, <2>1, TurnIsFair
  <2> QED BY <2>2 DEF calls
<1> QED BY <1>6 DEF index

-----------------------------------------------------------------------------
(* The type of the state.                                                  *)

(* A selection from a list that is not empty is a key of the list.         *)
LEMMA SelectedFromList ==
  ASSUME NEW list, list \subseteq Keys, list # {}, NEW at
  PROVE  KeyAt(list, at) \in list
<1> DEFINE hit == {key \in list : at # NaN /\ at < Weight(UpTo(list, key))}
           held == IF hit = {} \/ Cardinality(list) = 1 THEN list ELSE hit
<1>1. held \subseteq list /\ held # {}
  <2>1. hit \subseteq list
    OBVIOUS
  <2> HIDE DEF hit
  <2> QED BY <2>1
<1>2. KeyAt(list, at) = Foremost(held)
  BY DEF KeyAt
<1> HIDE DEF held
<1> QED BY <1>1, <1>2, ForemostIsFirst

(* The index stays a number or becomes NaN, and the latter only where a    *)
(* list weighs nothing.                                                    *)
LEMMA NextIndexType ==
  ASSUME NEW list, list \subseteq Keys, NEW last \in Nat \cup {NotSet, NaN}
  PROVE  /\ NextIndex(list, last) \in Nat \cup {NotSet, NaN}
         /\ NextIndex(list, last) = NaN /\ last # NaN => Cardinality(list) # 1 /\ Weight(list) = 0
<1> DEFINE T == Weight(list)
<1>1. T \in Nat
  BY WeightIsNatural
<1>2. ASSUME T # 0, last # NaN
      PROVE  (last + 1) % T \in Nat
  <2>1. last + 1 \in Nat /\ T \in Nat \ {0}
    <3> HIDE DEF T
    <3> QED BY <1>1, <1>2 DEF NotSet, NaN
  <2>2. (last + 1) % T \in 0 .. T - 1
    BY <2>1, Divide
  <2> HIDE DEF T
  <2> QED BY <2>1, <2>2
<1> QED BY <1>2 DEF NextIndex, NaN

(* The two ways of handing over a list, and a key, keep the type.          *)
LEMMA LoadForType ==
  ASSUME PoolTypeOK, NEW r \in Requests, NEW cold,
         LoadFor(r, Loaded(cache), cold) \/ LoadFor(r, Loaded(NoList), cold)
  PROVE  /\ cache' \in {NoList} \cup SUBSET Keys
         /\ seen' \in [Requests -> SUBSET Keys]
<1>1. Loaded(cache) \subseteq Keys /\ Loaded(NoList) \subseteq Keys
  BY DEF PoolTypeOK, Loaded
<1> QED BY <1>1 DEF PoolTypeOK, LoadFor

(* A draw keeps the type, and without weightless lists the index a number. *)
LEMMA RotateType ==
  ASSUME PoolTypeOK, NEW r \in Requests, seen[r] # {}, Rotate(r)
  PROVE  /\ binding' \in [Sessions -> Keys \cup {NoKey}]
         /\ used' \in [Requests -> Keys \cup {NoKey}]
         /\ seen' \in [Requests -> SUBSET Keys]
         /\ rr' \in Nat \cup {NotSet, NaN}
         /\ AtMostOneWeightless /\ rr # NaN => rr' # NaN
<1>1. seen[r] \subseteq Keys /\ rr \in Nat \cup {NotSet, NaN}
  BY DEF PoolTypeOK
<1>2. Selected(seen[r]) \in Keys
  BY <1>1, SelectedFromList DEF Selected
<1>3. rr' \in Nat \cup {NotSet, NaN}
  BY <1>1, NextIndexType DEF Rotate
<1>4. AtMostOneWeightless /\ rr # NaN => rr' # NaN
  <2>1. Cardinality(seen[r]) # 1 /\ AtMostOneWeightless => Weight(seen[r]) # 0
    BY <1>1, ListsWeigh
  <2> QED BY <1>1, <2>1, NextIndexType DEF Rotate
<1> QED BY <1>2, <1>3, <1>4 DEF PoolTypeOK, Rotate, Bind, Carry

\* The type, and a number for the index.
PoolTypeInv == PoolTypeOK /\ (AtMostOneWeightless => rr # NaN)

(* Every step keeps the type.                                              *)
LEMMA PoolTypeStep ==
  ASSUME PoolTypeInv, [PoolNext]_vars
  PROVE  PoolTypeInv'
<1> USE DEF store
<1>0. \A r \in Requests : SessionOf[r] \in Sessions /\ Bound(r) \in Keys \cup {NoKey}
  BY PoolAssumption DEF PoolTypeInv, PoolTypeOK, Bound
<1>1. ASSUME NEW r \in Requests, Arrive(r) \/ FallBack(r) \/ DisableReturns(r)
      PROVE  PoolTypeInv'
  <2>1. /\ cache' \in {NoList} \cup SUBSET Keys
        /\ seen' \in [Requests -> SUBSET Keys]
    BY <1>1, LoadForType DEF PoolTypeInv, Arrive, FallBack, DisableReturns
  <2> QED BY <1>1, <2>1 DEF PoolTypeInv, PoolTypeOK, Arrive, FallBack, DisableReturns, Stages
<1>2. ASSUME NEW r \in Requests, Pin(r)
      PROVE  PoolTypeInv'
  BY <1>2 DEF PoolTypeInv, PoolTypeOK, Pin, Bind, Carry, Stages
<1>3. ASSUME NEW r \in Requests, Refuse(r) \/ PickNone(r) \/ Succeed(r) \/ Fail(r)
                                   \/ NothingLeft(r) \/ RetryEnds(r)
      PROVE  PoolTypeInv'
  BY <1>3 DEF PoolTypeInv, PoolTypeOK, Refuse, PickNone, Succeed, Fail, NothingLeft, RetryEnds, Stages
<1>4. ASSUME NEW r \in Requests, Pick(r)
      PROVE  PoolTypeInv'
  <2>1. CASE Keep(r)
    BY <1>4, <2>1 DEF PoolTypeInv, PoolTypeOK, Pick, Keep, Carry, Stages
  <2>2. CASE Redraw(r)
    <3>1. Rotate(r) /\ seen[r] # {}
      BY <2>2 DEF Redraw
    <3> QED BY <1>4, <3>1, RotateType DEF PoolTypeInv, PoolTypeOK, Pick, Stages
  <2> QED BY <1>4, <2>1, <2>2 DEF Pick
<1>5. ASSUME NEW r \in Requests, Reselect(r)
      PROVE  PoolTypeInv'
  BY <1>5, RotateType DEF PoolTypeInv, PoolTypeOK, Reselect, Stages
<1>6. ASSUME NEW r \in Requests, RateLimited(r)
      PROVE  PoolTypeInv'
  <2>1. /\ cache' \in {NoList} \cup SUBSET Keys
        /\ seen' \in [Requests -> SUBSET Keys]
    BY <1>6, LoadForType DEF PoolTypeInv, RateLimited
  <2> QED BY <1>0, <1>6, <2>1 DEF PoolTypeInv, PoolTypeOK, RateLimited, Stages
<1>7. ASSUME NEW r \in Requests, AuthFailed(r)
      PROVE  PoolTypeInv'
  BY <1>0, <1>7 DEF PoolTypeInv, PoolTypeOK, AuthFailed, Stages
<1>8. ASSUME NEW key \in Keys, CoolingEnds(key) \/ Edit(key)
      PROVE  PoolTypeInv'
  BY <1>8 DEF PoolTypeInv, PoolTypeOK, CoolingEnds, Edit
<1>9. CASE UNCHANGED vars
  BY <1>9 DEF PoolTypeInv, PoolTypeOK, vars
<1> QED
  BY <1>1, <1>2, <1>3, <1>4, <1>5, <1>6, <1>7, <1>8, <1>9, PoolAssumption
     DEF PoolNext, Answered, Reported

(* The initial state has it.                                               *)
LEMMA PoolTypeInit == PoolInit => PoolTypeInv
  BY DEF PoolInit, PoolTypeInv, PoolTypeOK, Stages, NotSet, NaN

(* The state of the pool has its type, the rotation's index included,      *)
(* whatever the weights.                                                   *)
THEOREM PoolTypeCorrect == PoolSpec => []PoolTypeOK
<1>1. PoolTypeInv /\ [PoolNext]_vars => PoolTypeInv'
  BY PoolTypeStep
<1>2. PoolTypeInv => PoolTypeOK
  BY DEF PoolTypeInv
<1> QED BY <1>1, <1>2, PoolTypeInit, PTL DEF PoolSpec

(* From wherever the calls and the edits have left the index, a full turn  *)
(* gives each available key its weight, unless two keys weigh nothing: a   *)
(* list of such keys makes the index NaN for good.                         *)
THEOREM PoolRotationFair ==
  ASSUME AtMostOneWeightless
  PROVE  PoolSpec => []RotationFair
<1>1. PoolTypeInv /\ [PoolNext]_vars => PoolTypeInv'
  BY PoolTypeStep
<1>2. PoolTypeInv => RotationFair
  BY RotationIsFair DEF PoolTypeInv, PoolTypeOK
<1> QED BY <1>1, <1>2, PoolTypeInit, PTL DEF PoolSpec

-----------------------------------------------------------------------------
(* What does hold of strict keys and of blame, where StrictKept and         *)
(* NoInnocentDisabled fail.                                                 *)

Strict(r) == PolicyOf[r] = {"strict"} /\ PinOf[r] # NoKey

(* A strict request never draws from the pool for its first attempt, and    *)
(* what it reports is an answer to its own key.                             *)
StrictFirst ==
  \A r \in Requests : Strict(r) =>
    /\ pc[r] # "picking"
    /\ pc[r] \in {"sent", "disabling", "rotating"} => used[r] = PinOf[r]

(* Before its call a request carries no key.                               *)
NothingCarried ==
  \A r \in Requests : pc[r] \in {"new", "pinning", "picking"} => used[r] = NoKey

(* Another request of the session has come.                                 *)
Accompanied(r) ==
  \E q \in Requests \ {r} : SessionOf[q] = SessionOf[r] /\ pc[q] # "new"

(* The session of a request that is alone in it is bound to the key the     *)
(* request carries, which is the one that is blamed.                        *)
BlamesItsOwn ==
  \A r \in Requests :
    pc[r] = "sent" /\ used[r] # NoKey => Bound(r) = used[r] \/ Accompanied(r)

(* A key is disabled without having been refused only after a session had   *)
(* several requests, as long as the row's static key is accepted.           *)
InnocentIfAlone ==
  NoKey \notin Revoked =>
    disabled \subseteq Revoked \/ \E r \in Requests : pc[r] # "new" /\ Accompanied(r)

BlameInv == PoolTypeInv /\ NothingCarried /\ StrictFirst /\ BlamesItsOwn /\ InnocentIfAlone

(* Whoever has come stays: requests are never "new" again.                  *)
LEMMA CompanyStays ==
  ASSUME PoolTypeOK, [PoolNext]_vars
  PROVE  /\ \A r \in Requests : pc[r] # "new" => pc'[r] # "new"
         /\ \A r \in Requests : Accompanied(r) => Accompanied(r)'
<1>1. ASSUME NEW r \in Requests, pc[r] # "new"
      PROVE  pc'[r] # "new"
  <2>1. ASSUME NEW q \in Requests, NEW stage, stage # "new", pc' = [pc EXCEPT ![q] = stage]
        PROVE  pc'[r] # "new"
    BY <1>1, <2>1 DEF PoolTypeOK
  <2>2. CASE UNCHANGED pc
    BY <1>1, <2>2
  <2>3. ASSUME NEW q \in Requests,
               \/ Arrive(q) \/ Pin(q) \/ Refuse(q) \/ FallBack(q) \/ Pick(q) \/ PickNone(q)
               \/ Answered(q) \/ Reported(q)
        PROVE  \E stage \in Stages \ {"new"} : pc' = [pc EXCEPT ![q] = stage]
    BY <2>3 DEF Stages, Arrive, Pin, Refuse, FallBack, Pick, PickNone, Answered, Succeed, Fail,
                RateLimited, AuthFailed, Reported, DisableReturns, Reselect, NothingLeft, RetryEnds
  <2>4. (\E key \in Keys : CoolingEnds(key) \/ Edit(key)) \/ UNCHANGED vars => UNCHANGED pc
    BY DEF CoolingEnds, Edit, vars
  <2> QED BY <2>1, <2>2, <2>3, <2>4, PoolAssumption DEF PoolNext
<1> QED BY <1>1 DEF Accompanied

(* A request that takes a key is, for the others of its session, company.   *)
LEMMA CarryBlames ==
  ASSUME BlameInv, [PoolNext]_vars, NEW r \in Requests, NEW key,
         pc'[r] # "new",
         \A q \in Requests \ {r} : pc'[q] = pc[q] /\ used'[q] = used[q],
         pc'[r] = "sent" => used'[r] = key /\ binding'[SessionOf[r]] = key,
         \A s \in Sessions \ {SessionOf[r]} : binding'[s] = binding[s]
  PROVE  BlamesItsOwn'
<1> SUFFICES ASSUME NEW q \in Requests, pc'[q] = "sent", used'[q] # NoKey
             PROVE  Bound(q)' = used'[q] \/ Accompanied(q)'
  BY DEF BlamesItsOwn
<1>1. SessionOf[q] \in Sessions /\ PoolTypeOK
  BY PoolAssumption DEF BlameInv, PoolTypeInv
<1>2. CASE q = r
  BY <1>2 DEF Bound
<1>3. CASE q # r /\ SessionOf[q] = SessionOf[r]
  BY <1>3 DEF Accompanied
<1>4. CASE q # r /\ SessionOf[q] # SessionOf[r]
  <2>1. Bound(q)' = Bound(q)
    BY <1>1, <1>4 DEF Bound
  <2>2. Bound(q) = used[q] \/ Accompanied(q)
    BY <1>4 DEF BlameInv, BlamesItsOwn
  <2> QED BY <1>1, <1>4, <2>1, <2>2, CompanyStays
<1> QED BY <1>2, <1>3, <1>4

(* Steps that bind nobody and send nothing leave the blame where it is.     *)
LEMMA BlameKept ==
  ASSUME BlameInv, [PoolNext]_vars, UNCHANGED binding,
         \A q \in Requests : pc'[q] = "sent" /\ used'[q] # NoKey
                             => pc[q] = "sent" /\ used'[q] = used[q]
  PROVE  BlamesItsOwn'
BY CompanyStays DEF BlameInv, PoolTypeInv, BlamesItsOwn, Bound

(* An innocent key already disabled has its overlap still.                  *)
LEMMA InnocenceKept ==
  ASSUME BlameInv, [PoolNext]_vars, UNCHANGED disabled
  PROVE  InnocentIfAlone'
BY CompanyStays DEF BlameInv, PoolTypeInv, InnocentIfAlone

(* Every step keeps the invariant.                                         *)
LEMMA BlameStep ==
  ASSUME BlameInv, [PoolNext]_vars
  PROVE  BlameInv'
<1> USE DEF store
<1>0. /\ PoolTypeOK /\ PoolTypeInv'
      /\ \A r \in Requests : SessionOf[r] \in Sessions
  BY PoolTypeStep, PoolAssumption DEF BlameInv, PoolTypeInv
<1>1. ASSUME NEW r \in Requests, Arrive(r) \/ Refuse(r) \/ FallBack(r) \/ Succeed(r) \/ Fail(r)
                                   \/ RateLimited(r) \/ DisableReturns(r) \/ NothingLeft(r)
                                   \/ RetryEnds(r) \/ PickNone(r)
      PROVE  BlameInv'
  <2> USE DEF Arrive, Refuse, FallBack, Succeed, Fail, RateLimited, DisableReturns, NothingLeft,
              RetryEnds, PickNone
  <2>1. NothingCarried' /\ StrictFirst'
    BY <1>0, <1>1 DEF BlameInv, NothingCarried, StrictFirst, Strict, PoolTypeOK
  <2>2. UNCHANGED <<binding, disabled, used>>
    BY <1>1
  <2>3. \A q \in Requests : pc'[q] = "sent" /\ used'[q] # NoKey => pc[q] = "sent"
    BY <1>0, <1>1, <2>2 DEF BlameInv, NothingCarried, PoolTypeOK
  <2> QED BY <1>0, <2>1, <2>2, <2>3, BlameKept, InnocenceKept DEF BlameInv
<1>2. ASSUME NEW r \in Requests, NEW key, Carry(r, key), UNCHANGED disabled,
             \/ pc' = [pc EXCEPT ![r] = "sent"] /\ pc[r] \in {"pinning", "picking"}
             \/ pc' = [pc EXCEPT ![r] = "retrying"] /\ pc[r] = "rotating",
             pc[r] = "pinning" => key = PinOf[r],
             \/ binding' = [binding EXCEPT ![SessionOf[r]] = key]
             \/ UNCHANGED binding /\ Bound(r) = key
      PROVE  BlameInv'
  <2>1. used' = [used EXCEPT ![r] = key]
    BY <1>2 DEF Carry
  <2>2. NothingCarried' /\ StrictFirst'
    BY <1>0, <1>2, <2>1 DEF BlameInv, NothingCarried, StrictFirst, Strict, PoolTypeOK
  <2>3. binding'[SessionOf[r]] = key /\ \A s \in Sessions \ {SessionOf[r]} : binding'[s] = binding[s]
    BY <1>0, <1>2 DEF PoolTypeOK, Bound
  <2>4. pc'[r] # "new" /\ used'[r] = key
        /\ \A q \in Requests \ {r} : pc'[q] = pc[q] /\ used'[q] = used[q]
    BY <1>0, <1>2, <2>1 DEF PoolTypeOK
  <2>5. BlamesItsOwn'
    BY <2>3, <2>4, CarryBlames
  <2> QED BY <1>0, <1>2, <2>2, <2>5, InnocenceKept DEF BlameInv
<1>3. ASSUME NEW r \in Requests, Pin(r)
      PROVE  BlameInv'
  BY <1>2, <1>3 DEF Pin, Bind
<1>4. ASSUME NEW r \in Requests, Pick(r)
      PROVE  BlameInv'
  <2>1. CASE Keep(r)
    BY <1>2, <1>4, <2>1 DEF Pick, Keep
  <2>2. CASE Redraw(r)
    BY <1>2, <1>4, <2>2 DEF Pick, Redraw, Rotate, Bind
  <2> QED BY <1>4, <2>1, <2>2 DEF Pick
<1>5. ASSUME NEW r \in Requests, Reselect(r)
      PROVE  BlameInv'
  BY <1>2, <1>5 DEF Reselect, Rotate, Bind
<1>6. ASSUME NEW r \in Requests, AuthFailed(r)
      PROVE  BlameInv'
  <2>1. NothingCarried' /\ StrictFirst'
    BY <1>0, <1>6 DEF BlameInv, NothingCarried, StrictFirst, Strict, PoolTypeOK, AuthFailed
  <2>2. BlamesItsOwn'
    BY <1>0, <1>6, BlameKept DEF PoolTypeOK, AuthFailed
  <2>3. used[r] \in Revoked /\ pc[r] = "sent"
    BY <1>6 DEF AuthFailed
  <2>4. NoKey \notin Revoked => Bound(r) \in Revoked \/ Accompanied(r)
    BY <2>3 DEF BlameInv, BlamesItsOwn
  <2>5. pc'[r] # "new" /\ (Accompanied(r) => Accompanied(r)')
    BY <1>0, <2>3, CompanyStays
  <2>6. disabled' \subseteq disabled \cup {Bound(r)}
    BY <1>6 DEF AuthFailed
  <2>7. \A q \in Requests : pc[q] # "new" /\ Accompanied(q) => pc'[q] # "new" /\ Accompanied(q)'
    BY <1>0, CompanyStays
  <2>8. InnocentIfAlone'
    BY <2>4, <2>5, <2>6, <2>7 DEF BlameInv, InnocentIfAlone
  <2> QED BY <1>0, <2>1, <2>2, <2>8 DEF BlameInv
<1>7. CASE (\E key \in Keys : CoolingEnds(key) \/ Edit(key)) \/ UNCHANGED vars
  <2>1. UNCHANGED <<pc, used, binding, disabled>>
    BY <1>7 DEF CoolingEnds, Edit, vars
  <2> QED BY <1>0, <2>1, BlameKept, InnocenceKept DEF BlameInv, NothingCarried, StrictFirst, Strict
<1> QED
  BY <1>1, <1>3, <1>4, <1>5, <1>6, <1>7, PoolAssumption DEF PoolNext, Answered, Reported

LEMMA BlameInit == PoolInit => BlameInv
BY PoolTypeInit DEF PoolInit, BlameInv, NothingCarried, StrictFirst, BlamesItsOwn, InnocentIfAlone

(* A request under a strict key makes its first call with that key or not   *)
(* at all, and what it reports is an answer to that key                     *)
(* (resolvePoolBoundKey); only the retry may carry another, which is how    *)
(* StrictKept fails.                                                        *)
THEOREM PoolStrictFirst == PoolSpec => []StrictFirst
<1>1. BlameInv /\ [PoolNext]_vars => BlameInv'
  BY BlameStep
<1>2. BlameInv => StrictFirst
  BY DEF BlameInv
<1> QED BY <1>1, <1>2, BlameInit, PTL DEF PoolSpec

(* Where each session has one request and the upstream accepts the row's    *)
(* static key, only keys it has refused are ever disabled                   *)
(* (handleAuthFailure): NoInnocentDisabled fails through sessions shared by *)
(* several requests.                                                        *)
THEOREM PoolInnocentIfAlone == PoolSpec => []InnocentIfAlone
<1>1. BlameInv /\ [PoolNext]_vars => BlameInv'
  BY BlameStep
<1>2. BlameInv => InnocentIfAlone
  BY DEF BlameInv
<1> QED BY <1>1, <1>2, BlameInit, PTL DEF PoolSpec

=============================================================================
