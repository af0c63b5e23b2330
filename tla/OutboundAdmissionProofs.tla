---------------------- MODULE OutboundAdmissionProofs ----------------------
(***************************************************************************)
(* First the gate alone: its accounting, its queues and its use of the     *)
(* slots, for any number of keys and acquisitions, any limits and any      *)
(* queue bounds.  Then the request handlers, which use the gate as its     *)
(* specification allows: each of their steps is a step of the gate or      *)
(* leaves it alone.  What is proved of the gate thus holds of the server,  *)
(* for any requests, keys, limits and interleavings of handlers, timers    *)
(* and close listeners.                                                    *)
(***************************************************************************)
EXTENDS OutboundAdmission, WaitlistProofs, FiniteSetTheorems

-----------------------------------------------------------------------------
(* The inductive invariant.  The counter is right because the queue holds  *)
(* exactly the acquisitions that wait (so a grant never counts twice), and *)
(* the gate conserves work because the counter is right and every waiter   *)
(* of an unedited key carries that key's one limit.                        *)

GateInv ==
  TypeOK /\ SlotAccounting /\ QueueAccounting /\ NoStrandedWaiter /\ WorkConserving

\* Where an acquisition waits.
LEMMA QueuePlace ==
  ASSUME TypeOK, QueueAccounting, NEW a \in Acqs, Waiting(a)
  PROVE  /\ KeyOf[a] \in Keys
         /\ waiters[KeyOf[a]] \in Seq(Acqs)
         /\ \E i \in 1 .. Len(waiters[KeyOf[a]]) : waiters[KeyOf[a]][i] = a
<1>1. KeyOf[a] \in Keys
  BY GateAssumption
<1>2. waiters[KeyOf[a]] \in Seq(Acqs)
  BY <1>1 DEF TypeOK
<1>3. \E i \in DOMAIN waiters[KeyOf[a]] : waiters[KeyOf[a]][i] = a
  BY <1>1 DEF QueueAccounting
<1> QED
  BY <1>1, <1>2, <1>3, LenProperties

\* The head of a queue is a waiter, and the rest of the queue is the others.
LEMMA QueueHead ==
  ASSUME TypeOK, QueueAccounting, NEW k \in Keys, waiters[k] # << >>
  PROVE  /\ Head(waiters[k]) \in Acqs
         /\ Head(waiters[k]) = waiters[k][1]
         /\ Waiting(Head(waiters[k]))
         /\ KeyOf[Head(waiters[k])] = k
         /\ Tail(waiters[k]) \in Seq(Acqs)
         /\ Len(Tail(waiters[k])) = Len(waiters[k]) - 1
         /\ \A i \in 1 .. Len(waiters[k]) - 1 : Tail(waiters[k])[i] = waiters[k][i + 1]
<1>1. waiters[k] \in Seq(Acqs)
  BY DEF TypeOK
<1>2. /\ Head(waiters[k]) \in Acqs
      /\ Tail(waiters[k]) \in Seq(Acqs)
      /\ Len(Tail(waiters[k])) = Len(waiters[k]) - 1
      /\ \A i \in 1 .. Len(Tail(waiters[k])) : Tail(waiters[k])[i] = waiters[k][i + 1]
  BY <1>1, HeadTailProperties
<1>3. Len(waiters[k]) \in Nat /\ Len(waiters[k]) > 0 /\ DOMAIN waiters[k] = 1 .. Len(waiters[k])
  BY <1>1, LenProperties, EmptySeq
<1>4. Head(waiters[k]) = waiters[k][1] /\ 1 \in DOMAIN waiters[k]
  BY <1>1, <1>3
<1>5. Waiting(waiters[k][1]) /\ KeyOf[waiters[k][1]] = k
  BY <1>2, <1>4 DEF QueueAccounting
<1> QED
  BY <1>2, <1>4, <1>5

\* The holders of a key are finitely many acquisitions.
LEMMA HoldersFinite == \A k \in Keys : IsFiniteSet(Holders(k)) /\ Cardinality(Holders(k)) \in Nat
<1> TAKE k \in Keys
<1>1. Holders(k) \in SUBSET Acqs
  BY DEF Holders
<1> QED
  BY <1>1, GateAssumption, FS_Subset, FS_CardinalityType

LEMMA GateInitInv == GateInit => GateInv
<1> SUFFICES ASSUME GateInit PROVE GateInv
  OBVIOUS
<1>1. TypeOK
  BY DEF GateInit, TypeOK, Phases
<1>2. SlotAccounting
  <2>1. \A k \in Keys : Holders(k) = {}
    BY DEF GateInit, Holders
  <2> QED BY <2>1, FS_EmptySet DEF GateInit, SlotAccounting
<1>3. QueueAccounting
  BY DEF GateInit, QueueAccounting, Waiting
<1>4. NoStrandedWaiter
  BY DEF GateInit, NoStrandedWaiter
<1>5. WorkConserving
  <2> SUFFICES ASSUME NEW k \in Keys, NEW n \in LimitsOf[k], n > 0
               PROVE  /\ active[k] <= n
                      /\ waiters[k] = << >>
                      /\ Len(waiters[k]) <= MaxQueueSize(n)
    BY DEF WorkConserving, Unedited
  <2>1. n \in Nat /\ n * QueueFactor \in Nat /\ MinQueue \in Nat
    BY GateAssumption
  <2>2. MaxQueueSize(n) \in Nat
    BY <2>1 DEF MaxQueueSize
  <2> QED BY <2>1, <2>2 DEF GateInit
<1> QED
  BY <1>1, <1>2, <1>3, <1>4, <1>5 DEF GateInv

-----------------------------------------------------------------------------
(* One lemma per operation.                                                *)

\* The invariant of one key, to be shown for the key an operation is about.
KeyInv(k) ==
  /\ active[k] = Cardinality(Holders(k))
  /\ \A i, j \in DOMAIN waiters[k] : waiters[k][i] = waiters[k][j] => i = j
  /\ \A b \in Acqs :
       (Waiting(b) /\ KeyOf[b] = k) <=> (\E i \in DOMAIN waiters[k] : waiters[k][i] = b)
  /\ waiters[k] # << >> => active[k] > 0
  /\ \A n \in LimitsOf[k] :
       Unedited(k, n) =>
         /\ active[k] <= n
         /\ waiters[k] # << >> => active[k] = n
         /\ Len(waiters[k]) <= MaxQueueSize(n)

LEMMA KeyByKey == GateInv <=> TypeOK /\ \A k \in Keys : KeyInv(k)
BY DEF GateInv, KeyInv, SlotAccounting, QueueAccounting, NoStrandedWaiter, WorkConserving

\* A key that a step does not touch keeps its invariant.
LEMMA OtherKeys ==
  ASSUME GateInv, NEW k \in Keys,
         active'[k] = active[k], waiters'[k] = waiters[k],
         \A b \in Acqs : KeyOf[b] = k => phase'[b] = phase[b] /\ cap'[b] = cap[b]
  PROVE  KeyInv(k)'
<1>1. Holders(k)' = Holders(k)
  BY DEF Holders
<1>2. \A n \in LimitsOf[k] : Unedited(k, n)' => Unedited(k, n)
  BY DEF Unedited
<1>3. \A b \in Acqs : KeyOf[b] = k => (Waiting(b)' <=> Waiting(b))
  BY DEF Waiting
<1>4. KeyInv(k)
  BY KeyByKey
<1>5. /\ active'[k] = Cardinality(Holders(k)')
      /\ \A i, j \in DOMAIN waiters'[k] : waiters'[k][i] = waiters'[k][j] => i = j
      /\ waiters'[k] # << >> => active'[k] > 0
  BY <1>1, <1>4 DEF KeyInv
<1>6. \A b \in Acqs :
        (Waiting(b)' /\ KeyOf[b] = k) <=> (\E i \in DOMAIN waiters'[k] : waiters'[k][i] = b)
  BY <1>3, <1>4 DEF KeyInv
<1>7. \A n \in LimitsOf[k] :
        Unedited(k, n)' =>
          /\ active'[k] <= n
          /\ waiters'[k] # << >> => active'[k] = n
          /\ Len(waiters'[k]) <= MaxQueueSize(n)
  BY <1>2, <1>4 DEF KeyInv
<1> QED
  BY <1>5, <1>6, <1>7 DEF KeyInv

\* An operation of acquisition a preserves the invariant when it preserves it
\* for a's key and touches nothing else.
LEMMA OneKey ==
  ASSUME GateInv, NEW a \in Acqs, TypeOK', KeyInv(KeyOf[a])',
         \A k \in Keys : k # KeyOf[a] => active'[k] = active[k] /\ waiters'[k] = waiters[k],
         \A b \in Acqs : KeyOf[b] # KeyOf[a] => phase'[b] = phase[b] /\ cap'[b] = cap[b]
  PROVE  GateInv'
<1>1. ASSUME NEW k \in Keys PROVE KeyInv(k)'
  <2>1. CASE k = KeyOf[a]
    BY <2>1
  <2>2. CASE k # KeyOf[a]
    <3>1. \A b \in Acqs : KeyOf[b] = k => phase'[b] = phase[b] /\ cap'[b] = cap[b]
      BY <2>2
    <3> QED
      BY <2>2, <3>1, OtherKeys
  <2> QED BY <2>1, <2>2
<1> QED
  BY <1>1 DEF GateInv, KeyInv, SlotAccounting, QueueAccounting, NoStrandedWaiter, WorkConserving

-----------------------------------------------------------------------------
(* One lemma per operation.                                                *)

\* acquire() that grants at once.
LEMMA AcquireGrantedInv ==
  ASSUME GateInv, NEW a \in Acqs, NEW limit \in LimitsOf[KeyOf[a]], AcquireGranted(a, limit)
  PROVE  GateInv'
<1> DEFINE k == KeyOf[a]
<1>1. k \in Keys /\ limit \in Nat /\ TypeOK /\ KeyInv(k)
  BY GateAssumption, KeyByKey
<1>2. TypeOK'
  BY <1>1 DEF TypeOK, AcquireGranted, Enter, Phases
<1>3. /\ active'[k] = active[k] + 1 /\ waiters' = waiters
      /\ Below(active[k], limit) /\ phase[a] = "idle"
      /\ \A b \in Acqs : phase'[b] = IF b = a THEN "granted" ELSE phase[b]
      /\ \A b \in Acqs : cap'[b] = IF b = a THEN limit ELSE cap[b]
  BY <1>1 DEF TypeOK, AcquireGranted, Enter
<1>4. active'[k] = Cardinality(Holders(k)')
  <2>1. Holders(k)' = Holders(k) \cup {a}
    BY <1>3 DEF Holders
  <2>2. a \notin Holders(k)
    BY <1>3 DEF Holders
  <2>3. IsFiniteSet(Holders(k)) /\ Cardinality(Holders(k)) = active[k]
    BY <1>1, HoldersFinite DEF KeyInv
  <2>4. Cardinality(Holders(k) \cup {a}) = active[k] + 1
    BY <2>2, <2>3, FS_AddElement
  <2> QED
    BY <1>3, <2>1, <2>4
<1>5. \A b \in Acqs :
        (Waiting(b)' /\ KeyOf[b] = k) <=> (\E i \in DOMAIN waiters'[k] : waiters'[k][i] = b)
  <2>1. \A b \in Acqs : Waiting(b)' <=> Waiting(b)
    BY <1>3 DEF Waiting
  <2> QED BY <1>1, <1>3, <2>1 DEF KeyInv
<1>6. waiters'[k] # << >> => active'[k] > 0
  BY <1>1, <1>3 DEF KeyInv, TypeOK
<1>7. ASSUME NEW n \in LimitsOf[k], Unedited(k, n)'
      PROVE  /\ active'[k] <= n
             /\ waiters'[k] # << >> => active'[k] = n
             /\ Len(waiters'[k]) <= MaxQueueSize(n)
  <2>1. limit = n /\ n > 0 /\ Unedited(k, n) /\ n \in Nat
    BY <1>1, <1>3, <1>7, GateAssumption DEF Unedited
  <2>2. active[k] < n /\ active[k] \in Nat
    BY <1>1, <1>3, <2>1 DEF Below, TypeOK
  <2> QED
    BY <1>1, <1>3, <2>1, <2>2 DEF KeyInv
<1>8. KeyInv(k)'
  BY <1>1, <1>3, <1>4, <1>5, <1>6, <1>7 DEF KeyInv
<1> QED
  BY <1>1, <1>2, <1>3, <1>8, OneKey DEF AcquireGranted, TypeOK

\* acquire() that queues.
LEMMA AcquireQueuedInv ==
  ASSUME GateInv, NEW a \in Acqs, NEW limit \in LimitsOf[KeyOf[a]], AcquireQueued(a, limit)
  PROVE  GateInv'
<1> DEFINE k == KeyOf[a]
           q == waiters[k]
<1>1. k \in Keys /\ limit \in Nat /\ TypeOK /\ KeyInv(k) /\ q \in Seq(Acqs) /\ Len(q) \in Nat
  BY GateAssumption, KeyByKey, LenProperties DEF TypeOK
<1>2. /\ Append(q, a) \in Seq(Acqs)
      /\ Append(q, a) # << >>
      /\ Len(Append(q, a)) = Len(q) + 1
      /\ \A i \in 1 .. Len(q) : Append(q, a)[i] = q[i]
      /\ Append(q, a)[Len(q) + 1] = a
  BY <1>1, AppendProperties
<1>3. /\ active' = active /\ waiters' = [waiters EXCEPT ![k] = Append(q, a)]
      /\ ~Below(active[k], limit) /\ phase[a] = "idle" /\ Len(q) < MaxQueueSize(limit)
      /\ \A b \in Acqs : phase'[b] = IF b = a THEN "waiting" ELSE phase[b]
      /\ \A b \in Acqs : cap'[b] = IF b = a THEN limit ELSE cap[b]
  BY <1>1 DEF TypeOK, AcquireQueued, Enter
<1>4. waiters'[k] = Append(q, a) /\ TypeOK'
  BY <1>1, <1>2 DEF TypeOK, AcquireQueued, Enter, Phases
<1>5. DOMAIN q = 1 .. Len(q) /\ DOMAIN waiters'[k] = 1 .. Len(q) + 1
  BY <1>1, <1>2, <1>4, LenProperties
<1>6. \A i \in DOMAIN q : q[i] # a
  BY <1>1, <1>3 DEF KeyInv, Waiting
<1>7. active'[k] = Cardinality(Holders(k)')
  <2>1. Holders(k)' = Holders(k)
    BY <1>3 DEF Holders
  <2> QED BY <1>1, <1>3, <2>1 DEF KeyInv
<1>8. \A i, j \in DOMAIN waiters'[k] : waiters'[k][i] = waiters'[k][j] => i = j
  <2>1. \A i, j \in DOMAIN q : q[i] = q[j] => i = j
    BY <1>1 DEF KeyInv
  <2> QED BY <1>1, <1>2, <1>4, <1>5, <1>6, <2>1
<1>9. ASSUME NEW b \in Acqs
      PROVE  (Waiting(b)' /\ KeyOf[b] = k) <=> (\E i \in DOMAIN waiters'[k] : waiters'[k][i] = b)
  <2>1. CASE b = a
    <3>1. Len(q) + 1 \in DOMAIN waiters'[k] /\ waiters'[k][Len(q) + 1] = a
      BY <1>1, <1>2, <1>4, <1>5
    <3>2. Waiting(a)' /\ KeyOf[a] = k
      BY <1>3 DEF Waiting
    <3> QED BY <2>1, <3>1, <3>2
  <2>2. CASE b # a
    <3>1. Waiting(b)' <=> Waiting(b)
      BY <1>3, <2>2 DEF Waiting
    <3>2. (\E i \in DOMAIN waiters'[k] : waiters'[k][i] = b) <=> (\E i \in DOMAIN q : q[i] = b)
      BY <1>1, <1>2, <1>4, <1>5, <2>2
    <3> QED BY <1>1, <3>1, <3>2 DEF KeyInv
  <2> QED BY <2>1, <2>2
<1>10. active'[k] > 0
  BY <1>1, <1>3 DEF Below, TypeOK
<1>11. ASSUME NEW n \in LimitsOf[k], Unedited(k, n)'
       PROVE  /\ active'[k] <= n
              /\ waiters'[k] # << >> => active'[k] = n
              /\ Len(waiters'[k]) <= MaxQueueSize(n)
  <2>1. limit = n /\ n > 0 /\ Unedited(k, n) /\ n \in Nat
    BY <1>1, <1>3, <1>11, GateAssumption DEF Unedited
  <2>2. active[k] <= n /\ ~(active[k] < n) /\ active[k] \in Nat
    BY <1>1, <1>3, <2>1 DEF KeyInv, Below, TypeOK
  <2>3. MaxQueueSize(n) \in Nat
    <3>1. n * QueueFactor \in Nat /\ MinQueue \in Nat
      BY <2>1, GateAssumption
    <3> QED BY <3>1 DEF MaxQueueSize
  <2>4. Len(waiters'[k]) <= MaxQueueSize(n)
    BY <1>1, <1>2, <1>3, <1>4, <2>1, <2>3
  <2> QED
    BY <1>3, <2>1, <2>2, <2>4
<1>12. KeyInv(k)'
  BY <1>7, <1>8, <1>9, <1>10, <1>11 DEF KeyInv
<1> QED
  BY <1>1, <1>3, <1>4, <1>12, OneKey DEF TypeOK

\* acquire() that rejects.
LEMMA AcquireFullInv ==
  ASSUME GateInv, NEW a \in Acqs, NEW limit \in LimitsOf[KeyOf[a]], AcquireFull(a, limit)
  PROVE  GateInv'
<1> DEFINE k == KeyOf[a]
<1>1. k \in Keys /\ limit \in Nat /\ TypeOK /\ KeyInv(k)
  BY GateAssumption, KeyByKey
<1>2. TypeOK'
  BY <1>1 DEF TypeOK, AcquireFull, Enter, Phases
<1>3. /\ active' = active /\ waiters' = waiters /\ phase[a] = "idle"
      /\ \A b \in Acqs : phase'[b] = IF b = a THEN "full" ELSE phase[b]
      /\ \A b \in Acqs : cap'[b] = IF b = a THEN limit ELSE cap[b]
  BY <1>1 DEF TypeOK, AcquireFull, Enter
<1>4. Holders(k)' = Holders(k)
  BY <1>3 DEF Holders
<1>5. \A b \in Acqs : Waiting(b)' <=> Waiting(b)
  BY <1>3 DEF Waiting
<1>6. \A n \in LimitsOf[k] : Unedited(k, n)' => Unedited(k, n)
  BY <1>3 DEF Unedited
<1>7. KeyInv(k)'
  BY <1>1, <1>3, <1>4, <1>5, <1>6 DEF KeyInv
<1> QED
  BY <1>2, <1>3, <1>7, OneKey

\* A wait that times out or is cancelled.
LEMMA FailInv ==
  ASSUME GateInv, NEW a \in Acqs, NEW outcome \in {"timedOut", "cancelled"}, Fail(a, outcome)
  PROVE  GateInv'
<1> DEFINE k == KeyOf[a]
           q == waiters[k]
<1>1. k \in Keys /\ TypeOK /\ KeyInv(k) /\ q \in Seq(Acqs) /\ Len(q) \in Nat
  BY GateAssumption, KeyByKey, LenProperties DEF TypeOK
<1>2. PICK p \in 1 .. Len(q) : q[p] = a
  BY QueuePlace DEF Fail, Waiting, GateInv
<1>3. \A i, j \in DOMAIN q : q[i] = q[j] => i = j
  BY <1>1 DEF KeyInv
<1>4. PICK t \in Seq(Acqs) :
      /\ t = Without(q, a)
      /\ Len(t) = Len(q) - 1
      /\ \A i, j \in DOMAIN t : t[i] = t[j] => i = j
      /\ \A b : (\E i \in DOMAIN t : t[i] = b) <=> (b # a /\ \E i \in DOMAIN q : q[i] = b)
  <2>1. Without(q, q[p]) \in Seq(Acqs) /\ Len(Without(q, q[p])) = Len(q) - 1
    BY <1>1, <1>3, WithoutElements
  <2>2. /\ \A i, j \in DOMAIN Without(q, q[p]) :
             Without(q, q[p])[i] = Without(q, q[p])[j] => i = j
        /\ \A b : (\E i \in DOMAIN Without(q, q[p]) : Without(q, q[p])[i] = b)
                    <=> (b # q[p] /\ \E i \in DOMAIN q : q[i] = b)
    BY <1>1, <1>3, WithoutMembers
  <2> QED BY <1>2, <2>1, <2>2
<1>5. /\ active' = active /\ cap' = cap /\ waiters' = [waiters EXCEPT ![k] = t]
      /\ phase[a] = "waiting"
      /\ \A b \in Acqs : phase'[b] = IF b = a THEN outcome ELSE phase[b]
  BY <1>1, <1>4 DEF TypeOK, Fail
<1>6. waiters'[k] = t /\ TypeOK'
  BY <1>1, <1>4 DEF TypeOK, Fail, Phases
<1>7. active'[k] = Cardinality(Holders(k)')
  <2>1. Holders(k)' = Holders(k)
    BY <1>5 DEF Holders
  <2> QED BY <1>1, <1>5, <2>1 DEF KeyInv
<1>8. ASSUME NEW b \in Acqs
      PROVE  (Waiting(b)' /\ KeyOf[b] = k) <=> (\E i \in DOMAIN t : t[i] = b)
  <2>1. Waiting(b)' <=> (Waiting(b) /\ b # a)
    BY <1>5 DEF Waiting
  <2>2. (Waiting(b) /\ KeyOf[b] = k) <=> (\E i \in DOMAIN q : q[i] = b)
    BY <1>1 DEF KeyInv
  <2> QED BY <1>4, <2>1, <2>2
<1>9. q # << >>
  BY <1>1, <1>2
<1>10. active'[k] > 0
  BY <1>1, <1>5, <1>9 DEF KeyInv
<1>11. ASSUME NEW n \in LimitsOf[k], Unedited(k, n)'
       PROVE  /\ active'[k] <= n
              /\ t # << >> => active'[k] = n
              /\ Len(t) <= MaxQueueSize(n)
  <2>1. Unedited(k, n)
    <3>1. \A b \in Acqs : phase[b] # "idle" => phase'[b] # "idle"
      BY <1>5
    <3> QED BY <1>5, <1>11, <3>1 DEF Unedited
  <2>2. active[k] <= n /\ active[k] = n /\ Len(q) <= MaxQueueSize(n)
    BY <1>1, <1>9, <2>1 DEF KeyInv
  <2>3. MaxQueueSize(n) \in Nat
    <3>1. n * QueueFactor \in Nat /\ MinQueue \in Nat
      BY <1>1, GateAssumption
    <3> QED BY <3>1 DEF MaxQueueSize
  <2>4. Len(t) <= MaxQueueSize(n)
    BY <1>1, <1>4, <2>2, <2>3
  <2> QED
    BY <1>5, <2>2, <2>4
<1>12. KeyInv(k)'
  BY <1>4, <1>6, <1>7, <1>8, <1>10, <1>11 DEF KeyInv
<1> QED
  BY <1>1, <1>5, <1>6, <1>12, OneKey DEF TypeOK

\* A release that hands the slot to the head of the queue.
LEMMA ReleaseToHeadInv ==
  ASSUME GateInv, NEW a \in Acqs, phase[a] = "granted", Release(a),
         waiters[KeyOf[a]] # << >>,
         Below(OneLess(active[KeyOf[a]]), cap[Head(waiters[KeyOf[a]])])
  PROVE  GateInv'
<1> DEFINE k == KeyOf[a]
           q == waiters[k]
<1>1. k \in Keys /\ TypeOK /\ KeyInv(k) /\ q \in Seq(Acqs) /\ Len(q) \in Nat /\ active[k] \in Nat
  BY GateAssumption, KeyByKey, LenProperties DEF TypeOK
<1>2. PICK h \in Acqs :
      /\ h = Head(q) /\ h = q[1] /\ phase[h] = "waiting" /\ KeyOf[h] = k
      /\ Tail(q) \in Seq(Acqs) /\ Len(Tail(q)) = Len(q) - 1
      /\ \A i \in 1 .. Len(q) - 1 : Tail(q)[i] = q[i + 1]
  BY <1>1, QueueHead DEF GateInv, Waiting
<1>3. a \in Holders(k) /\ IsFiniteSet(Holders(k)) /\ Cardinality(Holders(k)) = active[k]
  BY <1>1, HoldersFinite DEF Holders, KeyInv
<1>4. active[k] > 0
  BY <1>1, <1>3, FS_EmptySet
<1>5. /\ active' = [active EXCEPT ![k] = active[k]] /\ cap' = cap
      /\ waiters' = [waiters EXCEPT ![k] = Tail(q)]
      /\ phase' = [phase EXCEPT ![a] = "released", ![h] = "granted"]
  BY <1>1, <1>2, <1>4 DEF Release, DispatchNext, OneLess
<1>6. TypeOK' /\ active'[k] = active[k] /\ waiters'[k] = Tail(q)
  BY <1>1, <1>2, <1>5 DEF TypeOK, Phases
<1>7. a # h /\ \A b \in Acqs : phase'[b] = IF b = h THEN "granted"
                                       ELSE IF b = a THEN "released" ELSE phase[b]
  BY <1>1, <1>2, <1>5 DEF TypeOK
<1>8. DOMAIN q = 1 .. Len(q) /\ DOMAIN Tail(q) = 1 .. Len(q) - 1 /\ Len(q) > 0
  BY <1>1, <1>2, LenProperties, EmptySeq
<1>9. \A i, j \in DOMAIN q : q[i] = q[j] => i = j
  BY <1>1 DEF KeyInv
<1>10. active'[k] = Cardinality(Holders(k)')
  <2>1. Holders(k)' = (Holders(k) \ {a}) \cup {h}
    BY <1>2, <1>7 DEF Holders
  <2>2. h \notin Holders(k)
    BY <1>2 DEF Holders
  <2>3. /\ IsFiniteSet(Holders(k) \ {a})
        /\ Cardinality(Holders(k) \ {a}) = active[k] - 1
    BY <1>3, FS_RemoveElement
  <2>4. Cardinality((Holders(k) \ {a}) \cup {h}) = (active[k] - 1) + 1
    BY <2>2, <2>3, FS_AddElement
  <2> QED BY <1>1, <1>6, <2>1, <2>4
<1>11. \A i, j \in DOMAIN Tail(q) : Tail(q)[i] = Tail(q)[j] => i = j
  <2> SUFFICES ASSUME NEW i \in DOMAIN Tail(q), NEW j \in DOMAIN Tail(q), Tail(q)[i] = Tail(q)[j]
               PROVE i = j
    OBVIOUS
  <2>1. i + 1 \in DOMAIN q /\ j + 1 \in DOMAIN q /\ q[i + 1] = q[j + 1]
    BY <1>1, <1>2, <1>8
  <2>2. i + 1 = j + 1
    BY <1>9, <2>1
  <2> QED BY <1>1, <1>8, <2>2
<1>12. ASSUME NEW b \in Acqs
       PROVE  (Waiting(b)' /\ KeyOf[b] = k) <=> (\E i \in DOMAIN Tail(q) : Tail(q)[i] = b)
  <2>1. CASE b = h
    <3>1. ~Waiting(h)'
      BY <1>2, <1>7 DEF Waiting
    <3>2. ASSUME NEW i \in DOMAIN Tail(q) PROVE Tail(q)[i] # h
      <4>1. i + 1 \in DOMAIN q /\ i + 1 # 1 /\ Tail(q)[i] = q[i + 1] /\ 1 \in DOMAIN q
        BY <1>1, <1>2, <1>8
      <4> QED BY <1>2, <1>9, <4>1
    <3> QED BY <2>1, <3>1, <3>2
  <2>2. CASE b # h
    <3>1. Waiting(b)' <=> Waiting(b)
      BY <1>7, <2>2 DEF Waiting
    <3>2. (Waiting(b) /\ KeyOf[b] = k) <=> (\E i \in DOMAIN q : q[i] = b)
      BY <1>1 DEF KeyInv
    <3>3. ASSUME NEW i \in DOMAIN q, q[i] = b PROVE \E j \in DOMAIN Tail(q) : Tail(q)[j] = b
      <4>1. i # 1
        BY <1>2, <2>2, <3>3
      <4>2. i - 1 \in 1 .. Len(q) - 1 /\ (i - 1) + 1 = i
        BY <1>1, <1>8, <4>1
      <4> QED BY <1>2, <1>8, <3>3, <4>2
    <3>4. ASSUME NEW j \in DOMAIN Tail(q), Tail(q)[j] = b PROVE \E i \in DOMAIN q : q[i] = b
      <4>1. j + 1 \in DOMAIN q /\ q[j + 1] = b
        BY <1>1, <1>2, <1>8, <3>4
      <4> QED BY <4>1
    <3> QED BY <3>1, <3>2, <3>3, <3>4
  <2> QED BY <2>1, <2>2
<1>13. ASSUME NEW n \in LimitsOf[k], Unedited(k, n)'
       PROVE  /\ active'[k] <= n
              /\ Tail(q) # << >> => active'[k] = n
              /\ Len(Tail(q)) <= MaxQueueSize(n)
  <2>1. Unedited(k, n)
    <3>1. \A b \in Acqs : phase[b] # "idle" => phase'[b] # "idle"
      BY <1>7
    <3> QED BY <1>5, <1>13, <3>1 DEF Unedited
  <2>2. active[k] = n /\ Len(q) <= MaxQueueSize(n) /\ n \in Nat
    BY <1>1, <2>1, GateAssumption DEF KeyInv
  <2>3. MaxQueueSize(n) \in Nat
    <3>1. n * QueueFactor \in Nat /\ MinQueue \in Nat
      BY <2>2, GateAssumption
    <3> QED BY <3>1 DEF MaxQueueSize
  <2> QED
    BY <1>1, <1>2, <1>6, <2>2, <2>3
<1>14. KeyInv(k)'
  BY <1>4, <1>6, <1>10, <1>11, <1>12, <1>13 DEF KeyInv
<1> QED
  BY <1>1, <1>2, <1>5, <1>6, <1>7, <1>14, OneKey DEF TypeOK

\* A release that leaves the queue alone.
LEMMA ReleaseToNobodyInv ==
  ASSUME GateInv, NEW a \in Acqs, phase[a] = "granted", Release(a),
         ~(/\ waiters[KeyOf[a]] # << >>
           /\ Below(OneLess(active[KeyOf[a]]), cap[Head(waiters[KeyOf[a]])]))
  PROVE  GateInv'
<1> DEFINE k == KeyOf[a]
           q == waiters[k]
<1>1. k \in Keys /\ TypeOK /\ KeyInv(k) /\ q \in Seq(Acqs) /\ Len(q) \in Nat /\ active[k] \in Nat
  BY GateAssumption, KeyByKey, LenProperties DEF TypeOK
<1>2. a \in Holders(k) /\ IsFiniteSet(Holders(k)) /\ Cardinality(Holders(k)) = active[k]
  BY <1>1, HoldersFinite DEF Holders, KeyInv
<1>3. active[k] > 0
  BY <1>1, <1>2, FS_EmptySet
<1>4. OneLess(active[k]) = active[k] - 1 /\ active[k] - 1 \in Nat
  BY <1>1, <1>3 DEF OneLess
<1>5. /\ active' = [active EXCEPT ![k] = active[k] - 1] /\ cap' = cap /\ waiters' = waiters
      /\ phase' = [phase EXCEPT ![a] = "released"]
  BY <1>1, <1>4 DEF Release, DispatchNext
<1>6. TypeOK' /\ active'[k] = active[k] - 1
  BY <1>1, <1>4, <1>5 DEF TypeOK, Phases
<1>7. \A b \in Acqs : phase'[b] = IF b = a THEN "released" ELSE phase[b]
  BY <1>1, <1>5 DEF TypeOK
<1>8. active'[k] = Cardinality(Holders(k)')
  <2>1. Holders(k)' = Holders(k) \ {a}
    BY <1>7 DEF Holders
  <2>2. Cardinality(Holders(k) \ {a}) = active[k] - 1
    BY <1>2, FS_RemoveElement
  <2> QED BY <1>6, <2>1, <2>2
<1>9. \A b \in Acqs : Waiting(b)' <=> Waiting(b)
  BY <1>7 DEF Waiting
<1>10. ASSUME q # << >>
       PROVE  /\ Head(q) \in Acqs /\ KeyOf[Head(q)] = k /\ phase[Head(q)] = "waiting"
              /\ cap[Head(q)] # 0 /\ active[k] - 1 >= cap[Head(q)] /\ cap[Head(q)] \in Nat
  <2>1. Head(q) \in Acqs /\ KeyOf[Head(q)] = k /\ phase[Head(q)] = "waiting"
    BY <1>1, <1>10, QueueHead DEF GateInv, Waiting
  <2>2. ~Below(active[k] - 1, cap[Head(q)]) /\ cap[Head(q)] \in Nat
    BY <1>1, <1>4, <1>10, <2>1 DEF TypeOK
  <2> QED BY <1>1, <2>1, <2>2 DEF Below
<1>11. q # << >> => active'[k] > 0
  BY <1>1, <1>6, <1>10
<1>12. ASSUME NEW n \in LimitsOf[k], Unedited(k, n)'
       PROVE  /\ active'[k] <= n
              /\ q # << >> => active'[k] = n
              /\ Len(q) <= MaxQueueSize(n)
  <2>1. Unedited(k, n) /\ n \in Nat
    <3>1. \A b \in Acqs : phase[b] # "idle" => phase'[b] # "idle"
      BY <1>7
    <3> QED BY <1>1, <1>5, <1>12, <3>1, GateAssumption DEF Unedited
  <2>2. active[k] <= n /\ Len(q) <= MaxQueueSize(n)
    BY <1>1, <2>1 DEF KeyInv
  <2>3. q = << >>
    <3> SUFFICES ASSUME q # << >> PROVE FALSE
      OBVIOUS
    <3>1. cap[Head(q)] = n
      BY <1>10, <2>1 DEF Unedited
    <3> QED BY <1>1, <1>10, <2>1, <2>2, <3>1
  <2> QED
    BY <1>1, <1>6, <2>1, <2>2, <2>3
<1>13. KeyInv(k)'
  BY <1>1, <1>5, <1>8, <1>9, <1>11, <1>12 DEF KeyInv
<1> QED
  BY <1>1, <1>5, <1>6, <1>7, <1>13, OneKey DEF TypeOK

-----------------------------------------------------------------------------
(* The theorems.                                                           *)

LEMMA GateNextInv == GateInv /\ [GateNext]_gateVars => GateInv'
<1> SUFFICES ASSUME GateInv, [GateNext]_gateVars PROVE GateInv'
  OBVIOUS
<1>1. ASSUME NEW a \in Acqs, NEW limit \in LimitsOf[KeyOf[a]], Acquire(a, limit) PROVE GateInv'
  BY <1>1, AcquireGrantedInv, AcquireQueuedInv, AcquireFullInv DEF Acquire
<1>2. ASSUME NEW a \in Acqs, Timeout(a) PROVE GateInv'
  BY <1>2, FailInv DEF Timeout
<1>3. ASSUME NEW a \in Acqs, Cancel(a) PROVE GateInv'
  BY <1>3, FailInv DEF Cancel
<1>4. ASSUME UNCHANGED gateVars PROVE GateInv'
  BY <1>4 DEF gateVars, GateInv, TypeOK, SlotAccounting, QueueAccounting, NoStrandedWaiter,
              WorkConserving, Holders, Waiting, Unedited
<1>5. ASSUME NEW a \in Acqs, Release(a) PROVE GateInv'
  <2>1. CASE phase[a] = "granted"
    BY <1>5, <2>1, ReleaseToHeadInv, ReleaseToNobodyInv
  <2>2. CASE phase[a] # "granted"
    BY <1>4, <1>5, <2>2 DEF Release
  <2> QED BY <2>1, <2>2
<1> QED
  BY <1>1, <1>2, <1>3, <1>4, <1>5 DEF GateNext

\* Every value the gate's maps take has the shape the class declares.
THEOREM GateTypeCorrect == GateSpec => []TypeOK
<1>1. GateSpec => []GateInv
  BY GateInitInv, GateNextInv, PTL DEF GateSpec
<1>2. GateInv => TypeOK
  BY DEF GateInv
<1> QED
  BY <1>1, <1>2, PTL

\* A key's counter is the number of its slots in use and its queue the
\* acquisitions that wait, each once: no slot is leaked, freed twice or
\* granted to a waiter that has given up.
THEOREM GateAccounting == GateSpec => [](SlotAccounting /\ QueueAccounting)
<1>1. GateSpec => []GateInv
  BY GateInitInv, GateNextInv, PTL DEF GateSpec
<1>2. GateInv => SlotAccounting /\ QueueAccounting
  BY DEF GateInv
<1> QED
  BY <1>1, <1>2, PTL

\* Nobody waits on an idle key, and while its limit is not edited a key uses
\* all of it before anybody waits.
THEOREM GateConservesWork == GateSpec => [](NoStrandedWaiter /\ WorkConserving)
<1>1. GateSpec => []GateInv
  BY GateInitInv, GateNextInv, PTL DEF GateSpec
<1>2. GateInv => NoStrandedWaiter /\ WorkConserving
  BY DEF GateInv
<1> QED
  BY <1>1, <1>2, PTL

-----------------------------------------------------------------------------
(* The request handlers.                                                   *)

(* The relay acquires under the limit its request was verified with, which *)
(* is one the key may have.                                                *)
CapsKnown ==
  \A a \in Acqs : phase[a] # "idle" => cap[a] \in LimitsOf[KeyOf[a]]

AdmissionInv == GateInv /\ CapsKnown

LEMMA AcqsOfRequests ==
  ASSUME NEW r \in Requests
  PROVE  /\ Routed(r) \in Acqs
         /\ Direct(r) \in Acqs
         /\ KeyOf[Routed(r)] = KeyOf[Direct(r)]
  BY AdmissionAssumption DEF Routed, Direct

\* A step of the gate keeps the limits known.
LEMMA GateKeepsCaps ==
  ASSUME AdmissionInv, [GateNext]_gateVars
  PROVE  CapsKnown'
<1>1. CASE UNCHANGED gateVars
  BY <1>1 DEF AdmissionInv, CapsKnown, gateVars
<1>2. CASE GateNext
  <2> PICK a \in Acqs : \/ \E limit \in LimitsOf[KeyOf[a]] : Acquire(a, limit)
                        \/ Timeout(a)
                        \/ Cancel(a)
                        \/ Release(a)
    BY <1>2 DEF GateNext
  <2>1. ASSUME NEW limit \in LimitsOf[KeyOf[a]], Acquire(a, limit)
        PROVE  CapsKnown'
    BY <2>1 DEF AdmissionInv, GateInv, TypeOK, CapsKnown, Acquire, AcquireGranted,
                AcquireQueued, AcquireFull, Enter
  <2>2. CASE Timeout(a) \/ Cancel(a)
    BY <2>2 DEF AdmissionInv, GateInv, TypeOK, CapsKnown, Timeout, Cancel, Fail
  <2>3. CASE Release(a)
    <3>1. CASE UNCHANGED gateVars
      BY <3>1 DEF AdmissionInv, CapsKnown, gateVars
    <3>2. CASE /\ phase[a] = "granted"
               /\ DispatchNext(KeyOf[a], a, OneLess(active[KeyOf[a]]))
               /\ UNCHANGED cap
      <4> DEFINE queue == waiters[KeyOf[a]]
      <4>1. KeyOf[a] \in Keys /\ phase \in [Acqs -> Phases]
        BY GateAssumption DEF AdmissionInv, GateInv, TypeOK
      <4>2. queue # << >> => Head(queue) \in Acqs /\ phase[Head(queue)] # "idle"
        BY <4>1, QueueHead DEF AdmissionInv, GateInv, Waiting
      <4>3. \A b \in Acqs : phase'[b] # "idle" => phase[b] # "idle"
        BY <3>2, <4>1, <4>2 DEF DispatchNext
      <4> QED
        BY <3>2, <4>3 DEF AdmissionInv, CapsKnown
    <3> QED
      BY <2>3, <3>1, <3>2 DEF Release
  <2> QED
    BY <2>1, <2>2, <2>3
<1> QED
  BY <1>1, <1>2

-----------------------------------------------------------------------------
(* Each step of a handler, a timer or a listener.                          *)

\* A call of acquire() under one of the key's limits is a step of the gate.
LEMMA AcquireIsGateStep ==
  ASSUME NEW a \in Acqs, NEW limit \in LimitsOf[KeyOf[a]], Acquire(a, limit)
  PROVE  [GateNext]_gateVars
  BY DEF GateNext

LEMMA HandleIsGateStep ==
  ASSUME AdmissionInv, NEW r \in Requests, Handle(r)
  PROVE  [GateNext]_gateVars
<1> USE AcqsOfRequests
<1>1. CASE EnterRouted(r)
  <2> PICK limit \in LimitsOf[KeyOf[Routed(r)]] \ {0} : Acquire(Routed(r), limit)
    BY <1>1 DEF EnterRouted
  <2> QED
    BY AcquireIsGateStep
<1>2. CASE Finally(r)
  BY <1>2 DEF Finally, GateNext
<1>3. CASE EnterRelay(r)
  <2>1. CASE UNCHANGED gateVars
    BY <2>1
  <2>2. CASE \E limit \in IF Nested(r) THEN {cap[Routed(r)]}
                                      ELSE LimitsOf[KeyOf[Routed(r)]] \ {0} :
               Acquire(Direct(r), limit)
    <3> PICK limit \in IF Nested(r) THEN {cap[Routed(r)]}
                                    ELSE LimitsOf[KeyOf[Routed(r)]] \ {0} :
               Acquire(Direct(r), limit)
      BY <2>2
    <3>1. Nested(r) => cap[Routed(r)] \in LimitsOf[KeyOf[Routed(r)]]
      BY DEF Nested, AdmissionInv, CapsKnown
    <3>2. limit \in LimitsOf[KeyOf[Direct(r)]]
      BY <3>1
    <3> QED
      BY <3>2, AcquireIsGateStep
  <2> QED
    BY <1>3, <2>1, <2>2 DEF EnterRelay
<1>4. CASE \/ EnterDirect(r) \/ Refuse(r) \/ ResumeRouted(r) \/ BodyRead(r)
           \/ DispatchEnds(r) \/ ResumeDirect(r) \/ RelayEnds(r)
  BY <1>4 DEF EnterDirect, Refuse, ResumeRouted, BodyRead, DispatchEnds,
              ResumeDirect, RelayEnds
<1> QED
  BY <1>1, <1>2, <1>3, <1>4 DEF Handle

LEMMA ListenerIsGateStep ==
  ASSUME AdmissionInv, AdmissionTypeOK, CallListener
  PROVE  [GateNext]_gateVars
<1>1. Head(turn) \in Listeners
  BY HeadTailProperties DEF AdmissionTypeOK, CallListener
<1>2. Head(turn).acq \in Acqs
  BY <1>1 DEF Listeners
<1>3. CASE Head(turn).kind = "release"
  BY <1>2, <1>3 DEF CallListener, GateNext
<1>4. CASE Head(turn).kind = "cancel"
  BY <1>2, <1>4 DEF CallListener, GateNext
<1> QED
  BY <1>1, <1>3, <1>4 DEF Listeners

LEMMA AdmissionIsGateStep ==
  ASSUME AdmissionInv, AdmissionTypeOK, [AdmissionNext]_vars
  PROVE  [GateNext]_gateVars
<1>1. CASE UNCHANGED vars
  BY <1>1 DEF vars
<1>2. ASSUME NEW r \in Requests, Handle(r) PROVE [GateNext]_gateVars
  BY <1>2, HandleIsGateStep
<1>3. ASSUME NEW r \in Requests, Close(r) PROVE [GateNext]_gateVars
  BY <1>3 DEF Close
<1>4. ASSUME NEW a \in Acqs, WaitTimeout(a) PROVE [GateNext]_gateVars
  BY <1>4 DEF WaitTimeout, GateNext
<1>5. CASE CallListener
  BY <1>5, ListenerIsGateStep
<1> QED
  BY <1>1, <1>2, <1>3, <1>4, <1>5 DEF AdmissionNext

-----------------------------------------------------------------------------
(* What the handlers' own variables hold: a listener is that of an         *)
(* acquisition, which is why a 'close' emission is a run of gate steps.    *)

WireTypeOK ==
  /\ pc \in [Requests -> PCs]
  /\ conn \in [Requests -> {"open", "closed"}]
  /\ onClose \in [Requests -> Seq(Listeners)]
  /\ turn \in Seq(Listeners)

LEMMA ListenerType ==
  ASSUME NEW a \in Acqs, NEW kind \in {"cancel", "release"}
  PROVE  Listener(kind, a) \in Listeners
  BY DEF Listener, Listeners

LEMMA OthersType ==
  ASSUME WireTypeOK, NEW r \in Requests, NEW a
  PROVE  Others(r, a) \in Seq(Listeners)
<1>1. onClose[r] \in Seq(Listeners)
  BY DEF WireTypeOK
<1> QED
  BY <1>1, WithoutType DEF Others

LEMMA BindType ==
  ASSUME WireTypeOK, NEW r \in Requests, NEW listeners \in Seq(Listeners), Bind(r, listeners)
  PROVE  onClose' \in [Requests -> Seq(Listeners)]
<1>1. << >> \in Seq(Listeners)
  BY EmptySeq
<1> QED
  BY <1>1 DEF WireTypeOK, Bind

LEMMA GotoType ==
  ASSUME WireTypeOK, NEW r \in Requests, NEW l \in PCs, Goto(r, l)
  PROVE  pc' \in [Requests -> PCs]
  BY DEF WireTypeOK, Goto

LEMMA AwaitGrantType ==
  ASSUME WireTypeOK, NEW r \in Requests, NEW a \in Acqs, NEW l \in PCs, AwaitGrant(r, a, l)
  PROVE  WireTypeOK'
<1>1. Append(onClose[r], Listener("cancel", a)) \in Seq(Listeners)
  BY ListenerType, AppendProperties DEF WireTypeOK
<1> QED
  BY <1>1, BindType, GotoType DEF AwaitGrant, WireTypeOK

LEMMA ReadBodyType ==
  ASSUME WireTypeOK, NEW r \in Requests, ReadBody(r)
  PROVE  pc' \in [Requests -> PCs]
  BY GotoType DEF ReadBody, PCs

LEMMA HandleKeepsTypes ==
  ASSUME WireTypeOK, NEW r \in Requests, Handle(r)
  PROVE  WireTypeOK'
<1>1. Routed(r) \in Acqs /\ Direct(r) \in Acqs
  BY AcqsOfRequests
<1> DEFINE Rest(a) == Append(Others(r, a), Listener("release", a))
<1>2. \A a \in Acqs : Others(r, a) \in Seq(Listeners) /\ Rest(a) \in Seq(Listeners)
  BY OthersType, ListenerType, AppendProperties
<1>3. CASE EnterRouted(r) \/ EnterRelay(r)
  BY <1>1, <1>3, AwaitGrantType DEF EnterRouted, EnterRelay, WireTypeOK, Goto, PCs
<1>4. CASE EnterDirect(r) \/ Refuse(r) \/ BodyRead(r) \/ DispatchEnds(r) \/ Finally(r) \/ RelayEnds(r)
  BY <1>4 DEF EnterDirect, Refuse, BodyRead, DispatchEnds, Finally, RelayEnds, WireTypeOK, Goto, PCs
<1>5. CASE ResumeRouted(r)
  <2>1. Bind(r, Others(r, Routed(r))) \/ Bind(r, Rest(Routed(r)))
    BY <1>5 DEF ResumeRouted
  <2>2. ReadBody(r) \/ Goto(r, "done")
    BY <1>5 DEF ResumeRouted
  <2>3. onClose' \in [Requests -> Seq(Listeners)]
    BY <1>1, <1>2, <2>1, BindType
  <2>4. pc' \in [Requests -> PCs]
    BY <2>2, ReadBodyType, GotoType DEF PCs
  <2> QED
    BY <1>5, <2>3, <2>4 DEF ResumeRouted, WireTypeOK
<1>6. CASE ResumeDirect(r)
  <2>1. Bind(r, Others(r, Direct(r))) \/ Bind(r, Rest(Direct(r)))
    BY <1>6 DEF ResumeDirect
  <2>2. ReadBody(r) \/ Goto(r, "relay") \/ Goto(r, "finally")
    BY <1>6 DEF ResumeDirect
  <2>3. onClose' \in [Requests -> Seq(Listeners)]
    BY <1>1, <1>2, <2>1, BindType
  <2>4. pc' \in [Requests -> PCs]
    BY <2>2, ReadBodyType, GotoType DEF PCs
  <2> QED
    BY <1>6, <2>3, <2>4 DEF ResumeDirect, WireTypeOK
<1> QED
  BY <1>3, <1>4, <1>5, <1>6 DEF Handle

LEMMA AdmissionKeepsTypes ==
  ASSUME WireTypeOK, [AdmissionNext]_vars
  PROVE  WireTypeOK'
<1>1. CASE UNCHANGED vars
  BY <1>1 DEF vars, wireVars, WireTypeOK
<1>2. ASSUME NEW r \in Requests, Handle(r) PROVE WireTypeOK'
  BY <1>2, HandleKeepsTypes
<1>3. ASSUME NEW r \in Requests, Close(r) PROVE WireTypeOK'
  BY <1>3, EmptySeq DEF Close, WireTypeOK
<1>4. ASSUME NEW a \in Acqs, WaitTimeout(a) PROVE WireTypeOK'
  BY <1>4 DEF WaitTimeout, wireVars, WireTypeOK
<1>5. CASE CallListener
  BY <1>5, HeadTailProperties DEF CallListener, WireTypeOK
<1> QED
  BY <1>1, <1>2, <1>3, <1>4, <1>5 DEF AdmissionNext

-----------------------------------------------------------------------------
(* The server implements the gate's specification.                         *)

LEMMA AdmissionInvInit == AdmissionInit => AdmissionInv /\ WireTypeOK
  BY GateInitInv, EmptySeq
     DEF AdmissionInit, AdmissionInv, CapsKnown, GateInit, WireTypeOK, PCs

LEMMA AdmissionInvStep ==
  ASSUME AdmissionInv, WireTypeOK, [AdmissionNext]_vars
  PROVE  AdmissionInv' /\ WireTypeOK' /\ [GateNext]_gateVars
<1>1. AdmissionTypeOK
  BY DEF AdmissionTypeOK, AdmissionInv, GateInv, WireTypeOK
<1>2. [GateNext]_gateVars
  BY <1>1, AdmissionIsGateStep
<1> QED
  BY <1>2, AdmissionKeepsTypes, GateKeepsCaps, GateNextInv DEF AdmissionInv

LEMMA AdmissionInvAlways == AdmissionSpec => [](AdmissionInv /\ WireTypeOK)
<1>1. (AdmissionInv /\ WireTypeOK) /\ [AdmissionNext]_vars => (AdmissionInv /\ WireTypeOK)'
  BY AdmissionInvStep
<1> QED
  BY <1>1, AdmissionInvInit, PTL DEF AdmissionSpec

\* The server's state is what its variables are meant to hold, and a pending
\* 'close' emission holds listeners of acquisitions only.
THEOREM AdmissionTypeCorrect == AdmissionSpec => []AdmissionTypeOK
<1>1. AdmissionInv /\ WireTypeOK => AdmissionTypeOK
  BY DEF AdmissionTypeOK, AdmissionInv, GateInv, WireTypeOK
<1> QED
  BY <1>1, AdmissionInvAlways, PTL

\* Every behaviour of the request handlers, timers and close listeners is a
\* behaviour of the gate as it is specified alone.
THEOREM AdmissionUsesGate == AdmissionSpec => GateSpec
<1>1. AdmissionInit => GateInit
  BY DEF AdmissionInit
<1>2. (AdmissionInv /\ WireTypeOK) /\ [AdmissionNext]_vars => [GateNext]_gateVars
  BY AdmissionInvStep
<1> QED
  BY <1>1, <1>2, AdmissionInvAlways, PTL DEF AdmissionSpec, GateSpec

\* In the server the counter of a key is its holders, its queue the requests
\* that wait, nobody waits when nobody holds, and a request waits only while
\* every slot of an unedited limit is held.
THEOREM AdmissionSafe ==
  AdmissionSpec => [](SlotAccounting /\ QueueAccounting /\ NoStrandedWaiter /\ WorkConserving)
  BY AdmissionUsesGate, GateAccounting, GateConservesWork, PTL

-----------------------------------------------------------------------------
(* What a step of the gate does to an acquisition.                         *)

LEMMA AcquireMoves ==
  ASSUME GateInv, NEW a \in Acqs, NEW limit, Acquire(a, limit)
  PROVE  /\ phase[a] = "idle" /\ phase'[a] \in {"granted", "waiting", "full"}
         /\ cap'[a] = limit
         /\ \A b \in Acqs : b # a => phase'[b] = phase[b] /\ cap'[b] = cap[b]
         /\ phase'[a] = "granted" => Below(active[KeyOf[a]], limit) /\ UNCHANGED waiters
  BY DEF GateInv, TypeOK, Acquire, AcquireGranted, AcquireQueued, AcquireFull, Enter

LEMMA FailMoves ==
  ASSUME GateInv, NEW a \in Acqs, NEW outcome, Fail(a, outcome)
  PROVE  /\ phase[a] = "waiting" /\ phase'[a] = outcome
         /\ \A b \in Acqs : b # a => phase'[b] = phase[b]
  BY DEF GateInv, TypeOK, Fail

\* A release changes nobody else, but for the head of the key's queue.
LEMMA ReleaseMoves ==
  ASSUME GateInv, NEW a \in Acqs, Release(a)
  PROVE  /\ phase[a] \in {"granted", "released"} /\ phase'[a] = "released"
         /\ \A b \in Acqs : b # a /\ phase'[b] # phase[b] =>
              /\ phase[b] = "waiting" /\ phase'[b] = "granted"
              /\ waiters[KeyOf[b]] # << >> /\ b = Head(waiters[KeyOf[b]])
<1> DEFINE k == KeyOf[a]
<1>1. CASE phase[a] = "released" /\ UNCHANGED gateVars
  BY <1>1 DEF gateVars
<1>2. CASE /\ phase[a] = "granted"
           /\ DispatchNext(k, a, OneLess(active[k]))
  <2>1. k \in Keys /\ phase \in [Acqs -> Phases]
    BY GateAssumption DEF GateInv, TypeOK
  <2>2. CASE waiters[k] = << >> \/ ~Below(OneLess(active[k]), cap[Head(waiters[k])])
    BY <1>2, <2>1, <2>2 DEF DispatchNext
  <2>3. CASE waiters[k] # << >> /\ Below(OneLess(active[k]), cap[Head(waiters[k])])
    <3>1. /\ Head(waiters[k]) \in Acqs /\ phase[Head(waiters[k])] = "waiting"
          /\ KeyOf[Head(waiters[k])] = k
      BY <2>1, <2>3, QueueHead DEF GateInv, Waiting
    <3>2. phase' = [phase EXCEPT ![a] = "released", ![Head(waiters[k])] = "granted"]
      BY <1>2, <2>3 DEF DispatchNext
    <3> QED
      BY <1>2, <2>1, <2>3, <3>1, <3>2
  <2> QED
    BY <2>2, <2>3
<1> QED
  BY <1>1, <1>2 DEF Release

\* An unedited key stays so, seen backwards.
LEMMA UneditedBefore ==
  ASSUME NEW k, NEW n, Unedited(k, n)',
         \A b \in Acqs : phase[b] # "idle" => phase'[b] # "idle" /\ cap'[b] = cap[b]
  PROVE  Unedited(k, n)
  BY DEF Unedited

LEMMA GateInOrder ==
  ASSUME GateInv, [GateNext]_gateVars
  PROVE  InOrder
<1> SUFFICES ASSUME NEW a \in Acqs, NEW n \in LimitsOf[KeyOf[a]], Unedited(KeyOf[a], n)',
                    phase[a] # "granted", phase'[a] = "granted"
             PROVE  IF Waiting(a) THEN a = Head(waiters[KeyOf[a]]) ELSE waiters[KeyOf[a]] = << >>
  BY DEF InOrder
<1>1. CASE UNCHANGED gateVars
  BY <1>1 DEF gateVars
<1>2. ASSUME NEW b \in Acqs, NEW limit \in LimitsOf[KeyOf[b]], Acquire(b, limit)
      PROVE  ~Waiting(a) /\ waiters[KeyOf[a]] = << >>
  <2>1. a = b /\ phase[a] = "idle" /\ Below(active[KeyOf[a]], limit) /\ cap'[a] = limit
    BY <1>2, AcquireMoves
  <2>2. limit = n /\ n > 0 /\ n \in Nat /\ KeyOf[a] \in Keys /\ active[KeyOf[a]] \in Nat
    BY <2>1, GateAssumption DEF Unedited, GateInv, TypeOK
  <2>3. Unedited(KeyOf[a], n)
    BY <1>2, <2>1, AcquireMoves, UneditedBefore
  <2>4. active[KeyOf[a]] < n
    BY <2>1, <2>2 DEF Below
  <2> QED
    BY <2>1, <2>2, <2>3, <2>4 DEF GateInv, WorkConserving, Waiting
<1>3. ASSUME NEW b \in Acqs, Timeout(b) \/ Cancel(b)
      PROVE  FALSE
  BY <1>3, FailMoves DEF Timeout, Cancel
<1>4. ASSUME NEW b \in Acqs, Release(b)
      PROVE  Waiting(a) /\ a = Head(waiters[KeyOf[a]])
  BY <1>4, ReleaseMoves DEF Waiting
<1> QED
  BY <1>1, <1>2, <1>3, <1>4 DEF GateNext

\* While a key's limit is not edited its slots go out first come, first
\* served: to the head of the queue, and to a newcomer only with no queue.
THEOREM AdmissionInOrder == AdmissionSpec => GrantsInOrder
<1>1. (AdmissionInv /\ WireTypeOK) /\ [AdmissionNext]_vars => [InOrder]_vars
  BY AdmissionInvStep, GateInOrder DEF AdmissionInv
<1> QED
  BY <1>1, AdmissionInvAlways, PTL DEF AdmissionSpec, GrantsInOrder

-----------------------------------------------------------------------------
(* Where a handler is tells what its two acquisitions may be.              *)

Held == {"granted", "released"}
Ended == {"full", "timedOut", "cancelled"}

HandlerAt(r) ==
  LET routed == phase[Routed(r)]
      direct == phase[Direct(r)]
  IN
  /\ pc[r] = "auth" => routed = "idle" /\ direct = "idle"
  /\ pc[r] = "routedWait" => routed # "idle" /\ direct = "idle"
  /\ pc[r] = "body" =>
       \/ routed \in Held /\ direct = "idle"
       \/ routed = "idle" /\ direct \in Held
  /\ pc[r] = "dispatch" => routed \in Held /\ direct = "idle"
  /\ pc[r] = "provider" => routed \in Held \cup {"idle"} /\ direct = "idle"
  /\ pc[r] = "directWait" => routed \in Held \cup {"idle"} /\ direct # "idle"
  /\ pc[r] = "relay" => routed \in Held \cup {"idle"} /\ direct \in Held
  /\ pc[r] = "finally" => routed \in Held \cup {"idle"} /\ direct # "waiting"
  /\ pc[r] = "hung" => routed # "waiting" /\ direct # "waiting"
  /\ pc[r] = "done" => routed \notin {"granted", "waiting"} /\ direct # "waiting"

\* The release of an acquisition is bound to 'close', or its wait goes on.
Covered(r, a, l) ==
  phase[a] = "granted" /\ conn[r] = "open" =>
    pc[r] = l \/ Queued(onClose[r], Listener("release", a))

SlotsCovered(r) ==
  Covered(r, Routed(r), "routedWait") /\ Covered(r, Direct(r), "directWait")

HandlersInv == \A r \in Requests : HandlerAt(r) /\ SlotsCovered(r)

LEMMA TwoAcqs ==
  ASSUME NEW r \in Requests, NEW s \in Requests
  PROVE  /\ Routed(r) # Direct(s)
         /\ Routed(r) = Routed(s) => r = s
         /\ Direct(r) = Direct(s) => r = s
  BY DEF Routed, Direct

\* What a gate step may do to the acquisitions of a request that does not
\* take it: a waiter is settled, a holder gives back.
Drifts(a) ==
  \/ phase'[a] = phase[a]
  \/ phase[a] = "waiting" /\ phase'[a] # "idle"
  \/ phase[a] \in Held /\ phase'[a] = "released"

LEMMA DriftKeeps ==
  ASSUME NEW r \in Requests, pc[r] \in PCs, HandlerAt(r), SlotsCovered(r),
         Drifts(Routed(r)), Drifts(Direct(r)),
         pc'[r] = pc[r], conn'[r] = conn[r], onClose'[r] = onClose[r]
  PROVE  HandlerAt(r)' /\ SlotsCovered(r)'
<1> DEFINE a == Routed(r)
           b == Direct(r)
<1> HIDE DEF a, b
<1>1. HandlerAt(r)'
  BY DEF HandlerAt, Drifts, Held, a, b
<1>2. SlotsCovered(r)'
  <2>1. phase[Routed(r)] = "waiting" => pc[r] = "routedWait"
    BY DEF HandlerAt, PCs, Held
  <2>2. phase[Direct(r)] = "waiting" => pc[r] = "directWait"
    BY DEF HandlerAt, PCs, Held
  <2>3. phase'[Routed(r)] = "granted" => phase[Routed(r)] \in {"granted", "waiting"}
    BY DEF Drifts, Held
  <2>4. phase'[Direct(r)] = "granted" => phase[Direct(r)] \in {"granted", "waiting"}
    BY DEF Drifts, Held
  <2> QED
    BY <2>1, <2>2, <2>3, <2>4 DEF SlotsCovered, Covered
<1> QED BY <1>1, <1>2

(* Every gate step lets everybody else drift, and a settling of a waiter   *)
(* or a release also its own acquisition.                                  *)
LEMMA AcquireDrifts ==
  ASSUME GateInv, NEW a \in Acqs, NEW limit, Acquire(a, limit), NEW b \in Acqs, b # a
  PROVE  Drifts(b)
  BY AcquireMoves DEF Drifts

LEMMA ReleaseDrifts ==
  ASSUME GateInv, NEW a \in Acqs, Release(a), NEW b \in Acqs
  PROVE  Drifts(b)
  BY ReleaseMoves DEF Drifts, Held

LEMMA FailDrifts ==
  ASSUME GateInv, NEW a \in Acqs, Timeout(a) \/ Cancel(a), NEW b \in Acqs
  PROVE  Drifts(b)
  BY FailMoves DEF Timeout, Cancel, Drifts

-----------------------------------------------------------------------------
(* The listeners of a response.                                            *)

\* Adding one keeps the others.
LEMMA AppendKeeps ==
  ASSUME NEW S, NEW s \in Seq(S), NEW x \in S
  PROVE  Queued(Append(s, x), x) /\ \A y : Queued(s, y) => Queued(Append(s, x), y)
  BY AppendProperties, LenProperties DEF Queued

\* A listener bound to an open response, and those that were.
LEMMA BoundListeners ==
  ASSUME WireTypeOK, NEW r \in Requests, NEW a \in Acqs, NEW kind \in {"cancel", "release"}
  PROVE  /\ Others(r, a) \in Seq(Listeners)
         /\ \A y : y # Listener("cancel", a) /\ Queued(onClose[r], y) => Queued(Others(r, a), y)
         /\ \A s \in Seq(Listeners) :
              /\ Queued(Append(s, Listener(kind, a)), Listener(kind, a))
              /\ \A y : Queued(s, y) => Queued(Append(s, Listener(kind, a)), y)
<1>1. onClose[r] \in Seq(Listeners)
  BY DEF WireTypeOK
<1>2. Others(r, a) \in Seq(Listeners)
  BY OthersType
<1>3. \A y : y # Listener("cancel", a) /\ Queued(onClose[r], y) => Queued(Others(r, a), y)
  BY <1>1, WithoutKeeps DEF Others
<1>4. \A s \in Seq(Listeners) :
        /\ Queued(Append(s, Listener(kind, a)), Listener(kind, a))
        /\ \A y : Queued(s, y) => Queued(Append(s, Listener(kind, a)), y)
  BY ListenerType, AppendKeeps
<1> QED
  BY <1>2, <1>3, <1>4

LEMMA ListenersDiffer ==
  ASSUME NEW r \in Requests, NEW a, NEW b
  PROVE  Listener("release", a) # Listener("cancel", b)
  BY DEF Listener

\* What binding does to one response, and to the others.
LEMMA BindHere ==
  ASSUME WireTypeOK, NEW r \in Requests, NEW listeners, Bind(r, listeners)
  PROVE  /\ conn[r] = "open" => onClose'[r] = listeners
         /\ \A s \in Requests : s # r => onClose'[s] = onClose[s]
  BY DEF WireTypeOK, Bind

LEMMA GotoHere ==
  ASSUME WireTypeOK, NEW r \in Requests, NEW l, Goto(r, l)
  PROVE  pc'[r] = l /\ \A s \in Requests : s # r => pc'[s] = pc[s]
  BY DEF WireTypeOK, Goto

-----------------------------------------------------------------------------
(* Each step of a handler keeps its own part of the invariant ...          *)

\* A handler that goes on with its acquisitions and listeners as they are,
\* from where it does not wait.
LEMMA GoesOn ==
  ASSUME HandlersInv, WireTypeOK, NEW r \in Requests, NEW l, Goto(r, l),
         UNCHANGED <<gateVars, conn, onClose>>,
         pc[r] \notin {"routedWait", "directWait"}
  PROVE  /\ SlotsCovered(r)'
         /\ \A s \in Requests : s # r => HandlerAt(s)' /\ SlotsCovered(s)'
         /\ pc'[r] = l
<1>1. HandlerAt(r) /\ SlotsCovered(r) /\ phase' = phase
  BY DEF HandlersInv, gateVars
<1>2. pc'[r] = l /\ \A s \in Requests : s # r => pc'[s] = pc[s]
  BY GotoHere
<1>3. SlotsCovered(r)'
  BY <1>1, <1>2 DEF SlotsCovered, Covered
<1>4. ASSUME NEW s \in Requests, s # r PROVE HandlerAt(s)' /\ SlotsCovered(s)'
  BY <1>1, <1>2, <1>4 DEF HandlersInv, HandlerAt, SlotsCovered, Covered
<1> QED
  BY <1>2, <1>3, <1>4

LEMMA PlainStep ==
  ASSUME HandlersInv, WireTypeOK, NEW r \in Requests,
         \/ Refuse(r) \/ EnterDirect(r) \/ BodyRead(r) \/ DispatchEnds(r) \/ RelayEnds(r)
         \/ pc[r] = "provider" /\ Goto(r, "finally") /\ UNCHANGED <<gateVars, conn, onClose, turn>>
  PROVE  HandlersInv'
<1> DEFINE routed == phase[Routed(r)]
           direct == phase[Direct(r)]
<1>1. HandlerAt(r) /\ phase' = phase
  BY DEF HandlersInv, Refuse, EnterDirect, BodyRead, DispatchEnds, RelayEnds, gateVars
<1>2. PICK l : /\ Goto(r, l) /\ UNCHANGED <<gateVars, conn, onClose>>
               /\ pc[r] \notin {"routedWait", "directWait"}
               /\ \/ pc[r] = "auth" /\ l \in {"done", "provider"}
                  \/ pc[r] = "body" /\ Nested(r) /\ l \in {"dispatch", "provider", "finally"}
                  \/ pc[r] = "body" /\ ~Nested(r) /\ l \in {"relay", "finally"}
                  \/ pc[r] \in {"dispatch", "provider", "relay"} /\ l = "finally"
  <2>1. CASE Refuse(r) \/ EnterDirect(r) \/ DispatchEnds(r) \/ RelayEnds(r)
    BY <2>1 DEF Refuse, EnterDirect, DispatchEnds, RelayEnds
  <2>2. CASE pc[r] = "provider" /\ Goto(r, "finally") /\ UNCHANGED <<gateVars, conn, onClose, turn>>
    BY <2>2
  <2>3. CASE BodyRead(r)
    <3>1. pc[r] = "body" /\ UNCHANGED <<gateVars, conn, onClose>>
      BY <2>3 DEF BodyRead
    <3>2. \/ Nested(r) /\ Goto(r, "dispatch")
          \/ Nested(r) /\ Goto(r, "provider")
          \/ ~Nested(r) /\ Goto(r, "relay")
          \/ Goto(r, "finally")
      BY <2>3 DEF BodyRead
    <3> QED
      BY <3>1, <3>2
  <2> QED
    BY <2>1, <2>2, <2>3
<1>3. /\ SlotsCovered(r)' /\ pc'[r] = l
      /\ \A s \in Requests : s # r => HandlerAt(s)' /\ SlotsCovered(s)'
  BY <1>2, GoesOn
<1>4. HandlerAt(r)'
  BY <1>1, <1>2, <1>3 DEF HandlerAt, Nested, Held
<1> QED
  BY <1>3, <1>4 DEF HandlersInv

\* A step that takes one handler on and lets the others' acquisitions drift.
LEMMA OneHandler ==
  ASSUME HandlersInv, WireTypeOK, NEW r \in Requests, HandlerAt(r)', SlotsCovered(r)',
         \A s \in Requests : s # r =>
           /\ Drifts(Routed(s)) /\ Drifts(Direct(s))
           /\ pc'[s] = pc[s] /\ conn'[s] = conn[s] /\ onClose'[s] = onClose[s]
  PROVE  HandlersInv'
<1>1. ASSUME NEW s \in Requests, s # r PROVE HandlerAt(s)' /\ SlotsCovered(s)'
  BY <1>1, DriftKeeps DEF HandlersInv, WireTypeOK
<1> QED
  BY <1>1 DEF HandlersInv

\* ... and one that takes none on.
LEMMA AllDrift ==
  ASSUME HandlersInv, WireTypeOK, UNCHANGED <<pc, conn, onClose>>, \A a \in Acqs : Drifts(a)
  PROVE  HandlersInv'
<1>1. ASSUME NEW s \in Requests PROVE HandlerAt(s)' /\ SlotsCovered(s)'
  BY <1>1, DriftKeeps, AcqsOfRequests DEF HandlersInv, WireTypeOK
<1> QED
  BY <1>1 DEF HandlersInv

LEMMA EnterRoutedKeeps ==
  ASSUME HandlersInv, GateInv, WireTypeOK, NEW r \in Requests, EnterRouted(r)
  PROVE  HandlersInv'
<1>1. PICK limit : Acquire(Routed(r), limit)
  BY DEF EnterRouted
<1>2. /\ pc[r] = "auth" /\ conn' = conn
      /\ pc'[r] = "routedWait" /\ \A s \in Requests : s # r => pc'[s] = pc[s]
      /\ \A s \in Requests : s # r => onClose'[s] = onClose[s]
  BY GotoHere, BindHere DEF EnterRouted, AwaitGrant
<1>3. /\ phase'[Routed(r)] # "idle" /\ phase'[Direct(r)] = phase[Direct(r)]
      /\ \A s \in Requests : s # r => Drifts(Routed(s)) /\ Drifts(Direct(s))
  BY <1>1, AcqsOfRequests, TwoAcqs, AcquireMoves, AcquireDrifts
<1>4. phase[Direct(r)] = "idle"
  BY <1>2 DEF HandlersInv, HandlerAt
<1>5. HandlerAt(r)' /\ SlotsCovered(r)'
  BY <1>2, <1>3, <1>4 DEF HandlerAt, SlotsCovered, Covered
<1> QED
  BY <1>2, <1>3, <1>5, OneHandler

LEMMA EnterRelayKeeps ==
  ASSUME HandlersInv, GateInv, WireTypeOK, NEW r \in Requests, EnterRelay(r)
  PROVE  HandlersInv'
<1>1. CASE Goto(r, "finally") /\ UNCHANGED <<gateVars, conn, onClose, turn>>
  BY <1>1, PlainStep DEF EnterRelay
<1>2. CASE (\E limit : Acquire(Direct(r), limit)) /\ AwaitGrant(r, Direct(r), "directWait")
  <2>1. PICK limit : Acquire(Direct(r), limit)
    BY <1>2
  <2> DEFINE listeners == Append(onClose[r], Listener("cancel", Direct(r)))
  <2>2. /\ pc[r] = "provider" /\ conn' = conn
        /\ pc'[r] = "directWait" /\ \A s \in Requests : s # r => pc'[s] = pc[s]
        /\ conn[r] = "open" => onClose'[r] = listeners
        /\ \A s \in Requests : s # r => onClose'[s] = onClose[s]
    BY <1>2, GotoHere, BindHere DEF EnterRelay, AwaitGrant
  <2>3. /\ phase'[Direct(r)] # "idle" /\ phase'[Routed(r)] = phase[Routed(r)]
        /\ \A s \in Requests : s # r => Drifts(Routed(s)) /\ Drifts(Direct(s))
    BY <2>1, AcqsOfRequests, TwoAcqs, AcquireMoves, AcquireDrifts
  <2>4. HandlerAt(r) /\ SlotsCovered(r)
    BY DEF HandlersInv
  <2>5. \A y : Queued(onClose[r], y) => Queued(listeners, y)
    BY BoundListeners, AcqsOfRequests DEF WireTypeOK
  <2>6. HandlerAt(r)'
    BY <2>2, <2>3, <2>4 DEF HandlerAt
  <2> HIDE DEF listeners
  <2>7. SlotsCovered(r)'
    BY <2>2, <2>3, <2>4, <2>5 DEF SlotsCovered, Covered
  <2> QED
    BY <2>2, <2>3, <2>6, <2>7, OneHandler
<1> QED
  BY <1>1, <1>2 DEF EnterRelay

LEMMA ResumeKeeps ==
  ASSUME HandlersInv, WireTypeOK, NEW r \in Requests, ResumeRouted(r) \/ ResumeDirect(r)
  PROVE  HandlersInv'
<1> DEFINE a == IF ResumeRouted(r) THEN Routed(r) ELSE Direct(r)
           rest == Others(r, a)
           more == Append(rest, Listener("release", a))
<1>1. HandlerAt(r) /\ SlotsCovered(r) /\ phase' = phase /\ conn' = conn /\ a \in Acqs
  BY AcqsOfRequests DEF HandlersInv, ResumeRouted, ResumeDirect, gateVars
<1>2. /\ rest \in Seq(Listeners)
      /\ \A b : Queued(onClose[r], Listener("release", b)) => Queued(rest, Listener("release", b))
      /\ Queued(more, Listener("release", a))
      /\ \A y : Queued(rest, y) => Queued(more, y)
  BY <1>1, BoundListeners, ListenersDiffer
<1>3. CASE ResumeRouted(r)
  <2>1. CASE phase[a] \in Held /\ Bind(r, more) /\ ReadBody(r)
    <3>1. /\ pc'[r] \in {"body", "hung"} /\ \A s \in Requests : s # r => pc'[s] = pc[s]
          /\ conn[r] = "open" => onClose'[r] = more
          /\ \A s \in Requests : s # r => onClose'[s] = onClose[s]
      <4>1. \E l \in {"body", "hung"} : Goto(r, l)
        BY <2>1 DEF ReadBody
      <4> QED
        BY <2>1, <4>1, GotoHere, BindHere
    <3>2. pc[r] = "routedWait" /\ a = Routed(r)
      BY <1>3 DEF ResumeRouted
    <3>3. HandlerAt(r)'
      BY <1>1, <2>1, <3>1, <3>2 DEF HandlerAt, Held
    <3> HIDE DEF rest, more, a
    <3>4. SlotsCovered(r)'
      BY <1>1, <1>2, <3>1, <3>2 DEF HandlerAt, SlotsCovered, Covered
    <3> QED
      BY <1>1, <3>1, <3>3, <3>4, OneHandler DEF Drifts
  <2>2. CASE phase[a] \in Ended /\ Bind(r, rest) /\ Goto(r, "done")
    <3>1. /\ pc'[r] = "done" /\ \A s \in Requests : s # r => pc'[s] = pc[s]
          /\ \A s \in Requests : s # r => onClose'[s] = onClose[s]
      BY <2>2, GotoHere, BindHere
    <3>2. pc[r] = "routedWait" /\ a = Routed(r)
      BY <1>3 DEF ResumeRouted
    <3>3. HandlerAt(r)' /\ SlotsCovered(r)'
      BY <1>1, <2>2, <3>1, <3>2 DEF HandlerAt, SlotsCovered, Covered, Ended
    <3> QED
      BY <1>1, <3>1, <3>3, OneHandler DEF Drifts
  <2> QED
    BY <1>3, <2>1, <2>2 DEF ResumeRouted, Held, Ended
<1>4. CASE ResumeDirect(r) /\ ~ResumeRouted(r)
  <2>0. pc[r] = "directWait" /\ a = Direct(r)
    BY <1>4 DEF ResumeDirect
  <2>1. CASE /\ phase[a] \in Held /\ Bind(r, more)
             /\ IF Nested(r) THEN Goto(r, "relay") ELSE ReadBody(r)
    <3>1. /\ pc'[r] \in IF Nested(r) THEN {"relay"} ELSE {"body", "hung"}
          /\ \A s \in Requests : s # r => pc'[s] = pc[s]
          /\ conn[r] = "open" => onClose'[r] = more
          /\ \A s \in Requests : s # r => onClose'[s] = onClose[s]
      <4>1. \E l \in IF Nested(r) THEN {"relay"} ELSE {"body", "hung"} : Goto(r, l)
        BY <2>1 DEF ReadBody
      <4> QED
        BY <2>1, <4>1, GotoHere, BindHere
    <3>3. HandlerAt(r)'
      BY <1>1, <2>0, <2>1, <3>1 DEF HandlerAt, Held, Nested
    <3> HIDE DEF rest, more, a
    <3>4. SlotsCovered(r)'
      BY <1>1, <1>2, <2>0, <3>1 DEF SlotsCovered, Covered
    <3> QED
      BY <1>1, <3>1, <3>3, <3>4, OneHandler DEF Drifts
  <2>2. CASE phase[a] \in Ended /\ Bind(r, rest) /\ Goto(r, "finally")
    <3>1. /\ pc'[r] = "finally" /\ \A s \in Requests : s # r => pc'[s] = pc[s]
          /\ conn[r] = "open" => onClose'[r] = rest
          /\ \A s \in Requests : s # r => onClose'[s] = onClose[s]
      BY <2>2, GotoHere, BindHere
    <3>3. HandlerAt(r)'
      BY <1>1, <2>0, <2>2, <3>1 DEF HandlerAt, Ended, Held
    <3> HIDE DEF rest, more, a
    <3>4. SlotsCovered(r)'
      BY <1>1, <1>2, <2>0, <2>2, <3>1 DEF SlotsCovered, Covered, Ended
    <3> QED
      BY <1>1, <3>1, <3>3, <3>4, OneHandler DEF Drifts
  <2> QED
    BY <1>4, <2>0, <2>1, <2>2 DEF ResumeDirect, Held, Ended
<1> QED
  BY <1>3, <1>4

LEMMA FinallyKeeps ==
  ASSUME HandlersInv, GateInv, WireTypeOK, NEW r \in Requests, Finally(r)
  PROVE  HandlersInv'
<1>1. /\ pc[r] = "finally" /\ pc'[r] = "done" /\ \A s \in Requests : s # r => pc'[s] = pc[s]
      /\ conn' = conn /\ onClose' = onClose
      /\ HandlerAt(r) /\ SlotsCovered(r)
  BY GotoHere DEF Finally, HandlersInv
<1>2. /\ phase'[Routed(r)] \in {"idle", "released"}
      /\ phase'[Direct(r)] = "granted" => phase[Direct(r)] = "granted"
      /\ phase'[Direct(r)] # "waiting"
      /\ \A a \in Acqs : Drifts(a)
  <2>1. CASE phase[Routed(r)] \in Held /\ Release(Routed(r))
    BY <1>1, <2>1, AcqsOfRequests, TwoAcqs, ReleaseMoves, ReleaseDrifts DEF HandlerAt
  <2>2. CASE phase[Routed(r)] \notin Held /\ UNCHANGED gateVars
    BY <1>1, <2>2 DEF HandlerAt, gateVars, Drifts
  <2> QED
    BY <2>1, <2>2 DEF Finally, Held
<1>3. HandlerAt(r)' /\ SlotsCovered(r)'
  BY <1>1, <1>2 DEF HandlerAt, SlotsCovered, Covered
<1> QED
  BY <1>1, <1>2, <1>3, AcqsOfRequests, OneHandler

-----------------------------------------------------------------------------
(* ... and so does every step.                                             *)

LEMMA HandlersInvStep ==
  ASSUME HandlersInv, AdmissionInv, WireTypeOK, [AdmissionNext]_vars
  PROVE  HandlersInv'
<1>1. GateInv
  BY DEF AdmissionInv
<1>2. ASSUME NEW r \in Requests, Handle(r) PROVE HandlersInv'
  BY <1>1, <1>2, PlainStep, EnterRoutedKeeps, EnterRelayKeeps, ResumeKeeps, FinallyKeeps DEF Handle
<1>3. ASSUME NEW r \in Requests, Close(r) PROVE HandlersInv'
  <2>1. /\ UNCHANGED <<gateVars, pc>> /\ conn'[r] # "open"
        /\ \A s \in Requests : s # r => conn'[s] = conn[s] /\ onClose'[s] = onClose[s]
    BY <1>3 DEF Close, WireTypeOK
  <2>2. HandlerAt(r)' /\ SlotsCovered(r)'
    BY <2>1 DEF HandlersInv, HandlerAt, SlotsCovered, Covered, gateVars
  <2> QED
    BY <2>1, <2>2, OneHandler DEF gateVars, Drifts
<1>4. ASSUME NEW a \in Acqs, WaitTimeout(a) PROVE HandlersInv'
  BY <1>1, <1>4, FailDrifts, AllDrift DEF WaitTimeout, wireVars
<1>5. CASE CallListener
  <2>1. Head(turn) \in Listeners
    BY <1>5, HeadTailProperties DEF WireTypeOK, CallListener
  <2>2. Head(turn).acq \in Acqs
    BY <2>1 DEF Listeners
  <2>3. \A a \in Acqs : Drifts(a)
    BY <1>1, <1>5, <2>2, ReleaseDrifts, FailDrifts DEF CallListener, gateVars, Drifts
  <2> QED
    BY <1>5, <2>3, AllDrift DEF CallListener
<1>6. CASE UNCHANGED vars
  BY <1>6, AllDrift DEF vars, wireVars, gateVars, Drifts
<1> QED
  BY <1>2, <1>3, <1>4, <1>5, <1>6 DEF AdmissionNext

LEMMA HandlersInvInit == AdmissionInit => HandlersInv
  BY AcqsOfRequests DEF AdmissionInit, GateInit, HandlersInv, HandlerAt, SlotsCovered, Covered

\* Whatever slot a request holds while its connection is open goes back when
\* the client leaves, and no handler ends with its routed slot held.
THEOREM AdmissionSlotsBound == AdmissionSpec => []HeldSlotsBound
<1> DEFINE All == AdmissionInv /\ WireTypeOK /\ HandlersInv
<1>1. AdmissionInit => All
  BY AdmissionInvInit, HandlersInvInit
<1>2. All /\ [AdmissionNext]_vars => All'
  BY AdmissionInvStep, HandlersInvStep
<1>3. All => HeldSlotsBound
  BY TwoAcqs DEF HandlersInv, HandlerAt, SlotsCovered, Covered, HeldSlotsBound
<1> QED
  BY <1>1, <1>2, <1>3, PTL DEF AdmissionSpec
=============================================================================
