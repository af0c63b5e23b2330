------------------------- MODULE SerialQueueProofs -------------------------
(***************************************************************************)
(* The serial queue keeps one message in flight, loses no wakeup, keeps    *)
(* its gap until a wait times out, and hands its slot over in the order of *)
(* arrival: for any calls and any gaps.                                    *)
(***************************************************************************)
EXTENDS SerialQueue, WaitlistProofs

(***************************************************************************)
(* The inductive invariant.  Who holds and who waits must agree with the   *)
(* flag and the queue, or a grant could go to a call that has given up;    *)
(* and the armed timer, while no waiter has timed out, is the head's own:  *)
(* what is left of it and the age of the last release make up its gap.     *)
(***************************************************************************)
Consistent(held, queue, fate) ==
  /\ held \in BOOLEAN
  /\ queue \in Seq(Calls)
  /\ Distinct(queue)
  /\ fate \in [Calls -> Phases]
  /\ \A b \in Calls : Queued(queue, b) <=> fate[b] = "waiting"
  /\ \A b, c \in Calls : fate[b] = "granted" /\ fate[c] = "granted" => b = c
  /\ held <=> \E b \in Calls : fate[b] = "granted"

Clocks ==
  /\ sinceRelease \in 0 .. LongAgo
  /\ dispatchIn \in {NotArmed} \union 0 .. LongAgo
  /\ delayOf \in [Calls -> 0 .. LongAgo]

\* The armed timer `left', the age `since' and the gaps `gaps' fit together.
Fits(held, queue, fate, left, since, gaps) ==
  (\A b \in Calls : fate[b] # "timedOut") /\ left # NotArmed =>
    /\ ~held
    /\ queue # << >>
    /\ left + since >= gaps[Head(queue)]

TimerFits == Fits(holding, waiters, phase, dispatchIn, sinceRelease, delayOf)

SerialInv == Consistent(holding, waiters, phase) /\ Clocks /\ NoLostWakeup /\ TimerFits

-----------------------------------------------------------------------------
(* grantHead and maybeDispatch, from a consistent queue.                   *)

LEMMA GrantHeadConsistent ==
  ASSUME NEW queue, NEW fate, Consistent(FALSE, queue, fate), queue # << >>,
         GrantHead(queue, fate)
  PROVE  /\ Consistent(holding, waiters, phase)'
         /\ \A b \in Calls : phase'[b] = "granted" <=> b = Head(queue)
         /\ Head(queue) \in Calls /\ fate[Head(queue)] = "waiting"
<1> DEFINE h == Head(queue)
<1>1. /\ h \in Calls /\ Queued(queue, h)
      /\ Tail(queue) \in Seq(Calls) /\ Distinct(Tail(queue))
      /\ \A b : Queued(Tail(queue), b) <=> b # h /\ Queued(queue, b)
  BY TailQueued DEF Consistent
<1>2. /\ holding' = TRUE /\ waiters' = Tail(queue)
      /\ phase' = [fate EXCEPT ![h] = "granted"]
  BY DEF GrantHead
<1> HIDE DEF h
<1>3. fate \in [Calls -> Phases] /\ fate[h] = "waiting"
  BY <1>1 DEF Consistent
<1>4. /\ phase' \in [Calls -> Phases]
      /\ phase'[h] = "granted"
      /\ \A b \in Calls : b # h => phase'[b] = fate[b]
  BY <1>1, <1>2, <1>3 DEF Phases
<1>5. \A b \in Calls : fate[b] # "granted"
  BY DEF Consistent
<1>6. \A b \in Calls : phase'[b] = "granted" <=> b = h
  BY <1>1, <1>4, <1>5
<1>7. \A b \in Calls : Queued(waiters', b) <=> phase'[b] = "waiting"
  BY <1>1, <1>2, <1>4 DEF Consistent
<1>8. Consistent(holding, waiters, phase)'
  BY <1>1, <1>2, <1>4, <1>6, <1>7 DEF Consistent
<1> QED
  BY <1>1, <1>3, <1>6, <1>8 DEF h

LEMMA GrantHeadInv ==
  ASSUME NEW queue, NEW fate, Consistent(FALSE, queue, fate), queue # << >>,
         GrantHead(queue, fate), sinceRelease' \in 0 .. LongAgo,
         delayOf' \in [Calls -> 0 .. LongAgo]
  PROVE  SerialInv'
<1>1. Consistent(holding, waiters, phase)'
  BY GrantHeadConsistent
<1>2. holding' = TRUE /\ dispatchIn' = NotArmed
  BY DEF GrantHead
<1> QED
  BY <1>1, <1>2 DEF SerialInv, Clocks, NoLostWakeup, TimerFits, Fits

LEMMA MaybeDispatchInv ==
  ASSUME NEW held, NEW queue, NEW fate, Consistent(held, queue, fate),
         MaybeDispatch(held, queue, fate), sinceRelease' \in 0 .. LongAgo,
         delayOf' \in [Calls -> 0 .. LongAgo],
         dispatchIn \in {NotArmed} \union 0 .. LongAgo,
         Fits(held, queue, fate, dispatchIn, sinceRelease', delayOf')
  PROVE  SerialInv'
<1>1. CASE held \/ queue = << >>
  <2>1. holding' = held /\ waiters' = queue /\ phase' = fate /\ dispatchIn' = dispatchIn
    BY <1>1 DEF MaybeDispatch, GrantNobody
  <2> QED
    BY <1>1, <2>1 DEF SerialInv, Clocks, NoLostWakeup, TimerFits, Consistent
<1>2. CASE ~held /\ queue # << >> /\ Residual(Head(queue)) = 0
  <2>1. held = FALSE /\ GrantHead(queue, fate)
    BY <1>2 DEF MaybeDispatch, Consistent
  <2> QED BY <1>2, <2>1, GrantHeadInv
<1>3. CASE ~held /\ queue # << >> /\ Residual(Head(queue)) # 0
  <2> DEFINE r == Residual(Head(queue))
  <2>1. Head(queue) \in Calls
    BY <1>3, TailQueued DEF Consistent
  <2>2. /\ r \in 1 .. LongAgo
        /\ r + sinceRelease' = delayOf'[Head(queue)]
    BY <1>3, <2>1, SerialAssumption DEF Residual
  <2> HIDE DEF r
  <2>3. /\ holding' = held /\ waiters' = queue /\ phase' = fate
        /\ dispatchIn' = IF dispatchIn = NotArmed THEN r ELSE dispatchIn
    BY <1>3 DEF MaybeDispatch, GrantNobody, r
  <2>4. dispatchIn' # NotArmed /\ dispatchIn' \in 0 .. LongAgo
    BY <2>2, <2>3 DEF NotArmed
  <2>5. TimerFits'
    <3>1. CASE dispatchIn = NotArmed
      BY <1>3, <2>2, <2>3, <3>1 DEF TimerFits, Fits
    <3>2. CASE dispatchIn # NotArmed
      BY <1>3, <2>3, <3>2 DEF TimerFits, Fits
    <3> QED BY <3>1, <3>2
  <2> QED
    BY <2>3, <2>4, <2>5 DEF SerialInv, Clocks, NoLostWakeup, Consistent
<1> QED
  BY <1>1, <1>2, <1>3 DEF MaybeDispatch

-----------------------------------------------------------------------------
(* Every action keeps the invariant.                                       *)

LEMMA SerialInitInv == SerialInit => SerialInv
<1> SUFFICES ASSUME SerialInit PROVE SerialInv
  OBVIOUS
<1>1. waiters = << >> /\ waiters \in Seq(Calls) /\ DOMAIN waiters = {}
  BY EmptySeq, LenProperties DEF SerialInit
<1>2. Consistent(holding, waiters, phase)
  BY <1>1 DEF SerialInit, Consistent, Distinct, Queued, Phases
<1> QED
  BY <1>1, <1>2, SerialAssumption
  DEF SerialInit, SerialInv, Clocks, NoLostWakeup, TimerFits, Fits, NotArmed

\* A newcomer at the end of the queue.
LEMMA Newcomer ==
  ASSUME SerialInv, NEW a \in Calls, phase[a] = "idle"
  PROVE  /\ Consistent(holding, Append(waiters, a), [phase EXCEPT ![a] = "waiting"])
         /\ Append(waiters, a) # << >>
         /\ Head(Append(waiters, a)) = IF waiters = << >> THEN a ELSE Head(waiters)
<1> DEFINE fate == [phase EXCEPT ![a] = "waiting"]
<1>1. ~Queued(waiters, a)
  BY DEF SerialInv, Consistent
<1>2. /\ Append(waiters, a) \in Seq(Calls)
      /\ Append(waiters, a) # << >>
      /\ Distinct(Append(waiters, a))
      /\ Head(Append(waiters, a)) = IF waiters = << >> THEN a ELSE Head(waiters)
      /\ \A b : Queued(Append(waiters, a), b) <=> b = a \/ Queued(waiters, b)
  BY <1>1, AppendQueued DEF SerialInv, Consistent
<1>3. /\ fate \in [Calls -> Phases]
      /\ fate[a] = "waiting"
      /\ \A b \in Calls : b # a => fate[b] = phase[b]
  BY DEF SerialInv, Consistent, Phases
<1> HIDE DEF fate
<1>4. Consistent(holding, Append(waiters, a), fate)
  BY <1>2, <1>3 DEF SerialInv, Consistent
<1> QED
  BY <1>2, <1>4 DEF fate

LEMMA AcquireAtOnceInv ==
  ASSUME SerialInv, NEW a \in Calls, NEW d \in Delays, AcquireAtOnce(a, d)
  PROVE  SerialInv'
<1>1. /\ phase[a] = "idle" /\ holding = FALSE /\ waiters = << >>
      /\ holding' = TRUE /\ waiters' = waiters /\ dispatchIn' = dispatchIn
      /\ phase' = [phase EXCEPT ![a] = "granted"]
      /\ delayOf' = [delayOf EXCEPT ![a] = d] /\ sinceRelease' = sinceRelease
  BY DEF AcquireAtOnce, Enter, FreeAtOnce, GrantNobody, SerialInv, Consistent
<1>2. /\ phase' \in [Calls -> Phases]
      /\ phase'[a] = "granted"
      /\ \A b \in Calls : b # a => phase'[b] = phase[b]
  BY <1>1 DEF SerialInv, Consistent, Phases
<1>3. Consistent(holding, waiters, phase)'
  BY <1>1, <1>2 DEF SerialInv, Consistent
<1>4. d \in 0 .. LongAgo
  BY SerialAssumption
<1>5. Clocks'
  BY <1>1, <1>4 DEF SerialInv, Clocks
<1>6. TimerFits'
  BY <1>1, <1>2 DEF SerialInv, TimerFits, Fits
<1> QED
  BY <1>1, <1>3, <1>5, <1>6 DEF SerialInv, NoLostWakeup

LEMMA AcquireQueuedInv ==
  ASSUME SerialInv, NEW a \in Calls, NEW d \in Delays, AcquireQueued(a, d)
  PROVE  SerialInv'
<1> DEFINE queue == Append(waiters, a)
           fate == [phase EXCEPT ![a] = "waiting"]
<1>1. /\ phase[a] = "idle" /\ delayOf' = [delayOf EXCEPT ![a] = d]
      /\ sinceRelease' = sinceRelease /\ MaybeDispatch(holding, queue, fate)
  BY DEF AcquireQueued, Enter
<1>2. /\ Consistent(holding, queue, fate)
      /\ Head(queue) = IF waiters = << >> THEN a ELSE Head(waiters)
      /\ queue # << >>
  BY <1>1, Newcomer
<1>3. \A b \in Calls : b # a => fate[b] = phase[b]
  BY DEF SerialInv, Consistent
<1> HIDE DEF queue, fate
<1>4. d \in 0 .. LongAgo
  BY SerialAssumption
<1>5. delayOf' \in [Calls -> 0 .. LongAgo] /\ \A b \in Calls : b # a => delayOf'[b] = delayOf[b]
  BY <1>1, <1>4 DEF SerialInv, Clocks
<1>6. Fits(holding, queue, fate, dispatchIn, sinceRelease', delayOf')
  <2> SUFFICES ASSUME \A b \in Calls : fate[b] # "timedOut", dispatchIn # NotArmed
               PROVE  ~holding /\ dispatchIn + sinceRelease' >= delayOf'[Head(queue)]
    BY <1>2 DEF Fits
  <2>1. \A b \in Calls : phase[b] # "timedOut"
    BY <1>1, <1>3
  <2>2. ~holding /\ waiters # << >> /\ dispatchIn + sinceRelease >= delayOf[Head(waiters)]
    BY <2>1 DEF SerialInv, TimerFits, Fits
  <2>3. Head(waiters) \in Calls /\ phase[Head(waiters)] = "waiting"
    BY <2>2, TailQueued DEF SerialInv, Consistent
  <2> QED
    BY <1>1, <1>2, <1>5, <2>2, <2>3
<1> QED
  BY <1>1, <1>2, <1>5, <1>6, MaybeDispatchInv DEF SerialInv, Clocks

LEMMA TimeoutInv ==
  ASSUME SerialInv, NEW a \in Calls, Timeout(a)
  PROVE  SerialInv'
<1>1. /\ phase[a] = "waiting" /\ waiters' = Without(waiters, a)
      /\ phase' = [phase EXCEPT ![a] = "timedOut"]
      /\ UNCHANGED <<holding, sinceRelease, dispatchIn, delayOf>>
  BY DEF Timeout
<1>2. /\ waiters' \in Seq(Calls) /\ Distinct(waiters')
      /\ \A b : Queued(waiters', b) <=> b # a /\ Queued(waiters, b)
  BY <1>1, WithoutQueued DEF SerialInv, Consistent
<1>3. /\ phase' \in [Calls -> Phases]
      /\ phase'[a] = "timedOut"
      /\ \A b \in Calls : b # a => phase'[b] = phase[b]
  BY <1>1 DEF SerialInv, Consistent, Phases
<1>4. Consistent(holding, waiters, phase)'
  BY <1>1, <1>2, <1>3 DEF SerialInv, Consistent
<1>5. waiters # << >>
  BY <1>1, EmptySeq, LenProperties DEF SerialInv, Consistent, Queued
<1> QED
  BY <1>1, <1>3, <1>4, <1>5 DEF SerialInv, Clocks, NoLostWakeup, TimerFits, Fits

\* The slot of a call that gives it back.
LEMMA GivenBack ==
  ASSUME SerialInv, NEW a \in Calls, phase[a] = "granted"
  PROVE  /\ Consistent(FALSE, waiters, [phase EXCEPT ![a] = "released"])
         /\ holding
         /\ \A b \in Calls : phase[b] = "granted" <=> b = a
         /\ \A b \in Calls : [phase EXCEPT ![a] = "released"][b] # "granted"
<1> DEFINE fate == [phase EXCEPT ![a] = "released"]
<1>1. /\ fate \in [Calls -> Phases]
      /\ fate[a] = "released"
      /\ \A b \in Calls : b # a => fate[b] = phase[b]
  BY DEF SerialInv, Consistent, Phases
<1> HIDE DEF fate
<1>2. holding /\ \A b \in Calls : phase[b] = "granted" <=> b = a
  BY DEF SerialInv, Consistent
<1>3. Consistent(FALSE, waiters, fate)
  BY <1>1, <1>2 DEF SerialInv, Consistent
<1> QED
  BY <1>1, <1>2, <1>3 DEF fate

LEMMA ReleaseInv ==
  ASSUME SerialInv, NEW a \in Calls, Release(a), phase[a] = "granted"
  PROVE  SerialInv'
<1> DEFINE fate == [phase EXCEPT ![a] = "released"]
<1>1. sinceRelease' = 0 /\ delayOf' = delayOf /\ MaybeDispatch(FALSE, waiters, fate)
  BY DEF Release
<1>2. Consistent(FALSE, waiters, fate) /\ holding
  BY GivenBack
<1>3. \A b \in Calls : b # a => fate[b] = phase[b]
  BY DEF SerialInv, Consistent
<1> HIDE DEF fate
<1>4. Fits(FALSE, waiters, fate, dispatchIn, sinceRelease', delayOf')
  BY <1>2, <1>3 DEF SerialInv, TimerFits, Fits
<1>5. /\ sinceRelease' \in 0 .. LongAgo
      /\ delayOf' \in [Calls -> 0 .. LongAgo]
      /\ dispatchIn \in {NotArmed} \union 0 .. LongAgo
  BY <1>1, SerialAssumption DEF SerialInv, Clocks
<1> QED
  BY <1>1, <1>2, <1>4, <1>5, MaybeDispatchInv

LEMMA DispatchFiresInv ==
  ASSUME SerialInv, DispatchFires
  PROVE  SerialInv'
<1>1. sinceRelease' = sinceRelease /\ delayOf' = delayOf
  BY DEF DispatchFires
<1>2. CASE holding \/ waiters = << >>
  <2>1. /\ holding' = holding /\ waiters' = waiters /\ phase' = phase
        /\ dispatchIn' = NotArmed
    BY <1>2 DEF DispatchFires, GrantNobody
  <2> QED
    BY <1>1, <1>2, <2>1 DEF SerialInv, Consistent, Clocks, NoLostWakeup, TimerFits, Fits
<1>3. CASE ~(holding \/ waiters = << >>)
  <2>1. GrantHead(waiters, phase) /\ Consistent(FALSE, waiters, phase)
    BY <1>3 DEF DispatchFires, SerialInv, Consistent
  <2> QED
    BY <1>1, <1>3, <2>1, GrantHeadInv DEF SerialInv, Clocks
<1> QED
  BY <1>2, <1>3

LEMMA TickInv ==
  ASSUME SerialInv, Tick
  PROVE  SerialInv'
<1>1. /\ UNCHANGED <<holding, waiters, phase, delayOf>>
      /\ sinceRelease' = IF sinceRelease < LongAgo THEN sinceRelease + 1 ELSE LongAgo
      /\ dispatchIn' = IF dispatchIn > 0 THEN dispatchIn - 1 ELSE dispatchIn
  BY DEF Tick
<1>2. /\ sinceRelease \in 0 .. LongAgo
      /\ dispatchIn \in {NotArmed} \union 0 .. LongAgo
      /\ delayOf \in [Calls -> 0 .. LongAgo]
      /\ LongAgo \in Nat
  BY SerialAssumption DEF SerialInv, Clocks
<1>3. Clocks' /\ (dispatchIn' = NotArmed <=> dispatchIn = NotArmed)
  BY <1>1, <1>2 DEF Clocks, NotArmed
<1>4. TimerFits'
  <2> SUFFICES ASSUME \A b \in Calls : phase[b] # "timedOut", dispatchIn # NotArmed
               PROVE  /\ ~holding /\ waiters # << >>
                      /\ dispatchIn' + sinceRelease' >= delayOf[Head(waiters)]
    BY <1>1, <1>3 DEF TimerFits, Fits
  <2>1. ~holding /\ waiters # << >> /\ dispatchIn + sinceRelease >= delayOf[Head(waiters)]
    BY DEF SerialInv, TimerFits, Fits
  <2>2. delayOf[Head(waiters)] \in 0 .. LongAgo
    BY <1>2, <2>1, TailQueued DEF SerialInv, Consistent
  <2>3. dispatchIn \in 0 .. LongAgo
    BY <1>2
  <2> QED
    BY <1>1, <1>2, <2>1, <2>2, <2>3
<1> QED
  BY <1>1, <1>3, <1>4 DEF SerialInv, Consistent, NoLostWakeup

LEMMA SerialNextInv == SerialInv /\ [SerialNext]_vars => SerialInv'
<1> SUFFICES ASSUME SerialInv, [SerialNext]_vars PROVE SerialInv'
  OBVIOUS
<1>1. ASSUME UNCHANGED vars PROVE SerialInv'
  BY <1>1 DEF vars, SerialInv, Consistent, Clocks, NoLostWakeup, TimerFits
<1>2. ASSUME NEW a \in Calls, Release(a) PROVE SerialInv'
  <2>1. CASE phase[a] = "granted"
    BY <1>2, <2>1, ReleaseInv
  <2>2. CASE phase[a] # "granted"
    BY <1>1, <1>2, <2>2 DEF Release
  <2> QED BY <2>1, <2>2
<1> QED
  BY <1>1, <1>2, AcquireAtOnceInv, AcquireQueuedInv, TimeoutInv, DispatchFiresInv, TickInv
  DEF SerialNext

-----------------------------------------------------------------------------
(* The theorems.                                                           *)

\* The flag, the queue, the clocks and the timer keep the shape their
\* interfaces declare.
THEOREM SerialTypeCorrect == SerialSpec => []SerialTypeOK
<1>1. SerialSpec => []SerialInv
  BY SerialInitInv, SerialNextInv, PTL DEF SerialSpec
<1>2. SerialInv => SerialTypeOK
  BY DEF SerialInv, SerialTypeOK, Consistent, Clocks
<1> QED
  BY <1>1, <1>2, PTL

\* One message is in flight at a time, though each slot is released twice, and
\* a free slot with waiters always has a timer to wake them.
THEOREM SerialSafe == SerialSpec => [](OneInFlight /\ NoLostWakeup)
<1>1. SerialSpec => []SerialInv
  BY SerialInitInv, SerialNextInv, PTL DEF SerialSpec
<1>2. SerialInv => OneInFlight /\ NoLostWakeup
  BY DEF SerialInv, OneInFlight, Consistent, Granted
<1> QED
  BY <1>1, <1>2, PTL

\* A grant that MaybeDispatch makes keeps the gap of the call it grants.
LEMMA DispatchSpaced ==
  ASSUME NEW held, NEW queue, NEW fate, Consistent(held, queue, fate),
         MaybeDispatch(held, queue, fate), sinceRelease' \in 0 .. LongAgo,
         delayOf' \in [Calls -> 0 .. LongAgo],
         NEW b \in Calls, fate[b] # "granted", phase'[b] = "granted"
  PROVE  sinceRelease' >= delayOf'[b]
<1>1. ~held /\ queue # << >> /\ Residual(Head(queue)) = 0
  BY DEF MaybeDispatch, GrantNobody
<1>2. held = FALSE /\ GrantHead(queue, fate)
  BY <1>1 DEF MaybeDispatch, Consistent
<1>3. \A c \in Calls : phase'[c] = "granted" <=> c = Head(queue)
  <2>1. Consistent(FALSE, queue, fate)
    BY <1>2
  <2> QED BY <1>1, <1>2, <2>1, GrantHeadConsistent
<1>4. b = Head(queue)
  BY <1>3
<1> QED
  BY <1>1, <1>4, SerialAssumption DEF Residual

\* A grant keeps the gap its call asked for as long as no wait has timed out.
THEOREM SerialSpaced == SerialSpec => SpacedWithoutTimeouts
<1>1. SerialInv /\ [SerialNext]_vars => GapKept
  <2> SUFFICES ASSUME SerialInv, [SerialNext]_vars, NEW b \in Calls, Grants(b),
                      \A c \in Calls : phase[c] # "timedOut"
               PROVE  sinceRelease' >= delayOf'[b]
    BY DEF GapKept
  <2>1. phase[b] # "granted" /\ phase'[b] = "granted"
    BY DEF Grants
  <2>2. ASSUME NEW a \in Calls, NEW d \in Delays, AcquireAtOnce(a, d)
        PROVE  sinceRelease' >= delayOf'[b]
    <3>1. /\ phase' = [phase EXCEPT ![a] = "granted"]
          /\ delayOf' = [delayOf EXCEPT ![a] = d]
          /\ sinceRelease' = sinceRelease /\ sinceRelease >= d
      BY <2>2 DEF AcquireAtOnce, Enter, FreeAtOnce, GrantNobody
    <3>2. b = a
      BY <2>1, <3>1 DEF SerialInv, Consistent
    <3> QED
      BY <3>1, <3>2 DEF SerialInv, Clocks
  <2>3. ASSUME NEW a \in Calls, NEW d \in Delays, AcquireQueued(a, d)
        PROVE  sinceRelease' >= delayOf'[b]
    <3> DEFINE fate == [phase EXCEPT ![a] = "waiting"]
    <3>1. /\ phase[a] = "idle" /\ delayOf' = [delayOf EXCEPT ![a] = d]
          /\ sinceRelease' = sinceRelease
          /\ MaybeDispatch(holding, Append(waiters, a), fate)
      BY <2>3 DEF AcquireQueued, Enter
    <3>2. Consistent(holding, Append(waiters, a), fate)
      BY <3>1, Newcomer
    <3>3. fate[b] # "granted"
      BY <2>1 DEF SerialInv, Consistent
    <3>4. d \in 0 .. LongAgo
      BY SerialAssumption
    <3>5. sinceRelease' \in 0 .. LongAgo /\ delayOf' \in [Calls -> 0 .. LongAgo]
      BY <3>1, <3>4 DEF SerialInv, Clocks
    <3> HIDE DEF fate
    <3> QED
      BY <2>1, <3>1, <3>2, <3>3, <3>5, DispatchSpaced
  <2>4. ASSUME NEW a \in Calls, Release(a) PROVE sinceRelease' >= delayOf'[b]
    <3> DEFINE fate == [phase EXCEPT ![a] = "released"]
    <3>1. phase[a] = "granted"
      BY <2>1, <2>4 DEF Release, vars
    <3>2. sinceRelease' = 0 /\ delayOf' = delayOf /\ MaybeDispatch(FALSE, waiters, fate)
      BY <2>4, <3>1 DEF Release
    <3>3. Consistent(FALSE, waiters, fate) /\ fate[b] # "granted"
      BY <3>1, GivenBack
    <3>4. sinceRelease' \in 0 .. LongAgo /\ delayOf' \in [Calls -> 0 .. LongAgo]
      BY <3>2, SerialAssumption DEF SerialInv, Clocks
    <3> HIDE DEF fate
    <3> QED
      BY <2>1, <3>2, <3>3, <3>4, DispatchSpaced
  <2>5. ASSUME DispatchFires PROVE sinceRelease' >= delayOf'[b]
    <3>1. ~holding /\ waiters # << >> /\ GrantHead(waiters, phase)
      BY <2>1, <2>5 DEF DispatchFires, GrantNobody
    <3>2. Consistent(FALSE, waiters, phase)
      BY <3>1 DEF SerialInv, Consistent
    <3>3. b = Head(waiters)
      <4>1. \A c \in Calls : phase'[c] = "granted" <=> c = Head(waiters)
        BY <3>1, <3>2, GrantHeadConsistent
      <4> QED BY <2>1, <4>1
    <3>4. /\ dispatchIn = 0 /\ dispatchIn # NotArmed
          /\ sinceRelease' = sinceRelease /\ delayOf' = delayOf
      BY <2>5 DEF DispatchFires, NotArmed
    <3>5. dispatchIn + sinceRelease >= delayOf[Head(waiters)]
      BY <3>4 DEF SerialInv, TimerFits, Fits
    <3> QED
      BY <3>3, <3>4, <3>5 DEF SerialInv, Clocks
  <2>6. ASSUME NEW a \in Calls, Timeout(a) PROVE FALSE
    BY <2>1, <2>6 DEF Timeout, SerialInv, Consistent
  <2>7. ASSUME Tick \/ UNCHANGED vars PROVE FALSE
    BY <2>1, <2>7 DEF Tick, vars
  <2> QED
    BY <2>2, <2>3, <2>4, <2>5, <2>6, <2>7 DEF SerialNext
<1>2. SerialSpec => []SerialInv
  BY SerialInitInv, SerialNextInv, PTL DEF SerialSpec
<1> QED
  BY <1>1, <1>2, PTL DEF SerialSpec, SpacedWithoutTimeouts
-----------------------------------------------------------------------------
(* The refinement: holders are the granted calls, the line is the queue.   *)

GrantedIn(fate) == {b \in Calls : fate[b] = "granted"}
CameIn(fate) == {b \in Calls : fate[b] # "idle"}

LEMMA GrantHeadHandsOver ==
  ASSUME NEW queue, NEW fate, Consistent(FALSE, queue, fate), queue # << >>,
         GrantHead(queue, fate)
  PROVE  /\ Lock!HandOver({}, queue)
         /\ CameIn(phase') = CameIn(fate)
<1>1. /\ \A b \in Calls : phase'[b] = "granted" <=> b = Head(queue)
      /\ Head(queue) \in Calls /\ fate[Head(queue)] = "waiting"
  BY GrantHeadConsistent
<1>2. Granted' = {Head(queue)}
  BY <1>1 DEF Granted
<1>3. waiters' = Tail(queue) /\ phase' = [fate EXCEPT ![Head(queue)] = "granted"]
  BY DEF GrantHead
<1>4. fate \in [Calls -> Phases]
  BY DEF Consistent
<1>5. CameIn(phase') = CameIn(fate)
  BY <1>1, <1>3, <1>4 DEF CameIn
<1> QED
  BY <1>2, <1>3, <1>5 DEF Lock!HandOver

LEMMA MaybeDispatchHandsOver ==
  ASSUME NEW held, NEW queue, NEW fate, Consistent(held, queue, fate),
         MaybeDispatch(held, queue, fate)
  PROVE  /\ Lock!HandOver(GrantedIn(fate), queue)
         /\ CameIn(phase') = CameIn(fate)
<1>1. CASE GrantNobody(held, queue, fate)
  <2>1. waiters' = queue /\ phase' = fate /\ Granted' = GrantedIn(fate)
    BY <1>1 DEF GrantNobody, Granted, GrantedIn
  <2> QED BY <2>1 DEF Lock!HandOver
<1>2. CASE ~held /\ queue # << >> /\ GrantHead(queue, fate)
  <2>1. Consistent(FALSE, queue, fate) /\ GrantedIn(fate) = {}
    BY <1>2 DEF Consistent, GrantedIn
  <2>2. Lock!HandOver({}, queue) /\ CameIn(phase') = CameIn(fate)
    BY <1>2, <2>1, GrantHeadHandsOver
  <2> QED BY <2>1, <2>2
<1> QED
  BY <1>1, <1>2 DEF MaybeDispatch

LEMMA StepHandsOver == SerialInv /\ [SerialNext]_vars => [Lock!LockNext]_(Lock!lockVars)
<1> SUFFICES ASSUME SerialInv, [SerialNext]_vars PROVE [Lock!LockNext]_(Lock!lockVars)
  OBVIOUS
<1> USE DEF Lock!lockVars
<1>1. ASSUME waiters' = waiters, phase' = phase PROVE UNCHANGED Lock!lockVars
  BY <1>1 DEF Granted
<1>2. ASSUME NEW a \in Calls, NEW d \in Delays, AcquireAtOnce(a, d)
      PROVE  Lock!EnterLine(a)
  <2>1. /\ phase[a] = "idle" /\ holding = FALSE /\ waiters = << >> /\ waiters' = waiters
        /\ phase' = [phase EXCEPT ![a] = "granted"]
    BY <1>2 DEF AcquireAtOnce, Enter, FreeAtOnce, GrantNobody, SerialInv, Consistent
  <2>2. Granted = {} /\ Granted' = {a}
    BY <2>1 DEF SerialInv, Consistent, Granted
  <2>3. CameIn(phase') = CameIn(phase) \union {a} /\ a \notin CameIn(phase)
    BY <2>1 DEF SerialInv, Consistent, CameIn
  <2>4. /\ Append(waiters, a) # << >> /\ Head(Append(waiters, a)) = a
        /\ Tail(Append(waiters, a)) = << >>
    <3>1. Append(waiters, a) = <<a>>
      BY <2>1
    <3>2. Head(<<a>>) = a /\ Tail(<<a>>) = << >> /\ <<a>> # << >>
      OBVIOUS
    <3> QED BY <3>1, <3>2
  <2>5. Lock!HandOver(Granted, Append(waiters, a))
    BY <2>1, <2>2, <2>4 DEF Lock!HandOver
  <2> QED
    BY <2>3, <2>5 DEF Lock!EnterLine, CameIn
<1>3. ASSUME NEW a \in Calls, NEW d \in Delays, AcquireQueued(a, d)
      PROVE  Lock!EnterLine(a)
  <2> DEFINE fate == [phase EXCEPT ![a] = "waiting"]
  <2>1. phase[a] = "idle" /\ MaybeDispatch(holding, Append(waiters, a), fate)
    BY <1>3 DEF AcquireQueued, Enter
  <2>2. Consistent(holding, Append(waiters, a), fate)
    BY <2>1, Newcomer
  <2>3. /\ GrantedIn(fate) = Granted
        /\ CameIn(fate) = CameIn(phase) \union {a} /\ a \notin CameIn(phase)
    BY <2>1 DEF SerialInv, Consistent, GrantedIn, Granted, CameIn
  <2> HIDE DEF fate
  <2>4. Lock!HandOver(Granted, Append(waiters, a)) /\ CameIn(phase') = CameIn(fate)
    BY <2>1, <2>2, <2>3, MaybeDispatchHandsOver
  <2> QED
    BY <2>3, <2>4 DEF Lock!EnterLine, CameIn
<1>4. ASSUME NEW a \in Calls, Timeout(a) PROVE Lock!GiveUp(a)
  <2>1. /\ phase[a] = "waiting" /\ waiters' = Without(waiters, a)
        /\ phase' = [phase EXCEPT ![a] = "timedOut"]
    BY <1>4 DEF Timeout
  <2>2. Granted' = Granted /\ CameIn(phase') = CameIn(phase)
    BY <2>1 DEF SerialInv, Consistent, Granted, CameIn
  <2>3. Queued(waiters, a)
    BY <2>1 DEF SerialInv, Consistent
  <2> QED
    BY <2>1, <2>2, <2>3 DEF Lock!GiveUp, CameIn, Queued, Without, Lock!Queued, Lock!Without
<1>5. ASSUME NEW a \in Calls, Release(a), phase[a] = "granted" PROVE Lock!Leave(a)
  <2> DEFINE fate == [phase EXCEPT ![a] = "released"]
  <2>1. MaybeDispatch(FALSE, waiters, fate)
    BY <1>5 DEF Release
  <2>2. /\ Consistent(FALSE, waiters, fate)
        /\ \A b \in Calls : phase[b] = "granted" <=> b = a
        /\ \A b \in Calls : fate[b] # "granted"
    BY <1>5, GivenBack
  <2>3. Granted = {a} /\ GrantedIn(fate) = {}
    BY <2>2 DEF Granted, GrantedIn
  <2>4. CameIn(fate) = CameIn(phase)
    BY <1>5 DEF SerialInv, Consistent, CameIn
  <2> HIDE DEF fate
  <2>5. Lock!HandOver({}, waiters) /\ CameIn(phase') = CameIn(fate)
    BY <2>1, <2>2, <2>3, MaybeDispatchHandsOver
  <2> QED
    BY <2>3, <2>4, <2>5 DEF Lock!Leave, CameIn
<1>6. ASSUME DispatchFires PROVE Lock!Advance \/ UNCHANGED Lock!lockVars
  <2>1. CASE holding \/ waiters = << >>
    BY <1>1, <1>6, <2>1 DEF DispatchFires, GrantNobody
  <2>2. CASE ~(holding \/ waiters = << >>)
    <3>1. GrantHead(waiters, phase) /\ Consistent(FALSE, waiters, phase) /\ Granted = {}
      BY <1>6, <2>2 DEF DispatchFires, SerialInv, Consistent, Granted
    <3>2. Lock!HandOver({}, waiters) /\ CameIn(phase') = CameIn(phase)
      BY <2>2, <3>1, GrantHeadHandsOver
    <3> QED
      BY <3>1, <3>2 DEF Lock!Advance, CameIn
  <2> QED BY <2>1, <2>2
<1>7. ASSUME NEW a \in Calls, Release(a) PROVE Lock!LockNext \/ UNCHANGED Lock!lockVars
  <2>1. CASE phase[a] = "granted"
    BY <1>5, <1>7, <2>1 DEF Lock!LockNext
  <2>2. CASE phase[a] # "granted"
    BY <1>1, <1>7, <2>2 DEF Release, vars
  <2> QED BY <2>1, <2>2
<1>8. ASSUME Tick \/ UNCHANGED vars PROVE UNCHANGED Lock!lockVars
  BY <1>1, <1>8 DEF Tick, vars
<1> QED
  BY <1>2, <1>3, <1>4, <1>6, <1>7, <1>8 DEF SerialNext, Lock!LockNext

\* The queue with its gap, its timers and its timeouts is a lock handed over in
\* the order of arrival.
THEOREM SerialIsFifoLock == SerialSpec => ImplementsFifoLock
<1>1. SerialInit => Lock!LockInit
  BY DEF SerialInit, Lock!LockInit, Granted
<1>2. SerialSpec => []SerialInv
  BY SerialInitInv, SerialNextInv, PTL DEF SerialSpec
<1> QED
  BY <1>1, <1>2, StepHandsOver, PTL DEF SerialSpec, ImplementsFifoLock, Lock!LockSpec
=============================================================================
