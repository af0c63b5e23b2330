---------------------------- MODULE SerialQueue ----------------------------
(***************************************************************************)
(* The serial queue for the user messages sent to one subscription account *)
(* (core/src/outbound-api/userMessageSerialQueue.ts, the state of one      *)
(* providerId; providers share nothing).  One message is in flight at a    *)
(* time, and delayMs lies between a release and the next grant.            *)
(*                                                                         *)
(* Time is the age of the last release and what is left of the dispatch    *)
(* timer, counted in ticks.  A timer that is due fires now or later: the   *)
(* event loop may lag.  The wait timer of a call may be shorter or longer  *)
(* than any gap, so it fires at any time.  delayMs is an argument of each  *)
(* call, read from a configuration an administrator may edit.              *)
(***************************************************************************)
EXTENDS Integers, Sequences, FiniteSets, Waitlist

CONSTANTS
  Calls,          \* calls of acquire, each with the slot it returns
  Delays,         \* the values of delayMs, in ticks
  LongAgo         \* an age at which every gap has elapsed

ASSUME SerialAssumption ==
  /\ IsFiniteSet(Calls)
  /\ LongAgo \in Nat
  /\ Delays \subseteq 0 .. LongAgo

VARIABLES
  holding,        \* SerialKeyState.holding
  waiters,        \* SerialKeyState.waiters
  sinceRelease,   \* now - lastReleaseTs, LongAgo before the first release
  dispatchIn,     \* what is left of dispatchHandle, or NotArmed
  phase,          \* what became of each call
  delayOf         \* the delayMs a call was made with

vars == <<holding, waiters, sinceRelease, dispatchIn, phase, delayOf>>

NotArmed == -1
Phases == {"idle", "waiting", "granted", "released", "timedOut"}

SerialInit ==
  /\ holding = FALSE
  /\ waiters = << >>
  /\ sinceRelease = LongAgo
  /\ dispatchIn = NotArmed
  /\ phase = [a \in Calls |-> "idle"]
  /\ delayOf = [a \in Calls |-> 0]

-----------------------------------------------------------------------------
(* grantHead and maybeDispatch.  `queue' and `fate' are the waiters and    *)
(* the phases once the caller's own change is made.                        *)
(* NoClear, SwappedElapsed, Barge, ReleaseTwice, ReleaseOnly and           *)
(* TimeoutDisarms are faulty variants of the definitions that follow them. *)

NoClear(queue, fate) ==
  /\ holding' = TRUE
  /\ waiters' = Tail(queue)
  /\ phase' = [fate EXCEPT ![Head(queue)] = "granted"]
  /\ UNCHANGED dispatchIn

GrantHead(queue, fate) ==
  /\ holding' = TRUE
  /\ waiters' = Tail(queue)
  /\ phase' = [fate EXCEPT ![Head(queue)] = "granted"]
  /\ dispatchIn' = NotArmed

GrantNobody(held, queue, fate) ==
  /\ holding' = held
  /\ waiters' = queue
  /\ phase' = fate

SwappedElapsed(a) == delayOf'[a] + sinceRelease'

\* What the gap of call a still asks for after this step.
Residual(a) ==
  IF delayOf'[a] > sinceRelease' THEN delayOf'[a] - sinceRelease' ELSE 0

MaybeDispatch(held, queue, fate) ==
  \/ /\ held \/ queue = << >>
     /\ GrantNobody(held, queue, fate)
     /\ UNCHANGED dispatchIn
  \/ /\ ~held /\ queue # << >>
     /\ Residual(Head(queue)) = 0
     /\ GrantHead(queue, fate)
  \/ /\ ~held /\ queue # << >>
     /\ Residual(Head(queue)) > 0
     /\ GrantNobody(held, queue, fate)
     /\ dispatchIn' = IF dispatchIn = NotArmed THEN Residual(Head(queue)) ELSE dispatchIn

-----------------------------------------------------------------------------
(* acquire(), the wait timer, release() and the dispatch timer.            *)

Barge(d) == ~holding /\ sinceRelease >= d

FreeAtOnce(d) == ~holding /\ waiters = << >> /\ sinceRelease >= d

Enter(a, d) ==
  /\ phase[a] = "idle"
  /\ delayOf' = [delayOf EXCEPT ![a] = d]
  /\ UNCHANGED sinceRelease

AcquireAtOnce(a, d) ==
  /\ Enter(a, d)
  /\ FreeAtOnce(d)
  /\ GrantNobody(TRUE, waiters, [phase EXCEPT ![a] = "granted"])
  /\ UNCHANGED dispatchIn

AcquireQueued(a, d) ==
  /\ Enter(a, d)
  /\ ~FreeAtOnce(d)
  /\ MaybeDispatch(holding, Append(waiters, a), [phase EXCEPT ![a] = "waiting"])

TimeoutDisarms(a) ==
  /\ phase[a] = "waiting"
  /\ waiters' = Without(waiters, a)
  /\ phase' = [phase EXCEPT ![a] = "timedOut"]
  /\ dispatchIn' = IF Head(waiters) = a THEN NotArmed ELSE dispatchIn
  /\ UNCHANGED <<holding, sinceRelease, delayOf>>

\* The waiter leaves the queue; a dispatch timer armed for it stays.
Timeout(a) ==
  /\ phase[a] = "waiting"
  /\ waiters' = Without(waiters, a)
  /\ phase' = [phase EXCEPT ![a] = "timedOut"]
  /\ UNCHANGED <<holding, sinceRelease, dispatchIn, delayOf>>

ReleaseTwice(a) ==
  /\ phase[a] \in {"granted", "released"}
  /\ sinceRelease' = 0
  /\ UNCHANGED delayOf
  /\ MaybeDispatch(FALSE, waiters, [phase EXCEPT ![a] = "released"])

ReleaseOnly(a) ==
  /\ phase[a] = "granted"
  /\ sinceRelease' = 0
  /\ GrantNobody(FALSE, waiters, [phase EXCEPT ![a] = "released"])
  /\ UNCHANGED <<dispatchIn, delayOf>>

\* The response starts, or the handler's finally block runs after it has: a
\* second call returns at once.
Release(a) ==
  \/ /\ phase[a] = "granted"
     /\ sinceRelease' = 0
     /\ UNCHANGED delayOf
     /\ MaybeDispatch(FALSE, waiters, [phase EXCEPT ![a] = "released"])
  \/ /\ phase[a] = "released"
     /\ UNCHANGED vars

\* The timer callback does not look at the gap again.
DispatchFires ==
  /\ dispatchIn = 0
  /\ IF holding \/ waiters = << >>
     THEN /\ GrantNobody(holding, waiters, phase)
          /\ dispatchIn' = NotArmed
     ELSE GrantHead(waiters, phase)
  /\ UNCHANGED <<sinceRelease, delayOf>>

Tick ==
  /\ sinceRelease' = IF sinceRelease < LongAgo THEN sinceRelease + 1 ELSE LongAgo
  /\ dispatchIn' = IF dispatchIn > 0 THEN dispatchIn - 1 ELSE dispatchIn
  /\ UNCHANGED <<holding, waiters, phase, delayOf>>

SerialNext ==
  \/ \E a \in Calls :
       \/ \E d \in Delays : AcquireAtOnce(a, d) \/ AcquireQueued(a, d)
       \/ Timeout(a)
       \/ Release(a)
  \/ DispatchFires
  \/ Tick

SerialSpec == SerialInit /\ [][SerialNext]_vars

\* Time passes, a due timer fires in the end, and a response starts or its
\* handler ends.  The wait timers are left out on purpose.
FairSerialSpec ==
  /\ SerialSpec
  /\ WF_vars(Tick)
  /\ WF_vars(DispatchFires)
  /\ \A a \in Calls : WF_vars(Release(a))

-----------------------------------------------------------------------------
(* Properties.                                                             *)

Granted == {a \in Calls : phase[a] = "granted"}
Grants(a) == phase[a] # "granted" /\ phase'[a] = "granted"

SerialTypeOK ==
  /\ holding \in BOOLEAN
  /\ waiters \in Seq(Calls)
  /\ sinceRelease \in 0 .. LongAgo
  /\ dispatchIn \in {NotArmed} \union 0 .. LongAgo
  /\ phase \in [Calls -> Phases]
  /\ delayOf \in [Calls -> 0 .. LongAgo]

\* One user message is in flight at a time, and the flag says so, though each
\* slot is released both when its response starts and when its handler ends.
OneInFlight ==
  /\ \A a, b \in Granted : a = b
  /\ holding <=> Granted # {}

\* Whenever messages wait behind a free slot a dispatch timer is armed: the
\* timeout of the waiter it was armed for loses no wakeup.
NoLostWakeup == ~holding /\ waiters # << >> => dispatchIn # NotArmed

\* A queue that nobody gives up on still drains: every waiter is served
\* without the help of its wait timer.
EveryoneServed == \A a \in Calls : phase[a] = "waiting" ~> phase[a] # "waiting"

GapKept ==
  \A a \in Calls :
    Grants(a) /\ (\A b \in Calls : phase[b] # "timedOut")
      => sinceRelease' >= delayOf'[a]

\* Until the first wait timeout each grant keeps the gap its own call asked
\* for, however late the timers fire and however the gap is edited: a timer
\* that a direct grant overtook is never left behind.
SpacedWithoutTimeouts == [][GapKept]_vars

\* "acquire resolves when the key is free AND at least delayMs has elapsed
\* since that key's last release."
Spaced == [][\A a \in Calls : Grants(a) => sinceRelease' >= delayOf'[a]]_vars

\* "Waiters resolve in strict FIFO order": the queue is a lock handed over in
\* the order of arrival, delayed dispatches and timeouts included.
Lock == INSTANCE FifoLock WITH
  Procs <- Calls,
  holder <- Granted,
  line <- waiters,
  came <- {a \in Calls : phase[a] # "idle"}

ImplementsFifoLock == Lock!LockSpec
=============================================================================
