---------------------------- MODULE ImageRuntime ----------------------------
(***************************************************************************)
(* The image runtime of the daemon: the generations of                     *)
(* daemon/src/image-generation/ImageRuntimeManager.ts, each with the       *)
(* scheduler of its jobs, and the configuration transactions               *)
(* (daemon/src/admin/serverConfigTransaction.ts) that replace them.        *)
(*                                                                         *)
(* A request leases the current generation and keeps it to its end; a      *)
(* generation that was replaced is disposed when its last lease ends.      *)
(* Generations are what Schedulers stands for, requests are the Jobs.      *)
(*                                                                         *)
(* Between the publication of a change and its rollback a transaction only *)
(* awaits settled promises, so no timer, I/O event or other request comes  *)
(* in between: the steps that answer those wait for Quiet.                 *)
(***************************************************************************)
EXTENDS ImageScheduler

CONSTANTS
  First,          \* the generation the manager is constructed with
  NoGen

ASSUME RuntimeAssumption == First \in Schedulers /\ NoGen \notin Schedulers

VARIABLES
  phase,          \* GenerationRecord.phase
  change,         \* state of the prepared change that brought a generation
  current,        \* #current
  previous,       \* what a published change replaced
  lease,          \* the generation a request has leased (http or hosted)
  timers,         \* #deferredDisposals: setTimeout 0
  started,        \* records with disposeStarted
  ended,          \* records whose `disposed' promise is settled
  txn,            \* the change a transaction has published and not yet kept
  closed          \* #disposed

runtimeVars ==
  <<phase, change, current, previous, lease, timers, started, ended, txn, closed>>
vars == <<schedVars, runtimeVars>>

Gens == Schedulers
Phases == {"unused", "prepared", "current", "draining", "disposing", "disposed"}
ChangeStates == {"none", "prepared", "published", "disposed"}

\* The operators named DisposeAtOnce, ReturnEarly and NoTimer are faulty
\* variants of the operator that follows them.

RuntimeInit ==
  /\ SchedInit
  /\ phase = [g \in Gens |-> IF g = First THEN "current" ELSE "unused"]
  /\ change = [g \in Gens |-> "none"]
  /\ current = First
  /\ previous = [g \in Gens |-> NoGen]
  /\ lease = [j \in Jobs |-> NoGen]
  /\ timers = {}
  /\ started = {}
  /\ ended = {}
  /\ txn = NoGen
  /\ closed = FALSE

Quiet == txn = NoGen

Leased(g) == \E j \in Jobs : lease[j] = g

-----------------------------------------------------------------------------
(* Leases: #forward, inspectCapability and acquireHosted.                  *)

\* #disposeIfDrained(g) where ph is the phase of the records, `drained' says
\* that no lease on g is left and ts are the pending timers.
DisposeIfDrained(g, ph, drained, ts) ==
  IF drained /\ (ph[g] = "draining" \/ closed) /\ g \notin started
  THEN /\ phase' = [ph EXCEPT ![g] = "disposing"]
       /\ started' = started \cup {g}
       /\ timers' = ts \ {g}
  ELSE /\ phase' = ph
       /\ timers' = ts
       /\ UNCHANGED started

AcquireCurrent(j) ==
  /\ Quiet
  /\ ~closed
  /\ Enter(j)
  /\ lease' = [lease EXCEPT ![j] = current]
  /\ UNCHANGED <<phase, change, current, previous, timers, started, ended, txn, closed>>

\* The provider of the leased generation acquires the slot of an account.
SubmitJob(j) ==
  /\ Quiet
  /\ \/ AcquireRefused(j)
     \/ \E a \in AccountsOf[j] : Acquire(j, <<lease[j], a>>)
  /\ UNCHANGED runtimeVars

EndWait(j) == Quiet /\ RemoveWaiter(j) /\ UNCHANGED runtimeVars

EndJob(j) == Quiet /\ Release(j) /\ UNCHANGED runtimeVars

DropLease(j) ==
  /\ lease' = [lease EXCEPT ![j] = NoGen]
  /\ DisposeIfDrained(lease[j], phase, \A i \in Jobs \ {j} : lease[i] # lease[j], timers)
  /\ UNCHANGED <<change, current, previous, ended, txn, closed>>

ReturnEarly(j) ==
  /\ Quiet
  /\ lease[j] # NoGen
  /\ Leave(j) \/ (job[j] \in {"waiting", "running"} /\ UNCHANGED schedVars)
  /\ DropLease(j)

\* #release(), once the handler is through, or once the openings and scopes
\* of a hosted request have settled: no job of the request is left.
Return(j) ==
  /\ Quiet
  /\ lease[j] # NoGen
  /\ Leave(j)
  /\ DropLease(j)

-----------------------------------------------------------------------------
(* Disposal.                                                               *)

NoTimer(g, ts) == ts

\* #scheduleDrainedDisposal(g)
Schedule(g, ts) == IF Leased(g) THEN ts ELSE ts \cup {g}

TimerFires(g) ==
  /\ Quiet
  /\ g \in timers
  /\ DisposeIfDrained(g, phase, ~Leased(g), timers \ {g})
  /\ UNCHANGED <<schedVars, change, current, previous, lease, ended, txn, closed>>

\* The microtask that disposes the generation, which shuts its scheduler down.
Dispose(g) ==
  /\ g \in started \ ended
  /\ Shutdown(g)
  /\ phase' = [phase EXCEPT ![g] = "disposed"]
  /\ ended' = ended \cup {g}
  /\ UNCHANGED <<change, current, previous, lease, timers, started, txn, closed>>

-----------------------------------------------------------------------------
(* Configuration transactions.                                             *)

Prepare(g) ==
  /\ Quiet
  /\ ~closed
  /\ phase[g] = "unused"
  /\ phase' = [phase EXCEPT ![g] = "prepared"]
  /\ change' = [change EXCEPT ![g] = "prepared"]
  /\ UNCHANGED <<schedVars, current, previous, lease, timers, started, ended, txn, closed>>

\* dispose() of a change that is not published: another change could not be
\* prepared, the configuration could not be stored, the storage mount could
\* not be published, or the manager has been disposed.
Discard(g) ==
  /\ Quiet
  /\ change[g] = "prepared"
  /\ change' = [change EXCEPT ![g] = "disposed"]
  /\ DisposeIfDrained(g, [phase EXCEPT ![g] = "draining"], ~Leased(g), timers)
  /\ UNCHANGED <<schedVars, current, previous, lease, ended, txn, closed>>

Swap(g) ==
  /\ previous' = [previous EXCEPT ![g] = current]
  /\ current' = g
  /\ change' = [change EXCEPT ![g] = "published"]
  /\ txn' = g

DisposeAtOnce(g) ==
  /\ Quiet
  /\ change[g] = "prepared"
  /\ ~closed
  /\ Swap(g)
  /\ DisposeIfDrained(current, [phase EXCEPT ![current] = "draining", ![g] = "current"],
                      ~Leased(current), timers)
  /\ UNCHANGED <<schedVars, lease, ended, closed>>

Publish(g) ==
  /\ Quiet
  /\ change[g] = "prepared"
  /\ ~closed
  /\ Swap(g)
  /\ phase' = [phase EXCEPT ![current] = "draining", ![g] = "current"]
  /\ timers' = Schedule(current, timers)
  /\ UNCHANGED <<schedVars, lease, started, ended, closed>>

\* The other changes of the transaction are published too.
Commit ==
  /\ txn # NoGen
  /\ txn' = NoGen
  /\ UNCHANGED <<schedVars, phase, change, current, previous, lease, timers, started,
                 ended, closed>>

\* rollback() of the published change g, then its dispose().
Restore(g) ==
  /\ phase[previous[g]] # "disposed"
  /\ current' = previous[g]
  /\ change' = [change EXCEPT ![g] = "disposed"]
  /\ DisposeIfDrained(g, [phase EXCEPT ![previous[g]] = "current", ![g] = "draining"],
                      ~Leased(g), timers \ {previous[g]})

\* One of the other changes cannot be published.
RollBack ==
  /\ txn # NoGen
  /\ Restore(txn)
  /\ txn' = NoGen
  /\ UNCHANGED <<schedVars, previous, lease, ended, closed>>

\* dispose() of the manager, when the daemon stops.
Close ==
  /\ Quiet
  /\ ~closed
  /\ closed' = TRUE
  /\ timers' = {}
  /\ LET open == {g \in Gens : phase[g] \in {"prepared", "current", "draining"}}
         drained == {g \in open \ started : ~Leased(g)}
     IN  /\ phase' = [g \in Gens |-> IF g \in drained THEN "disposing"
                                     ELSE IF g \in open THEN "draining" ELSE phase[g]]
         /\ started' = started \cup drained
  /\ UNCHANGED <<schedVars, change, current, previous, lease, ended, txn>>

-----------------------------------------------------------------------------

Request(j) ==
  AcquireCurrent(j) \/ SubmitJob(j) \/ EndWait(j) \/ EndJob(j) \/ Return(j)

Generation(g) ==
  TimerFires(g) \/ Dispose(g) \/ Prepare(g) \/ Discard(g) \/ Publish(g)

RuntimeNext ==
  \/ \E j \in Jobs : Request(j)
  \/ \E g \in Gens : Generation(g)
  \/ Commit \/ RollBack \/ Close

RuntimeSpec == RuntimeInit /\ [][RuntimeNext]_vars

\* What happens without anybody's doing: handlers run on, a running job ends at
\* the latest by its generation timeout, timers and microtasks run.
Progress ==
  \/ \E j \in Jobs : SubmitJob(j) \/ EndJob(j) \/ Return(j)
  \/ \E g \in Gens : TimerFires(g) \/ Dispose(g)
  \/ Commit \/ RollBack

\* The event loop does not stop while something can go on.  Nothing obliges a
\* wait to time out, a caller to abort or an administrator to change anything.
FairRuntimeSpec == RuntimeSpec /\ WF_vars(Progress)

-----------------------------------------------------------------------------
(* Properties.                                                             *)

ImageTypeOK ==
  /\ SchedTypeOK
  /\ phase \in [Gens -> Phases]
  /\ change \in [Gens -> ChangeStates]
  /\ current \in Gens
  /\ previous \in [Gens -> Gens \cup {NoGen}]
  /\ lease \in [Jobs -> Gens \cup {NoGen}]
  /\ timers \subseteq Gens
  /\ started \subseteq Gens
  /\ ended \subseteq started
  /\ txn \in Gens \cup {NoGen}
  /\ closed \in BOOLEAN

\* Until the daemon stops, the generation new requests are given is alive:
\* neither a publication that is rolled back nor the deferred disposal of the
\* generation it had replaced leaves a disposed one in service.
CurrentAlive == ~closed => phase[current] = "current" /\ current \notin started

\* A request's generation is not disposed under it, and its job is at the
\* scheduler of that generation: no shutdown of a scheduler ever finds a job
\* waiting or running.
NoJobCutOff ==
  \A j \in Jobs :
    /\ lease[j] # NoGen => lease[j] \notin started
    /\ job[j] \in {"waiting", "running"} => place[j][1] = lease[j]

\* A generation that was replaced, given up or rolled back is disposed, whatever
\* leases it had and in whichever order they ended.
GenerationsEnd ==
  \A g \in Gens : Quiet /\ phase[g] \in {"draining", "disposing"} ~> g \in ended

\* Whoever waits for a slot is served or gives up, on the strength of other
\* jobs ending alone: by the rotation no tenant is passed over for ever.
WaitersServed == \A j \in Jobs : Waiting(j) ~> ~Waiting(j)
=============================================================================
