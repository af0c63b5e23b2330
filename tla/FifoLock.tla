------------------------------ MODULE FifoLock ------------------------------
(***************************************************************************)
(* A lock handed over in the order of arrival.  A process enters the line  *)
(* once, may give up while it waits, and leaves when it is done with the   *)
(* lock.  Handing the lock to the head of the line may take part in the    *)
(* step that makes it possible or be put off.                              *)
(***************************************************************************)
EXTENDS Sequences, Waitlist

CONSTANT Procs

VARIABLES
  holder,         \* the process that has the lock, as a set
  line,           \* the processes that wait for it
  came            \* the processes that have entered

lockVars == <<holder, line, came>>

LockInit == holder = {} /\ line = << >> /\ came = {}

\* The lock is free or taken by h, and l waits: the head may get it.
HandOver(h, l) ==
  \/ holder' = h /\ line' = l
  \/ h = {} /\ l # << >> /\ holder' = {Head(l)} /\ line' = Tail(l)

EnterLine(p) ==
  /\ p \notin came
  /\ came' = came \union {p}
  /\ HandOver(holder, Append(line, p))

GiveUp(p) ==
  /\ Queued(line, p)
  /\ line' = Without(line, p)
  /\ UNCHANGED <<holder, came>>

Leave(p) ==
  /\ holder = {p}
  /\ HandOver({}, line)
  /\ UNCHANGED came

Advance == HandOver(holder, line) /\ UNCHANGED came

LockNext == Advance \/ \E p \in Procs : EnterLine(p) \/ GiveUp(p) \/ Leave(p)

LockSpec == LockInit /\ [][LockNext]_lockVars
=============================================================================
