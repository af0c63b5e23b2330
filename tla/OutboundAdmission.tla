------------------------- MODULE OutboundAdmission -------------------------
(***************************************************************************)
(* How the request handler of the outbound API server uses the concurrency *)
(* gate (core/src/outbound-api/outboundApiRouter.ts: handleOutboundRequest *)
(* and relayDirectUpstream).  A request holds at most two acquisitions:    *)
(* the routed one, made before its body is read, and the direct one, made  *)
(* by the relay to the provider the key is bound to.  The relay is entered *)
(* at once for a path the gateway does not serve, or as the fallback of a  *)
(* routed request no route can serve, which then holds its routed slot.    *)
(*                                                                         *)
(* Node runs one callback to its end, then the continuations it resolved,  *)
(* and only then the next event.  `turn' holds the rest of a 'close'       *)
(* emission, Resumable the handlers with a settled await, and an event     *)
(* happens only when there is neither.                                     *)
(***************************************************************************)
EXTENDS ConcurrencyGate

CONSTANTS
  Requests,       \* each is handled once
  DirectKeys      \* keys bound to a provider (verified.boundUpstream)

Routed(r) == <<r, "routed">>
Direct(r) == <<r, "direct">>

ASSUME AdmissionAssumption ==
  /\ Acqs = Requests \X {"routed", "direct"}
  /\ \A r \in Requests : KeyOf[Routed(r)] = KeyOf[Direct(r)]
  /\ DirectKeys \subseteq Keys

VARIABLES
  pc,             \* where each handler is
  conn,           \* "open" until the response emits 'close', then "closed"
  onClose,        \* the close listeners of each response, in their order
  turn            \* listeners the current 'close' emission has still to call

wireVars == <<pc, conn, onClose, turn>>
vars == <<gateVars, wireVars>>

PCs == {"auth", "routedWait", "body", "dispatch", "provider", "directWait", "relay",
        "finally", "hung", "done"}

Listener(kind, a) == [kind |-> kind, acq |-> a]
Listeners == [kind : {"cancel", "release"}, acq : Acqs]

AdmissionInit ==
  /\ GateInit
  /\ pc = [r \in Requests |-> "auth"]
  /\ conn = [r \in Requests |-> "open"]
  /\ onClose = [r \in Requests |-> << >>]
  /\ turn = << >>

Goto(r, l) == pc' = [pc EXCEPT ![r] = l]

\* Handlers whose await has settled, or that have reached their finally block.
Resumable(r) ==
  \/ pc[r] = "routedWait" /\ ~Waiting(Routed(r))
  \/ pc[r] = "directWait" /\ ~Waiting(Direct(r))
  \/ pc[r] = "finally"

Idle == turn = << >> /\ ~\E r \in Requests : Resumable(r)

\* The request went through the routed gate: its relay is the fallback.
Nested(r) == phase[Routed(r)] # "idle"

-----------------------------------------------------------------------------
(* Authentication, quota and the gate.                                     *)

\* 401, 402, 403, 429 and the other answers given before the gate.
Refuse(r) ==
  /\ Idle
  /\ pc[r] = "auth"
  /\ Goto(r, "done")
  /\ UNCHANGED <<gateVars, conn, onClose, turn>>

\* A listener bound to a response that has closed is never called.
Bind(r, listeners) ==
  onClose' = [onClose EXCEPT ![r] = IF conn[r] = "open" THEN listeners ELSE << >>]

\* The wait on `acquisition.granted' begins with its cancel bound to 'close'.
AwaitGrant(r, a, l) ==
  /\ Bind(r, Append(onClose[r], Listener("cancel", a)))
  /\ Goto(r, l)
  /\ UNCHANGED <<conn, turn>>

EnterRouted(r) ==
  /\ Idle
  /\ pc[r] = "auth"
  /\ \E limit \in LimitsOf[KeyOf[Routed(r)]] \ {0} : Acquire(Routed(r), limit)
  /\ AwaitGrant(r, Routed(r), "routedWait")

\* An unsupported path on a key bound to a provider.
EnterDirect(r) ==
  /\ Idle
  /\ pc[r] = "auth"
  /\ KeyOf[Routed(r)] \in DirectKeys
  /\ Goto(r, "provider")
  /\ UNCHANGED <<gateVars, conn, onClose, turn>>

\* readBody(): on a request whose connection has gone, the data, end and
\* error events have all been emitted already and the promise never settles.
ReadBody(r) == Goto(r, IF conn[r] = "open" THEN "body" ELSE "hung")

\* A faulty variant of Others: removeAllListeners('close').
NoOthers(r, a) == << >>

\* removeListener('close', cancelOnClose), which finds nothing once 'close'
\* has been emitted.
Others(r, a) ==
  LET cancel == Listener("cancel", a)
  IN  IF Queued(onClose[r], cancel) THEN Without(onClose[r], cancel) ELSE onClose[r]

ResumeRouted(r) ==
  /\ turn = << >>
  /\ pc[r] = "routedWait"
  /\ \/ /\ phase[Routed(r)] \in {"granted", "released"}
        /\ Bind(r, Append(Others(r, Routed(r)), Listener("release", Routed(r))))
        /\ ReadBody(r)
     \/ /\ phase[Routed(r)] \in {"full", "timedOut", "cancelled"}
        /\ Bind(r, Others(r, Routed(r)))
        /\ Goto(r, "done")
  /\ UNCHANGED <<gateVars, conn, turn>>

-----------------------------------------------------------------------------
(* Body, route, dispatch.                                                  *)

\* The body arrives.  A routed request is dispatched, or handed to the relay
\* with its buffered body when no route serves it; it ends at once when the
\* body is not JSON, no route is found or the serial queue times out.  When
\* the client goes away first, the request emits an error and readBody rejects.
BodyRead(r) ==
  /\ Idle
  /\ pc[r] = "body"
  /\ \/ Nested(r) /\ conn[r] = "open" /\ Goto(r, "dispatch")
     \/ Nested(r) /\ conn[r] = "open" /\ KeyOf[Routed(r)] \in DirectKeys /\ Goto(r, "provider")
     \/ ~Nested(r) /\ conn[r] = "open" /\ Goto(r, "relay")
     \/ (Nested(r) \/ conn[r] = "closed") /\ Goto(r, "finally")
  /\ UNCHANGED <<gateVars, conn, onClose, turn>>

DispatchEnds(r) ==
  /\ Idle
  /\ pc[r] = "dispatch"
  /\ Goto(r, "finally")
  /\ UNCHANGED <<gateVars, conn, onClose, turn>>

\* The finally block: releaseConcurrency, when a slot was acquired.
Finally(r) ==
  /\ turn = << >>
  /\ pc[r] = "finally"
  /\ Goto(r, "done")
  /\ IF phase[Routed(r)] \in {"granted", "released"}
     THEN Release(Routed(r))
     ELSE UNCHANGED gateVars
  /\ UNCHANGED <<conn, onClose, turn>>

-----------------------------------------------------------------------------
(* relayDirectUpstream.                                                    *)

\* getProvider() fails to find the provider or its base URL (503), or the
\* relay goes through the gate, under the limit the request was verified with.
EnterRelay(r) ==
  /\ Idle
  /\ pc[r] = "provider"
  /\ \/ /\ Goto(r, "finally")
        /\ UNCHANGED <<gateVars, conn, onClose, turn>>
     \/ /\ \E limit \in IF Nested(r) THEN {cap[Routed(r)]}
                                     ELSE LimitsOf[KeyOf[Routed(r)]] \ {0} :
             Acquire(Direct(r), limit)
        /\ AwaitGrant(r, Direct(r), "directWait")

ResumeDirect(r) ==
  /\ turn = << >>
  /\ pc[r] = "directWait"
  /\ \/ /\ phase[Direct(r)] \in {"granted", "released"}
        /\ Bind(r, Append(Others(r, Direct(r)), Listener("release", Direct(r))))
        /\ IF Nested(r) THEN Goto(r, "relay") ELSE ReadBody(r)
     \/ /\ phase[Direct(r)] \in {"full", "timedOut", "cancelled"}
        /\ Bind(r, Others(r, Direct(r)))
        /\ Goto(r, "finally")
  /\ UNCHANGED <<gateVars, conn, turn>>

\* The upstream's answer has been piped into the response and the response
\* has closed; or the fetch fails, always when the client has gone.
RelayEnds(r) ==
  /\ Idle
  /\ pc[r] = "relay"
  /\ Goto(r, "finally")
  /\ UNCHANGED <<gateVars, conn, onClose, turn>>

-----------------------------------------------------------------------------
(* Events: the wait timer, and 'close' with its listeners.                 *)

WaitTimeout(a) ==
  /\ Idle
  /\ Timeout(a)
  /\ UNCHANGED wireVars

\* The client disconnects, or the response has been sent.
Close(r) ==
  /\ Idle
  /\ conn[r] = "open"
  /\ conn' = [conn EXCEPT ![r] = "closed"]
  /\ turn' = onClose[r]
  /\ onClose' = [onClose EXCEPT ![r] = << >>]
  /\ UNCHANGED <<gateVars, pc>>

\* The next listener of the emission: release(), or cancel(), which does
\* nothing once the acquisition is settled.
CallListener ==
  /\ turn # << >>
  /\ turn' = Tail(turn)
  /\ LET l == Head(turn) IN
     \/ l.kind = "release" /\ Release(l.acq)
     \/ l.kind = "cancel" /\ Cancel(l.acq)
     \/ l.kind = "cancel" /\ ~Waiting(l.acq) /\ UNCHANGED gateVars
  /\ UNCHANGED <<pc, conn, onClose>>

-----------------------------------------------------------------------------

Handle(r) ==
  \/ EnterRouted(r) \/ EnterDirect(r) \/ Refuse(r) \/ ResumeRouted(r)
  \/ BodyRead(r) \/ DispatchEnds(r) \/ Finally(r)
  \/ EnterRelay(r) \/ ResumeDirect(r) \/ RelayEnds(r)

AdmissionNext ==
  \/ \E r \in Requests : Handle(r) \/ Close(r)
  \/ \E a \in Acqs : WaitTimeout(a)
  \/ CallListener

AdmissionSpec == AdmissionInit /\ [][AdmissionNext]_vars

\* Node keeps running handlers, timers and listeners; an answered response
\* closes.  Nothing obliges a client to stay or to leave before that.
FairAdmissionSpec ==
  /\ AdmissionSpec
  /\ \A r \in Requests :
       /\ WF_vars(Handle(r))
       /\ WF_vars(pc[r] = "done" /\ Close(r))
  /\ \A a \in Acqs : WF_vars(WaitTimeout(a))
  /\ WF_vars(CallListener)

-----------------------------------------------------------------------------
(* Properties.                                                             *)

AdmissionTypeOK ==
  /\ TypeOK
  /\ pc \in [Requests -> PCs]
  /\ conn \in [Requests -> {"open", "closed"}]
  /\ onClose \in [Requests -> Seq(Listeners)]
  /\ turn \in Seq(Listeners)

\* First come, first served as long as the limit is not edited: a slot goes
\* to a newcomer only when nobody waits, and to the head of the queue
\* otherwise ("Waiters resolve in strict FIFO order").
InOrder ==
  \A a \in Acqs :
    LET k == KeyOf[a] IN
    (/\ \E n \in LimitsOf[k] : Unedited(k, n)'
     /\ phase[a] # "granted" /\ phase'[a] = "granted") =>
      IF Waiting(a) THEN a = Head(waiters[k]) ELSE waiters[k] = << >>

GrantsInOrder == [][InOrder]_vars

\* While its connection is open, whatever slot a request holds is given back
\* the moment the client goes away: the release stays bound to 'close' at
\* every stage of the handler, also when a second acquisition binds and
\* unbinds its own listeners.  And no handler ends with its routed slot held.
HeldSlotsBound ==
  \A r \in Requests :
    /\ \A a \in {Routed(r), Direct(r)} :
         phase[a] = "granted" /\ conn[r] = "open" =>
           \/ pc[r] = IF a = Routed(r) THEN "routedWait" ELSE "directWait"
           \/ Queued(onClose[r], Listener("release", a))
    /\ pc[r] = "done" => phase[Routed(r)] # "granted"

\* A handler gives its routed slot back on every path through the body, the
\* route, the dispatch or the relay, even when the relay it falls back to
\* waits at the gate behind the slot the same request holds.  The exception
\* is a handler whose client had gone before it reached the gate.
RoutedSlotReturned ==
  \A r \in Requests :
    phase[Routed(r)] = "granted" ~> phase[Routed(r)] = "released" \/ pc[r] = "hung"

\* "A still-WAITING acquisition is cancelled when the client disconnects
\* mid-queue" (outboundApiRouter.ts:1977-1981): it is not granted a slot that
\* nothing will give back.  The relay of a request, which waits behind the slot
\* that the request holds itself, is granted one.
NoGrantAfterDisconnect ==
  [][\A r \in Requests : \A a \in {Routed(r), Direct(r)} :
       conn[r] = "closed" /\ Waiting(a) => phase'[a] # "granted"]_vars
=============================================================================
