------------------------ MODULE MCOutboundAdmission ------------------------
(***************************************************************************)
(* An instance of OutboundAdmission for TLC: the requests share one key,   *)
(* bound to a provider, whose limit is edited between one and two.  With   *)
(* an acquisition for the route and one for the relay each, two requests   *)
(* hold, wait and are turned away under a limit of one, and meet the two   *)
(* limits in any order.                                                    *)
(***************************************************************************)
EXTENDS OutboundAdmission, TLC

CONSTANT key

MCAcqs == Requests \X {"routed", "direct"}
MCKeyOf == [a \in MCAcqs |-> key]
MCLimitsOf == [x \in Keys |-> {1, 2}]

=============================================================================
