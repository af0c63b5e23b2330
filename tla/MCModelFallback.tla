--------------------------- MODULE MCModelFallback ---------------------------
(***************************************************************************)
(* Two requests with the same primary model and the same fallback, the     *)
(* smallest instance in which an attempt at the one ends while the other   *)
(* is under way.  No model is redirected, so every slot is recorded on the *)
(* breaker that gave it.                                                   *)
(***************************************************************************)
EXTENDS ModelFallback

CONSTANTS kimi, mimo, r1, r2

MCPrimaryOf == [r \in {r1, r2} |-> kimi]
MCFallbacksOf == [r \in {r1, r2} |-> <<mimo>>]
MCServedAs == [m \in {kimi, mimo} |-> m]
=============================================================================
