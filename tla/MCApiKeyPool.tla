---------------------------- MODULE MCApiKeyPool ----------------------------
(* Three keys weighing 1, 2 and 1, two requests of one session, and a      *)
(* request bound to k1 in a session of its own.                            *)
EXTENDS ApiKeyPool, TLC

CONSTANTS k1, k2, k3, r1, r2, r3, s1, s2

MCPlace == (k1 :> 1) @@ (k2 :> 2) @@ (k3 :> 3)
MCWeightOf == (k1 :> 1) @@ (k2 :> 2) @@ (k3 :> 1)
MCSessionOf == [r \in Requests |-> IF r = r3 THEN s2 ELSE s1]
MCPinOf == [r \in Requests |-> IF r = r3 THEN k1 ELSE NoKey]
EitherPolicy == [r \in Requests |-> {"strict", "pool"}]
StrictPolicy == [r \in Requests |-> {"strict"}]

=============================================================================
