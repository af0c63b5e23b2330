---------------------------- MODULE MCRouteLease ----------------------------
(* Three calls with one key, one of them with another payload, and one     *)
(* with a key of its own.                                                  *)
EXTENDS RouteLease, TLC

CONSTANTS c1, c2, c3, c4, x1, x2

MCKeyOf == [c \in Calls |-> IF c = c4 THEN x2 ELSE x1]
MCPayloadOf == [c \in Calls |-> IF c = c3 THEN 2 ELSE 1]
MCTtlOf == [c \in Calls |-> IF c = c3 THEN 2 ELSE 1]

=============================================================================
