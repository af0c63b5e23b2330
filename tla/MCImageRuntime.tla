--------------------------- MODULE MCImageRuntime ---------------------------
(***************************************************************************)
(* An instance of ImageRuntime for TLC: two generations, the second with a *)
(* smaller queue, so that one replaces the other or is rolled back; two    *)
(* tenants with two jobs each on one account with one slot, the jobs of    *)
(* the second tenant also on another account.  In the first generation     *)
(* three jobs wait for one slot, in the second the bound is met, also by   *)
(* the waiters of two accounts together.                                   *)
(***************************************************************************)
EXTENDS ImageRuntime, TLC

CONSTANTS g1, g2, ann, bob, x, y, a1, a2, b1, b2

MCMaxActive == (g1 :> 1) @@ (g2 :> 1)
MCMaxQueued == (g1 :> 3) @@ (g2 :> 1)
MCTenantOf == (a1 :> ann) @@ (a2 :> ann) @@ (b1 :> bob) @@ (b2 :> bob)
MCAccountsOf == (a1 :> {x}) @@ (a2 :> {x}) @@ (b1 :> {x, y}) @@ (b2 :> {x, y})
=============================================================================
