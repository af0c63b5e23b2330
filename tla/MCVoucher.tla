----------------------------- MODULE MCVoucher -----------------------------
(***************************************************************************)
(* An instance of Voucher for TLC: a key redeems two cards, another key    *)
(* tries one of them, and a request that failed or was lost may come       *)
(* again.  The cap of the second card is one that its credit on top of the *)
(* first exceeds only after an edit; one limit an administrator sets lies  *)
(* above that cap.                                                         *)
(***************************************************************************)
EXTENDS Voucher, TLC

CONSTANTS k1, k2, c1, c2, r1, r2, r3

MCKeyOf == (r1 :> k1) @@ (r2 :> k1) @@ (r3 :> k2)
MCCardOf == (r1 :> c1) @@ (r2 :> c2) @@ (r3 :> c1)
MCCredit == (c1 :> 1) @@ (c2 :> 2)
MCCap == (c1 :> 100) @@ (c2 :> 4)
=============================================================================
