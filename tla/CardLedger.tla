----------------------------- MODULE CardLedger -----------------------------
(***************************************************************************)
(* What redemption cards promise.  A card raises the limit of one key,     *)
(* once, in one step, from what the limit is at that moment.  A card of a  *)
(* key that has been revoked may be given back or kept; what a revoked     *)
(* key's limit was no longer matters.                                      *)
(***************************************************************************)
EXTENDS Integers

CONSTANTS Keys, Cards, Credit, Cap, Free, Gone

VARIABLES
  owner,          \* the key a card was spent on, Free or Gone
  balance,        \* the limit of a key
  standing,       \* "live", "disabled" or "revoked"
  changes         \* the administrator's changes to keys so far

ledgerVars == <<owner, balance, standing, changes>>

\* A card never raises a limit past its cap.
Raised(n, c) == IF n + Credit[c] > Cap[c] THEN Cap[c] ELSE n + Credit[c]

LedgerInit ==
  /\ owner = [c \in Cards |-> Free]
  /\ balance = [k \in Keys |-> 0]
  /\ standing = [k \in Keys |-> "live"]
  /\ changes = 0

Spend(k, c) ==
  /\ owner[c] = Free
  /\ standing[k] # "revoked"
  /\ owner' = [owner EXCEPT ![c] = k]
  /\ balance' = [balance EXCEPT ![k] = Raised(@, c)]
  /\ UNCHANGED <<standing, changes>>

Withdraw(c) ==
  /\ owner[c] = Free
  /\ owner' = [owner EXCEPT ![c] = Gone]
  /\ UNCHANGED <<balance, standing, changes>>

\* The administrator sets another limit, or the edit is lost on an open grant.
EditLimit(k) ==
  /\ standing[k] # "revoked"
  /\ changes' = changes + 1
  /\ balance'[k] \in Nat
  /\ balance' = [balance EXCEPT ![k] = balance'[k]]
  /\ UNCHANGED <<owner, standing>>

Toggle(k) ==
  /\ standing[k] # "revoked"
  /\ changes' = changes + 1
  /\ standing' = [standing EXCEPT ![k] = IF @ = "live" THEN "disabled" ELSE "live"]
  /\ UNCHANGED <<owner, balance>>

CloseKey(k) ==
  /\ standing[k] # "revoked"
  /\ changes' = changes + 1
  /\ standing' = [standing EXCEPT ![k] = "revoked"]
  /\ balance' = [balance EXCEPT ![k] = 0]
  /\ UNCHANGED owner

\* A redemption that fails on a revoked key takes the card and returns it.
Hold(k, c) ==
  /\ standing[k] = "revoked"
  /\ owner[c] = Free
  /\ owner' = [owner EXCEPT ![c] = k]
  /\ UNCHANGED <<balance, standing, changes>>

GiveBack(c) ==
  /\ owner[c] \in Keys
  /\ standing[owner[c]] = "revoked"
  /\ owner' = [owner EXCEPT ![c] = Free]
  /\ UNCHANGED <<balance, standing, changes>>

LedgerNext ==
  \/ \E k \in Keys : EditLimit(k) \/ Toggle(k) \/ CloseKey(k)
  \/ \E c \in Cards : Withdraw(c) \/ GiveBack(c)
  \/ \E k \in Keys, c \in Cards : Spend(k, c) \/ Hold(k, c)

LedgerSpec == LedgerInit /\ [][LedgerNext]_ledgerVars
=============================================================================
