------------------------------ MODULE Voucher ------------------------------
(***************************************************************************)
(* Redemption cards: the redeem endpoint of the outbound API server        *)
(* (core/src/outbound-api/voucherRedeem.ts, keyedMutex.ts, voucher.ts) on  *)
(* the daemon's two files, the cards (ports/JsonVoucherDb.ts) and the keys *)
(* (ports/JsonOutboundKeyDb.ts).                                           *)
(*                                                                         *)
(* A redemption is a chain of calls on the two files, one step each, under *)
(* a mutex per key.  Redemptions of different keys interleave at every     *)
(* call.  The daemon may be killed and restarted between any two calls,    *)
(* and any write may fail: the files keep what was written, the mutex and  *)
(* the requests are lost or fail.  The calls settle at once, so an         *)
(* administrator's request never falls between the calls of a chain        *)
(* (Quiet); it does fall between authentication and the chain, which the   *)
(* request's body separates, and between a crash and the retry.            *)
(*                                                                         *)
(* A card of type renewal moves expiresAt the way a credit card moves      *)
(* totalCostLimitUsd; the model has one such field, and 0 where it is      *)
(* absent.                                                                 *)
(***************************************************************************)
EXTENDS Integers, Waitlist

CONSTANTS
  Keys,           \* outbound API keys
  Cards,          \* redemption cards
  Requests,       \* redemption requests, retries included
  KeyOf, CardOf,  \* whose request it is and which code it presents
  Credit,         \* creditUsd of a card
  Cap,            \* maxTotalCostLimitUsd of a card, or a number never reached
  Limits,         \* limits an administrator may set
  MaxChanges,     \* bound: how often an administrator changes a key
  NoKey,          \* no redeemedByKeyId; the owner of a card not redeemed
  Gone            \* the owner, in the ledger, of a card that was revoked

ASSUME VoucherAssumption ==
  /\ KeyOf \in [Requests -> Keys]
  /\ CardOf \in [Requests -> Cards]
  /\ Credit \in [Cards -> Nat \ {0}]
  /\ Cap \in [Cards -> Nat \ {0}]
  /\ Limits \subseteq Nat
  /\ MaxChanges \in Nat
  /\ NoKey \notin Keys /\ Gone \notin Keys \cup {NoKey}

VARIABLES
  status, redeemedBy, granted, grantApplied,    \* vouchers.json
  limit, keyState, changes,                       \* keys.json
  mutex,          \* KeyedMutex.tails: the redemptions of a key, the first runs
  pc,             \* the call a request makes next
  answer,         \* how a request ended
  todo,           \* the stranded cards a request has listed and not yet settled
  target          \* the absolute limit a request has computed or read back

cardVars == <<status, redeemedBy, granted, grantApplied>>
keyVars == <<limit, keyState, changes>>
taskVars == <<mutex, pc, answer, todo, target>>
vars == <<cardVars, keyVars, taskVars>>

Statuses == {"none", "unredeemed", "redeemed", "revoked"}
KeyStates == {"live", "disabled", "revoked"}
Calls == {"list", "settle", "settled", "lookup", "read", "flip", "lost", "apply",
          "revert", "mark"}
Answers == {"none", "ok", "refused"}

\* The operators named SettleNothing, CreditAgain, SettledUnmarked, RoomLeft,
\* OkAnyway and KeepMutex are faulty variants of the operator that follows them.

Init ==
  /\ status = [c \in Cards |-> "none"]
  /\ redeemedBy = [c \in Cards |-> NoKey]
  /\ granted = [c \in Cards |-> 0]
  /\ grantApplied = [c \in Cards |-> FALSE]
  /\ limit = [k \in Keys |-> 0]
  /\ keyState = [k \in Keys |-> "live"]
  /\ changes = 0
  /\ mutex = [k \in Keys |-> << >>]
  /\ pc = [r \in Requests |-> "idle"]
  /\ answer = [r \in Requests |-> "none"]
  /\ todo = [r \in Requests |-> {}]
  /\ target = [r \in Requests |-> 0]

Quiet == \A k \in Keys : mutex[k] = << >>

\* redeemed, and its grant not known to be applied.
Stranded(k) ==
  {c \in Cards : status[c] = "redeemed" /\ ~grantApplied[c] /\ redeemedBy[c] = k}

-----------------------------------------------------------------------------
(* The chain.  Turn(r, call): it is the turn of r, and its next call.      *)

Turn(r, call) ==
  /\ mutex[KeyOf[r]] # << >>
  /\ Head(mutex[KeyOf[r]]) = r
  /\ pc[r] = call

Goto(r, call) ==
  /\ pc' = [pc EXCEPT ![r] = call]
  /\ UNCHANGED <<mutex, answer>>

\* The same, with nothing kept but the next call.
GoOn(r, call) == Goto(r, call) /\ UNCHANGED <<todo, target>>

\* runExclusive's finally, after fn has returned or thrown.
ReleaseMutex(r) ==
  /\ mutex' = [mutex EXCEPT ![KeyOf[r]] = Tail(@)]
  /\ todo' = [todo EXCEPT ![r] = {}]
  /\ target' = [target EXCEPT ![r] = 0]

EndTurn(r, a) ==
  /\ pc' = [pc EXCEPT ![r] = "over"]
  /\ answer' = [answer EXCEPT ![r] = a]
  /\ ReleaseMutex(r)

\* outboundApiKeysSetPolicy(k, {limit: n}), on a row that is not revoked.
SetPolicy(k, n) == limit' = [limit EXCEPT ![k] = n] /\ UNCHANGED <<keyState, changes>>

\* A verified key's request; its body is still to come.
Arrive(r) ==
  /\ pc[r] = "idle"
  /\ keyState[KeyOf[r]] = "live"
  /\ pc' = [pc EXCEPT ![r] = "body"]
  /\ UNCHANGED <<cardVars, keyVars, mutex, answer, todo, target>>

\* Not enabled, too many attempts, a body that fails or has no code.
Reject(r) ==
  /\ pc[r] = "body"
  /\ pc' = [pc EXCEPT ![r] = "idle"]
  /\ UNCHANGED <<cardVars, keyVars, mutex, answer, todo, target>>

\* runExclusive: r starts when every earlier redemption of the key has settled.
Enter(r) ==
  /\ pc[r] = "body"
  /\ pc' = [pc EXCEPT ![r] = "list"]
  /\ mutex' = [mutex EXCEPT ![KeyOf[r]] = Append(@, r)]
  /\ UNCHANGED <<cardVars, keyVars, answer, todo, target>>

SettleNothing(r) ==
  /\ Turn(r, "list")
  /\ todo' = [todo EXCEPT ![r] = {}]
  /\ Goto(r, "lookup")
  /\ UNCHANGED <<cardVars, keyVars, target>>

\* reconcileStranded
List(r) ==
  /\ Turn(r, "list")
  /\ todo' = [todo EXCEPT ![r] = Stranded(KeyOf[r])]
  /\ Goto(r, IF todo'[r] = {} THEN "lookup" ELSE "settle")
  /\ UNCHANGED <<cardVars, keyVars, target>>

\* The stranded card taken next.  The code takes the oldest; of a key that is
\* not revoked there never is more than one (OneUnsettled).
Oldest(S) == CHOOSE c \in S : TRUE

CreditAgain(r) ==
  LET k == KeyOf[r]
      c == Oldest(todo[r])
  IN  /\ Turn(r, "settle")
      /\ IF keyState[k] # "revoked"
         THEN SetPolicy(k, limit[k] + Credit[c]) /\ Goto(r, "settled") /\ UNCHANGED todo
         ELSE Goto(r, "lookup") /\ UNCHANGED <<todo, keyVars>>
      /\ UNCHANGED <<cardVars, target>>

Settle(r) ==
  LET k == KeyOf[r]
      c == Oldest(todo[r])
      left == todo[r] \ {c}
  IN  /\ Turn(r, "settle")
      /\ IF keyState[k] # "revoked"
         THEN SetPolicy(k, granted[c]) /\ Goto(r, "settled") /\ UNCHANGED todo
         ELSE /\ todo' = [todo EXCEPT ![r] = left]
              /\ Goto(r, IF left = {} THEN "lookup" ELSE "settle")
              /\ UNCHANGED keyVars
      /\ UNCHANGED <<cardVars, target>>

SettledUnmarked(r) ==
  LET left == todo[r] \ {Oldest(todo[r])}
  IN  /\ Turn(r, "settled")
      /\ todo' = [todo EXCEPT ![r] = left]
      /\ Goto(r, IF left = {} THEN "lookup" ELSE "settle")
      /\ UNCHANGED <<cardVars, keyVars, target>>

Settled(r) ==
  LET c == Oldest(todo[r])
      left == todo[r] \ {c}
  IN  /\ Turn(r, "settled")
      /\ grantApplied' = [grantApplied EXCEPT ![c] = TRUE]
      /\ todo' = [todo EXCEPT ![r] = left]
      /\ Goto(r, IF left = {} THEN "lookup" ELSE "settle")
      /\ UNCHANGED <<status, redeemedBy, granted, keyVars, target>>

\* What the handler does with a card it finds redeemed.
FoundRedeemed(r) ==
  LET c == CardOf[r] IN
  IF redeemedBy[c] # KeyOf[r] THEN EndTurn(r, "refused")
  ELSE IF grantApplied[c] THEN EndTurn(r, "ok")
  ELSE Goto(r, "apply") /\ target' = [target EXCEPT ![r] = granted[c]] /\ UNCHANGED todo

Lookup(r) ==
  /\ Turn(r, "lookup")
  /\ \/ status[CardOf[r]] = "redeemed" /\ FoundRedeemed(r)
     \/ status[CardOf[r]] = "unredeemed" /\ GoOn(r, "read")
     \/ status[CardOf[r]] \in {"none", "revoked"} /\ EndTurn(r, "refused")
  /\ UNCHANGED <<cardVars, keyVars>>

RoomLeft(n, c) == IF Credit[c] > Cap[c] - n THEN Cap[c] - n ELSE Credit[c]

\* computeVoucherGrant, of a current limit.
ComputeGrant(n, c) == IF n + Credit[c] > Cap[c] THEN Cap[c] ELSE n + Credit[c]

\* The row is only found while the key is enabled and not revoked.
Read(r) ==
  LET k == KeyOf[r] IN
  /\ Turn(r, "read")
  /\ target' = [target EXCEPT
                  ![r] = ComputeGrant(IF keyState[k] = "live" THEN limit[k] ELSE 0, CardOf[r])]
  /\ Goto(r, "flip")
  /\ UNCHANGED <<cardVars, keyVars, todo>>

\* voucherRedeemCas
Flip(r) ==
  LET c == CardOf[r] IN
  /\ Turn(r, "flip")
  /\ IF status[c] = "unredeemed"
     THEN /\ status' = [status EXCEPT ![c] = "redeemed"]
          /\ redeemedBy' = [redeemedBy EXCEPT ![c] = KeyOf[r]]
          /\ granted' = [granted EXCEPT ![c] = target[r]]
          /\ grantApplied' = [grantApplied EXCEPT ![c] = FALSE]
          /\ Goto(r, "apply")
     ELSE Goto(r, "lost") /\ UNCHANGED cardVars
  /\ UNCHANGED <<keyVars, todo, target>>

Lost(r) ==
  /\ Turn(r, "lost")
  /\ IF status[CardOf[r]] = "redeemed" THEN FoundRedeemed(r) ELSE EndTurn(r, "refused")
  /\ UNCHANGED <<cardVars, keyVars>>

OkAnyway(r) ==
  LET k == KeyOf[r] IN
  /\ Turn(r, "apply")
  /\ IF keyState[k] # "revoked"
     THEN SetPolicy(k, target[r]) /\ Goto(r, "mark") /\ UNCHANGED <<todo, target>>
     ELSE EndTurn(r, "ok") /\ UNCHANGED keyVars
  /\ UNCHANGED cardVars

\* applyFirstPass
Apply(r) ==
  LET k == KeyOf[r] IN
  /\ Turn(r, "apply")
  /\ IF keyState[k] # "revoked"
     THEN SetPolicy(k, target[r]) /\ Goto(r, "mark")
     ELSE Goto(r, "revert") /\ UNCHANGED keyVars
  /\ UNCHANGED <<cardVars, todo, target>>

\* voucherRevertRedeem
Revert(r) ==
  LET c == CardOf[r] IN
  /\ Turn(r, "revert")
  /\ EndTurn(r, "refused")
  /\ IF status[c] = "redeemed" /\ ~grantApplied[c] /\ redeemedBy[c] = KeyOf[r]
     THEN /\ status' = [status EXCEPT ![c] = "unredeemed"]
          /\ redeemedBy' = [redeemedBy EXCEPT ![c] = NoKey]
          /\ granted' = [granted EXCEPT ![c] = 0]
     ELSE UNCHANGED <<status, redeemedBy, granted>>
  /\ UNCHANGED <<grantApplied, keyVars>>

\* voucherMarkGrantApplied
Mark(r) ==
  LET c == CardOf[r] IN
  /\ Turn(r, "mark")
  /\ EndTurn(r, "ok")
  /\ IF status[c] = "redeemed" THEN grantApplied' = [grantApplied EXCEPT ![c] = TRUE]
                               ELSE UNCHANGED grantApplied
  /\ UNCHANGED <<status, redeemedBy, granted, keyVars>>

Writes == {"settle", "settled", "flip", "apply", "revert", "mark"}

KeepMutex(r) ==
  /\ \E call \in Writes : Turn(r, call)
  /\ pc' = [pc EXCEPT ![r] = "idle"]
  /\ UNCHANGED <<cardVars, keyVars, mutex, answer, todo, target>>

\* A write fails, and with it the chain; the file stays as it was.  That a
\* write is made whole or not at all is an assumption: vouchers.json is written
\* in place, and a torn file would be read as an empty one.
Throw(r) ==
  /\ \E call \in Writes : Turn(r, call)
  /\ pc' = [pc EXCEPT ![r] = "idle"]
  /\ ReleaseMutex(r)
  /\ UNCHANGED <<cardVars, keyVars, answer>>

-----------------------------------------------------------------------------
(* The administrator, and the daemon's end.                                *)

Create(c) ==
  /\ status[c] = "none"
  /\ status' = [status EXCEPT ![c] = "unredeemed"]
  /\ UNCHANGED <<redeemedBy, granted, grantApplied, keyVars, taskVars>>

\* voucherRevokeCas
RevokeCard(c) ==
  /\ status[c] = "unredeemed"
  /\ status' = [status EXCEPT ![c] = "revoked"]
  /\ UNCHANGED <<redeemedBy, granted, grantApplied, keyVars, taskVars>>

ChangeKey(k) ==
  /\ Quiet
  /\ keyState[k] # "revoked"
  /\ changes < MaxChanges
  /\ changes' = changes + 1

EditLimit(k, n) ==
  /\ ChangeKey(k)
  /\ limit' = [limit EXCEPT ![k] = n]
  /\ UNCHANGED <<cardVars, keyState, taskVars>>

SetEnabled(k) ==
  /\ ChangeKey(k)
  /\ keyState' = [keyState EXCEPT ![k] = IF @ = "live" THEN "disabled" ELSE "live"]
  /\ UNCHANGED <<cardVars, limit, taskVars>>

\* A key that is deleted is no more found than a revoked one is written.
RevokeKey(k) ==
  /\ ChangeKey(k)
  /\ keyState' = [keyState EXCEPT ![k] = "revoked"]
  /\ UNCHANGED <<cardVars, limit, taskVars>>

\* The process ends and is started again.
Crash ==
  /\ pc' = [r \in Requests |-> IF pc[r] = "over" THEN "over" ELSE "idle"]
  /\ mutex' = [k \in Keys |-> << >>]
  /\ todo' = [r \in Requests |-> {}]
  /\ target' = [r \in Requests |-> 0]
  /\ UNCHANGED <<cardVars, keyVars, answer>>

-----------------------------------------------------------------------------

Chain(r) ==
  \/ List(r) \/ Settle(r) \/ Settled(r) \/ Lookup(r) \/ Read(r) \/ Flip(r) \/ Lost(r)
  \/ Apply(r) \/ Revert(r) \/ Mark(r)

Next ==
  \/ \E r \in Requests : Arrive(r) \/ Reject(r) \/ Enter(r) \/ Chain(r) \/ Throw(r)
  \/ \E c \in Cards : Create(c) \/ RevokeCard(c)
  \/ \E k \in Keys : SetEnabled(k) \/ RevokeKey(k) \/ \E n \in Limits : EditLimit(k, n)
  \/ Crash

Spec == Init /\ [][Next]_vars

\* No grant is computed for a key that has been disabled since its request was
\* verified.  SteadySpec has the behaviours of which this is true.
FoundEnabled == \A r \in Requests : pc[r] = "read" => keyState[KeyOf[r]] # "disabled"

SteadySpec == Init /\ [][Next /\ FoundEnabled']_vars

-----------------------------------------------------------------------------
(* Properties.                                                             *)

VoucherTypeOK ==
  /\ status \in [Cards -> Statuses]
  /\ redeemedBy \in [Cards -> Keys \cup {NoKey}]
  /\ granted \in [Cards -> Nat]
  /\ grantApplied \in [Cards -> BOOLEAN]
  /\ limit \in [Keys -> Nat]
  /\ keyState \in [Keys -> KeyStates]
  /\ changes \in 0 .. MaxChanges
  /\ mutex \in [Keys -> Seq(Requests)]
  /\ pc \in [Requests -> Calls \cup {"idle", "body", "over"}]
  /\ answer \in [Requests -> Answers]
  /\ todo \in [Requests -> SUBSET Cards]
  /\ target \in [Requests -> Nat]

\* The mutex of a key is held by the redemptions of it that have not ended, in
\* one line, and only the first has made a call: no failure, whichever call it
\* comes from, leaves the mutex taken or lets two of them run.
MutexHeld ==
  \A k \in Keys :
    /\ Distinct(mutex[k])
    /\ \A r \in Requests : Queued(mutex[k], r) <=> pc[r] \in Calls /\ KeyOf[r] = k
    /\ \A i \in DOMAIN mutex[k] : i > 1 => pc[mutex[k][i]] = "list"

\* However chains fail, crash and follow one another, a key that is not revoked
\* never has two cards whose grants are open, so no recorded grant is ever
\* applied on top of a later one.
OneUnsettled ==
  \A k \in Keys : \A c, d \in Stranded(k) : keyState[k] # "revoked" => c = d

\* A redemption answered with success has left its card spent on its key for
\* good, with the grant applied, through every later failure and retry.
SuccessIsDurable ==
  \A r \in Requests : answer[r] = "ok" =>
    /\ status[CardOf[r]] = "redeemed"
    /\ redeemedBy[CardOf[r]] = KeyOf[r]
    /\ grantApplied[CardOf[r]]

\* A chain that neither crashes nor fails leaves no open grant behind, whoever
\* opened it: the next redemption of a key repairs what a crash has left.
NextOneRepairs ==
  [][\A r \in Requests :
       /\ pc[r] \in Calls /\ pc'[r] = "over"
       /\ keyState[KeyOf[r]] # "revoked"
       => Stranded(KeyOf[r])' = {}]_vars

\* The limit a key has once its open grant is applied, and who has a card.
LedgerBalance ==
  [k \in Keys |-> IF keyState[k] = "revoked" THEN 0
                  ELSE IF Stranded(k) = {} THEN limit[k]
                  ELSE granted[Oldest(Stranded(k))]]

LedgerOwner ==
  [c \in Cards |-> IF status[c] = "revoked" THEN Gone ELSE redeemedBy[c]]

Ledger == INSTANCE CardLedger
  WITH owner <- LedgerOwner, balance <- LedgerBalance, standing <- keyState, Free <- NoKey

\* Seen this way a card raises the limit of one key in one step, the flip, and
\* no crash, failure, retry or race of keys raises a limit twice, loses a grant
\* or spends a card on a second key.  This is what SteadySpec implements.
ImplementsLedger == Ledger!LedgerSpec

\* "current" already includes every earlier card, so concurrent different cards
\* accumulate correctly (voucherRedeem.ts:16-18, and again 254-255): a card
\* spent on a key raises the limit that the key has at that moment.  Spec does
\* not have this property, since a key that is disabled once its request is
\* verified is not found when the grant is computed.
CardsAccumulate ==
  [][\A k \in Keys, c \in Cards :
       /\ LedgerOwner[c] = NoKey /\ LedgerOwner'[c] = k
       /\ keyState[k] # "revoked"
       => LedgerBalance'[k] = Ledger!Raised(LedgerBalance[k], c)]_vars

=============================================================================
