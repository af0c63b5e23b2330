--------------------------- MODULE VoucherProofs ---------------------------
(***************************************************************************)
(* Proofs about the redemption of cards, for any keys, cards, requests,    *)
(* credits and caps, and any number of crashes and failed writes.          *)
(***************************************************************************)
EXTENDS Voucher, WaitlistProofs, TLAPS

(* The calls that only the redemption whose turn it is can have reached.   *)
Running == Calls \ {"list"}

(* MutexHeld with the first of the line named as such.                     *)
MutexInv ==
  \A k \in Keys :
    /\ Distinct(mutex[k])
    /\ \A r \in Requests : Queued(mutex[k], r) <=> pc[r] \in Calls /\ KeyOf[r] = k
    /\ \A r \in Requests : Queued(mutex[k], r) /\ r # Head(mutex[k]) => pc[r] = "list"

(* A card has an owner exactly while it is redeemed.                       *)
CardInv ==
  \A c \in Cards :
    IF status[c] = "redeemed" THEN redeemedBy[c] \in Keys ELSE redeemedBy[c] = NoKey

Limited(k) == IF keyState[k] = "live" THEN limit[k] ELSE 0

(* What a redemption knows at each call: of a key that is not revoked, its *)
(* list is the key's open grants, or there are none, or its card's alone.  *)
Known(r) ==
  /\ pc[r] \in {"settle", "settled"} =>
       /\ todo[r] # {}
       /\ todo[r] \subseteq Stranded(KeyOf[r])
       /\ keyState[KeyOf[r]] # "revoked" => todo[r] = Stranded(KeyOf[r])
  /\ pc[r] = "settled" =>
       keyState[KeyOf[r]] # "revoked" /\ limit[KeyOf[r]] = granted[Oldest(todo[r])]
  /\ pc[r] \in {"lookup", "read", "flip", "lost"} =>
       (keyState[KeyOf[r]] # "revoked" => Stranded(KeyOf[r]) = {})
  /\ pc[r] = "flip" => target[r] = ComputeGrant(Limited(KeyOf[r]), CardOf[r])
  /\ pc[r] \in {"apply", "revert", "mark"} =>
       /\ CardOf[r] \in Stranded(KeyOf[r])
       /\ granted[CardOf[r]] = target[r]
       /\ keyState[KeyOf[r]] # "revoked" => Stranded(KeyOf[r]) = {CardOf[r]}
  /\ pc[r] = "revert" => keyState[KeyOf[r]] = "revoked"
  /\ pc[r] = "mark" => keyState[KeyOf[r]] # "revoked" /\ limit[KeyOf[r]] = target[r]

DataInv == CardInv /\ OneUnsettled /\ SuccessIsDurable /\ \A r \in Requests : Known(r)

VoucherInv == VoucherTypeOK /\ MutexInv /\ DataInv

-----------------------------------------------------------------------------
(* The mutex.                                                              *)

(* A redemption whose turn it is runs alone among those of its key.        *)
LEMMA RunsAlone ==
  ASSUME VoucherTypeOK, MutexInv, NEW r \in Requests, NEW call \in Calls, Turn(r, call)
  PROVE  \A q \in Requests : KeyOf[q] = KeyOf[r] /\ q # r => pc[q] \notin Running
<1> SUFFICES ASSUME NEW q \in Requests, KeyOf[q] = KeyOf[r], q # r, pc[q] \in Running
             PROVE  FALSE
  OBVIOUS
<1>1. KeyOf[r] \in Keys
  BY VoucherAssumption
<1>2. Queued(mutex[KeyOf[r]], q)
  BY <1>1 DEF MutexInv, Running
<1>3. pc[q] = "list"
  BY <1>1, <1>2 DEF MutexInv, Turn
<1> QED
  BY <1>3 DEF Running

(* Each call of a chain leads to another call, the mutex staying as it is, *)
(* or to its end.                                                          *)
Onward(r) == mutex' = mutex /\ \E call \in Calls : pc' = [pc EXCEPT ![r] = call]

Ends(r) ==
  /\ \E end \in {"over", "idle"} : pc' = [pc EXCEPT ![r] = end]
  /\ mutex' = [mutex EXCEPT ![KeyOf[r]] = Tail(@)]

LEMMA ChainShape ==
  ASSUME NEW r \in Requests, Chain(r) \/ Throw(r)
  PROVE  /\ \E call \in Calls : Turn(r, call)
         /\ Onward(r) \/ Ends(r)
<1> USE DEF Onward, Ends, Goto, GoOn, EndTurn, ReleaseMutex, Calls
<1>1. CASE List(r)
  BY <1>1 DEF List
<1>2. CASE Settle(r)
  BY <1>2 DEF Settle
<1>3. CASE Settled(r)
  BY <1>3 DEF Settled
<1>4. CASE Lookup(r)
  BY <1>4 DEF Lookup, FoundRedeemed
<1>5. CASE Read(r)
  BY <1>5 DEF Read
<1>6. CASE Flip(r)
  BY <1>6 DEF Flip
<1>7. CASE Lost(r)
  BY <1>7 DEF Lost, FoundRedeemed
<1>8. CASE Apply(r)
  BY <1>8 DEF Apply
<1>9. CASE Revert(r)
  BY <1>9 DEF Revert
<1>10. CASE Mark(r)
  BY <1>10 DEF Mark
<1>11. CASE Throw(r)
  BY <1>11 DEF Throw, Writes
<1> QED
  BY <1>1, <1>2, <1>3, <1>4, <1>5, <1>6, <1>7, <1>8, <1>9, <1>10, <1>11 DEF Chain

LEMMA OnwardKeepsMutex ==
  ASSUME VoucherTypeOK, MutexInv, NEW r \in Requests, NEW call \in Calls,
         Turn(r, call), Onward(r)
  PROVE  MutexInv'
<1> SUFFICES ASSUME NEW k \in Keys
             PROVE  /\ Distinct(mutex[k])
                    /\ \A q \in Requests : Queued(mutex[k], q) <=> pc'[q] \in Calls /\ KeyOf[q] = k
                    /\ \A q \in Requests : Queued(mutex[k], q) /\ q # Head(mutex[k])
                                              => pc'[q] = "list"
  BY DEF MutexInv, Onward
<1>1. pc'[r] \in Calls /\ \A q \in Requests : q # r => pc'[q] = pc[q]
  BY DEF Onward, VoucherTypeOK
<1>2. pc[r] \in Calls /\ r = Head(mutex[KeyOf[r]])
  BY DEF Turn
<1>3. \A q \in Requests : Queued(mutex[k], q) /\ q # Head(mutex[k]) => q # r
  BY <1>2 DEF MutexInv
<1> QED
  BY <1>1, <1>2, <1>3 DEF MutexInv

LEMMA EndKeepsMutex ==
  ASSUME VoucherTypeOK, MutexInv, NEW r \in Requests, NEW call \in Calls,
         Turn(r, call), Ends(r)
  PROVE  MutexInv'
<1> DEFINE own == KeyOf[r]
<1>1. own \in Keys /\ pc[r] = call /\ r = Head(mutex[own]) /\ mutex[own] # << >>
  BY VoucherAssumption DEF Turn
<1>2. pc'[r] \notin Calls /\ \A q \in Requests : q # r => pc'[q] = pc[q]
  BY DEF Ends, VoucherTypeOK, Calls
<1>3. /\ mutex'[own] = Tail(mutex[own])
      /\ \A k \in Keys : k # own => mutex'[k] = mutex[k]
  BY <1>1 DEF Ends, VoucherTypeOK
<1>4. /\ Distinct(mutex[own])
      /\ mutex[own] \in Seq(Requests)
  BY <1>1 DEF MutexInv, VoucherTypeOK
<1>5. /\ Distinct(Tail(mutex[own]))
      /\ \A q : Queued(Tail(mutex[own]), q) <=> q # r /\ Queued(mutex[own], q)
  BY <1>1, <1>4, TailQueued
<1> SUFFICES ASSUME NEW k \in Keys
             PROVE  /\ Distinct(mutex'[k])
                    /\ \A q \in Requests : Queued(mutex'[k], q) <=> pc'[q] \in Calls /\ KeyOf[q] = k
                    /\ \A q \in Requests : Queued(mutex'[k], q) /\ q # Head(mutex'[k])
                                              => pc'[q] = "list"
  BY DEF MutexInv
<1>6. CASE k = own
  <2>1. Distinct(mutex'[k])
    BY <1>3, <1>5, <1>6
  <2>2. \A q \in Requests : Queued(mutex[k], q) <=> pc[q] \in Calls /\ KeyOf[q] = k
    BY DEF MutexInv
  <2>3. \A q \in Requests : Queued(mutex'[k], q) <=> q # r /\ Queued(mutex[k], q)
    BY <1>3, <1>5, <1>6
  <2>4. \A q \in Requests : Queued(mutex'[k], q) <=> pc'[q] \in Calls /\ KeyOf[q] = k
    BY <2>2, <2>3, <1>2
  <2>5. \A q \in Requests : Queued(mutex'[k], q) => pc'[q] = "list"
    BY <2>3, <1>1, <1>2, <1>6 DEF MutexInv
  <2> QED BY <2>1, <2>4, <2>5
<1>7. CASE k # own
  <2>1. mutex'[k] = mutex[k]
    BY <1>3, <1>7
  <2>2. \A q \in Requests : Queued(mutex[k], q) => q # r /\ pc'[q] = pc[q]
    BY <1>2, <1>7 DEF MutexInv
  <2>3. \A q \in Requests : pc'[q] \in Calls /\ KeyOf[q] = k => pc[q] \in Calls
    BY <1>2
  <2> QED BY <2>1, <2>2, <2>3 DEF MutexInv
<1> QED
  BY <1>6, <1>7

LEMMA EnterKeepsMutex ==
  ASSUME VoucherTypeOK, MutexInv, NEW r \in Requests, Enter(r)
  PROVE  MutexInv'
<1> DEFINE own == KeyOf[r]
<1>1. own \in Keys /\ pc[r] = "body"
  BY VoucherAssumption DEF Enter
<1>2. pc'[r] = "list" /\ \A q \in Requests : q # r => pc'[q] = pc[q]
  BY DEF Enter, VoucherTypeOK
<1>3. /\ mutex'[own] = Append(mutex[own], r)
      /\ \A k \in Keys : k # own => mutex'[k] = mutex[k]
  BY <1>1 DEF Enter, VoucherTypeOK
<1>4. mutex[own] \in Seq(Requests) /\ Distinct(mutex[own]) /\ ~Queued(mutex[own], r)
  BY <1>1 DEF MutexInv, VoucherTypeOK, Calls
<1>5. /\ Distinct(Append(mutex[own], r))
      /\ Head(Append(mutex[own], r)) = IF mutex[own] = << >> THEN r ELSE Head(mutex[own])
      /\ \A q : Queued(Append(mutex[own], r), q) <=> q = r \/ Queued(mutex[own], q)
  BY <1>4, AppendQueued
<1> SUFFICES ASSUME NEW k \in Keys
             PROVE  /\ Distinct(mutex'[k])
                    /\ \A q \in Requests : Queued(mutex'[k], q) <=> pc'[q] \in Calls /\ KeyOf[q] = k
                    /\ \A q \in Requests : Queued(mutex'[k], q) /\ q # Head(mutex'[k])
                                              => pc'[q] = "list"
  BY DEF MutexInv
<1>6. CASE k = own
  <2>1. \A q \in Requests : Queued(mutex[k], q) <=> pc[q] \in Calls /\ KeyOf[q] = k
    BY DEF MutexInv
  <2>2. \A q \in Requests : Queued(mutex'[k], q) <=> pc'[q] \in Calls /\ KeyOf[q] = k
    BY <2>1, <1>2, <1>3, <1>5, <1>6 DEF Calls
  <2>3. ASSUME NEW q \in Requests, Queued(mutex'[k], q), q # Head(mutex'[k]) PROVE pc'[q] = "list"
    <3>1. CASE q = r
      BY <3>1, <1>2
    <3>2. CASE q # r
      <4>1. Queued(mutex[k], q)
        BY <2>3, <3>2, <1>3, <1>5, <1>6
      <4>2. mutex[k] # << >>
        BY <4>1 DEF Queued
      <4>3. q # Head(mutex[k])
        BY <2>3, <4>2, <1>3, <1>5, <1>6
      <4> QED BY <4>1, <4>3, <3>2, <1>2 DEF MutexInv
    <3> QED BY <3>1, <3>2
  <2> QED BY <2>2, <2>3, <1>3, <1>5, <1>6
<1>7. CASE k # own
  <2>1. mutex'[k] = mutex[k]
    BY <1>3, <1>7
  <2>2. \A q \in Requests : Queued(mutex[k], q) => q # r /\ pc'[q] = pc[q]
    BY <1>1, <1>2 DEF MutexInv, Calls
  <2>3. \A q \in Requests : pc'[q] \in Calls /\ KeyOf[q] = k => pc[q] \in Calls
    BY <1>2, <1>7
  <2> QED BY <2>1, <2>2, <2>3 DEF MutexInv
<1> QED
  BY <1>6, <1>7

(* A key changes only while no redemption is under way.                    *)
LEMMA QuietMeansIdle ==
  ASSUME VoucherTypeOK, MutexInv, Quiet
  PROVE  \A r \in Requests : pc[r] \notin Calls
<1> SUFFICES ASSUME NEW r \in Requests, pc[r] \in Calls PROVE FALSE
  OBVIOUS
<1>1. Queued(mutex[KeyOf[r]], r) /\ mutex[KeyOf[r]] = << >>
  BY VoucherAssumption DEF MutexInv, Quiet
<1> QED
  BY <1>1 DEF Queued

LEMMA MutexStep ==
  ASSUME VoucherTypeOK, MutexInv, [Next]_vars
  PROVE  MutexInv'
<1>1. ASSUME NEW r \in Requests, Chain(r) \/ Throw(r) PROVE MutexInv'
  BY <1>1, ChainShape, OnwardKeepsMutex, EndKeepsMutex
<1>2. ASSUME NEW r \in Requests, Enter(r) PROVE MutexInv'
  BY <1>2, EnterKeepsMutex
<1>3. ASSUME NEW r \in Requests, Arrive(r) \/ Reject(r) PROVE MutexInv'
  <2>1. /\ mutex' = mutex
        /\ \A q \in Requests : pc'[q] = pc[q] \/ (q = r /\ pc[q] \notin Calls /\ pc'[q] \notin Calls)
    BY <1>3 DEF Arrive, Reject, VoucherTypeOK, Calls
  <2>2. \A k \in Keys : \A q \in Requests : Queued(mutex[k], q) => pc'[q] = pc[q]
    BY <2>1 DEF MutexInv
  <2> QED BY <2>1, <2>2 DEF MutexInv
<1>4. CASE Crash
  <2>1. \A k \in Keys : mutex'[k] = << >>
    BY <1>4 DEF Crash
  <2>2. \A q \in Requests : pc'[q] \notin Calls
    BY <1>4 DEF Crash, Calls
  <2> QED BY <2>1, <2>2 DEF MutexInv, Distinct, Queued
<1>5. CASE UNCHANGED <<mutex, pc>>
  BY <1>5 DEF MutexInv
<1> QED
  BY <1>1, <1>2, <1>3, <1>4, <1>5
  DEF Next, vars, taskVars, Create, RevokeCard, EditLimit, SetEnabled, RevokeKey

LEMMA FirstOfLine == VoucherTypeOK /\ MutexInv => MutexHeld
<1> SUFFICES ASSUME VoucherTypeOK, MutexInv, NEW k \in Keys, NEW i \in DOMAIN mutex[k], i > 1
             PROVE  pc[mutex[k][i]] = "list"
  BY DEF MutexHeld, MutexInv
<1>1. mutex[k] \in Seq(Requests) /\ Distinct(mutex[k])
  BY DEF VoucherTypeOK, MutexInv
<1>2. DOMAIN mutex[k] = 1 .. Len(mutex[k]) /\ Len(mutex[k]) \in Nat
  BY <1>1, LenProperties
<1>3. mutex[k][i] \in Requests /\ Queued(mutex[k], mutex[k][i])
  BY <1>1, <1>2, ElementOfSeq DEF Queued
<1>4. 1 \in DOMAIN mutex[k] /\ mutex[k][1] = Head(mutex[k])
  BY <1>1, <1>2, EmptySeq, HeadTailProperties
<1>5. mutex[k][i] # Head(mutex[k])
  BY <1>1, <1>4 DEF Distinct
<1> QED
  BY <1>3, <1>5 DEF MutexInv

-----------------------------------------------------------------------------
(* What a step of one redemption leaves alone.                             *)

(* Nothing a redemption of key k knows of the files has changed.           *)
Frame(k) ==
  /\ Stranded(k)' = Stranded(k)
  /\ limit'[k] = limit[k]
  /\ keyState'[k] = keyState[k]
  /\ \A c \in Stranded(k) : granted'[c] = granted[c]

SameTask(q) == pc'[q] = pc[q] /\ todo'[q] = todo[q] /\ target'[q] = target[q]

(* A card that is spent, its grant applied, stays so.                      *)
SpentStays ==
  \A c \in Cards : status[c] = "redeemed" /\ grantApplied[c]
    => /\ status'[c] = "redeemed" /\ grantApplied'[c]
       /\ redeemedBy'[c] = redeemedBy[c]

AnswerEarned(r) ==
  answer'[r] = "ok" /\ answer[r] # "ok" =>
    /\ status'[CardOf[r]] = "redeemed" /\ grantApplied'[CardOf[r]]
    /\ redeemedBy'[CardOf[r]] = KeyOf[r]

AtMostOne(k) == \A c, d \in Stranded(k) : c = d

LEMMA KnownFramed ==
  ASSUME NEW q \in Requests, Known(q), SameTask(q), Frame(KeyOf[q])
  PROVE  Known(q)'
<1> DEFINE k == KeyOf[q]
<1>1. Stranded(k)' = Stranded(k) /\ keyState'[k] = keyState[k] /\ limit'[k] = limit[k]
  BY DEF Frame
<1>2. todo[q] # {} => Oldest(todo[q]) \in todo[q]
  BY DEF Oldest
<1>3. pc[q] = "settled" => granted'[Oldest(todo'[q])] = granted[Oldest(todo[q])]
  BY <1>2 DEF Known, Frame, SameTask
<1>4. pc[q] \in {"apply", "revert", "mark"} => granted'[CardOf[q]] = granted[CardOf[q]]
  BY DEF Known, Frame
<1> QED
  BY <1>1, <1>3, <1>4 DEF Known, SameTask, Limited, ComputeGrant

LEMMA KnownNothing ==
  ASSUME NEW q \in Requests, pc'[q] \notin Running
  PROVE  Known(q)'
BY DEF Known, Running, Calls

(* What is left to show of a step of the redemption r.                     *)
LEMMA TurnKeepsData ==
  ASSUME VoucherTypeOK, MutexInv, DataInv, NEW r \in Requests, NEW call \in Calls,
         Turn(r, call),
         \A q \in Requests : q # r => SameTask(q) /\ answer'[q] = answer[q],
         \A k \in Keys : k # KeyOf[r] => Frame(k),
         keyState' = keyState,
         keyState[KeyOf[r]] # "revoked" => AtMostOne(KeyOf[r])',
         CardInv', SpentStays, AnswerEarned(r), Known(r)'
  PROVE  DataInv'
<1>1. OneUnsettled'
  <2> SUFFICES ASSUME NEW k \in Keys, keyState[k] # "revoked" PROVE AtMostOne(k)'
    BY DEF OneUnsettled, AtMostOne
  <2> QED BY DEF AtMostOne, Frame, DataInv, OneUnsettled
<1>2. SuccessIsDurable'
  <2> SUFFICES ASSUME NEW q \in Requests, answer'[q] = "ok"
               PROVE  /\ status'[CardOf[q]] = "redeemed"
                      /\ redeemedBy'[CardOf[q]] = KeyOf[q]
                      /\ grantApplied'[CardOf[q]]
    BY DEF SuccessIsDurable
  <2> CardOf[q] \in Cards
    BY VoucherAssumption
  <2>1. CASE answer[q] = "ok"
    BY <2>1 DEF DataInv, SuccessIsDurable, SpentStays
  <2>2. CASE answer[q] # "ok"
    BY <2>2 DEF AnswerEarned
  <2> QED BY <2>1, <2>2
<1>3. ASSUME NEW q \in Requests PROVE Known(q)'
  <2>1. CASE q = r
    BY <2>1
  <2>2. CASE q # r /\ KeyOf[q] = KeyOf[r]
    <3>1. pc[q] \notin Running
      BY <2>2, RunsAlone
    <3> QED BY <2>2, <3>1, KnownNothing DEF SameTask
  <2>3. CASE KeyOf[q] # KeyOf[r]
    BY <2>3, KnownFramed, VoucherAssumption DEF DataInv
  <2> QED BY <2>1, <2>2, <2>3
<1> QED
  BY <1>1, <1>2, <1>3 DEF DataInv

(* The files as they are.                                                  *)
LEMMA FilesUntouched ==
  ASSUME UNCHANGED <<cardVars, limit, keyState>>
  PROVE  /\ \A k \in Keys : Frame(k)
         /\ SpentStays
         /\ CardInv => CardInv'
         /\ \A k \in Keys : AtMostOne(k) => AtMostOne(k)'
BY DEF cardVars, Frame, Stranded, SpentStays, CardInv, AtMostOne

-----------------------------------------------------------------------------
(* Each call of a chain keeps what is known of the cards and the keys.     *)

LEMMA OpenGrant ==
  ASSUME VoucherTypeOK, DataInv, NEW r \in Requests, pc[r] \in {"settle", "settled"}
  PROVE  /\ Oldest(todo[r]) \in todo[r]
         /\ Oldest(todo[r]) \in Stranded(KeyOf[r])
         /\ Oldest(todo[r]) \in Cards
         /\ keyState[KeyOf[r]] # "revoked"
              => todo[r] = {Oldest(todo[r])} /\ Stranded(KeyOf[r]) = {Oldest(todo[r])}
<1>1. /\ todo[r] # {}
      /\ todo[r] \subseteq Stranded(KeyOf[r])
      /\ keyState[KeyOf[r]] # "revoked" => todo[r] = Stranded(KeyOf[r])
  BY DEF DataInv, Known
<1>2. Oldest(todo[r]) \in todo[r]
  BY <1>1 DEF Oldest
<1>3. keyState[KeyOf[r]] # "revoked" => \A c, d \in Stranded(KeyOf[r]) : c = d
  BY VoucherAssumption DEF DataInv, OneUnsettled
<1> QED
  BY <1>1, <1>2, <1>3 DEF Stranded

(* A call that only reads.                                                 *)
LEMMA ReadKeepsData ==
  ASSUME VoucherTypeOK, MutexInv, DataInv, NEW r \in Requests, NEW call \in Calls,
         Turn(r, call),
         \A q \in Requests : q # r => SameTask(q) /\ answer'[q] = answer[q],
         UNCHANGED <<cardVars, limit, keyState>>, AnswerEarned(r), Known(r)'
  PROVE  DataInv'
<1>1. KeyOf[r] \in Keys
  BY VoucherAssumption
<1>2. keyState[KeyOf[r]] # "revoked" => AtMostOne(KeyOf[r])
  BY <1>1 DEF DataInv, OneUnsettled, AtMostOne
<1> QED
  BY <1>1, <1>2, FilesUntouched, TurnKeepsData DEF DataInv

LEMMA ListStep ==
  ASSUME VoucherInv, NEW r \in Requests, List(r) PROVE DataInv'
<1>1. /\ \A q \in Requests : q # r => SameTask(q)
      /\ todo'[r] = Stranded(KeyOf[r])
      /\ pc'[r] = IF todo'[r] = {} THEN "lookup" ELSE "settle"
      /\ UNCHANGED <<cardVars, limit, keyState, answer>>
  BY DEF List, Goto, SameTask, VoucherInv, VoucherTypeOK, keyVars
<1>2. Stranded(KeyOf[r])' = Stranded(KeyOf[r])
  BY <1>1 DEF Stranded, cardVars
<1>3. Known(r)'
  BY <1>1, <1>2 DEF Known
<1> QED
  BY <1>1, <1>3, ReadKeepsData DEF List, VoucherInv, AnswerEarned, Calls

LEMMA SettleStep ==
  ASSUME VoucherInv, NEW r \in Requests, Settle(r) PROVE DataInv'
<1> DEFINE k == KeyOf[r]
           c == Oldest(todo[r])
<1>1. k \in Keys /\ pc[r] = "settle" /\ UNCHANGED <<cardVars, keyState, answer>>
  BY VoucherAssumption DEF Settle, Turn, Goto, SetPolicy, keyVars
<1>2. /\ c \in todo[r] /\ c \in Stranded(k) /\ c \in Cards
      /\ keyState[k] # "revoked" => todo[r] = {c} /\ Stranded(k) = {c}
  BY <1>1, OpenGrant DEF VoucherInv
<1>3. \A q \in Requests : q # r => SameTask(q)
  BY DEF Settle, Goto, SameTask, VoucherInv, VoucherTypeOK
<1>4. \A j \in Keys : Stranded(j)' = Stranded(j)
  BY <1>1 DEF Stranded, cardVars
<1>5. \A j \in Keys : j # k => Frame(j)
  BY <1>1, <1>4 DEF Settle, SetPolicy, Frame, cardVars, keyVars, VoucherInv, VoucherTypeOK
<1>6. CardInv' /\ SpentStays /\ AnswerEarned(r)
  BY <1>1 DEF CardInv, SpentStays, AnswerEarned, cardVars, VoucherInv, DataInv
<1>7. keyState[k] # "revoked" => AtMostOne(k)'
  BY <1>1, <1>4 DEF AtMostOne, VoucherInv, DataInv, OneUnsettled
<1>8. Known(r)'
  <2>1. CASE keyState[k] # "revoked"
    <3>1. limit'[k] = granted[c] /\ pc'[r] = "settled" /\ todo'[r] = todo[r]
      BY <1>1, <2>1 DEF Settle, SetPolicy, Goto, VoucherInv, VoucherTypeOK
    <3>2. granted'[Oldest(todo'[r])] = granted[c]
      BY <1>1, <3>1 DEF cardVars
    <3> QED BY <3>1, <3>2, <1>1, <1>2, <1>4, <2>1 DEF Known
  <2>2. CASE keyState[k] = "revoked"
    <3>1. todo'[r] = todo[r] \ {c} /\ pc'[r] = IF todo'[r] = {} THEN "lookup" ELSE "settle"
      BY <2>2 DEF Settle, Goto, VoucherInv, VoucherTypeOK
    <3>2. todo'[r] \subseteq Stranded(k)
      BY <3>1, <1>1 DEF VoucherInv, DataInv, Known
    <3> QED BY <3>1, <3>2, <1>1, <1>4, <2>2 DEF Known
  <2> QED BY <2>1, <2>2
<1> QED
  BY <1>1, <1>3, <1>5, <1>6, <1>7, <1>8, TurnKeepsData DEF Settle, VoucherInv, Calls

LEMMA SettledStep ==
  ASSUME VoucherInv, NEW r \in Requests, Settled(r) PROVE DataInv'
<1> DEFINE k == KeyOf[r]
           c == Oldest(todo[r])
<1>1. /\ k \in Keys /\ pc[r] = "settled"
      /\ UNCHANGED <<status, redeemedBy, granted, limit, keyState, answer>>
  BY VoucherAssumption DEF Settled, Turn, Goto, keyVars
<1>2. c \in Stranded(k) /\ c \in Cards /\ keyState[k] # "revoked" /\ todo[r] = {c}
      /\ Stranded(k) = {c}
  BY <1>1, OpenGrant DEF VoucherInv, DataInv, Known
<1>3. \A q \in Requests : q # r => SameTask(q)
  BY DEF Settled, Goto, SameTask, VoucherInv, VoucherTypeOK
<1>4. grantApplied'[c] /\ \A d \in Cards : d # c => grantApplied'[d] = grantApplied[d]
  BY <1>2 DEF Settled, VoucherInv, VoucherTypeOK
<1>5. \A j \in Keys : j # k => Stranded(j)' = Stranded(j)
  BY <1>1, <1>2, <1>4 DEF Stranded
<1>6. Stranded(k)' = {}
  BY <1>1, <1>2, <1>4 DEF Stranded
<1>7. \A j \in Keys : j # k => Frame(j)
  BY <1>1, <1>5 DEF Frame
<1>8. CardInv' /\ SpentStays /\ AnswerEarned(r)
  BY <1>1, <1>4 DEF CardInv, SpentStays, AnswerEarned, VoucherInv, DataInv
<1>9. pc'[r] = "lookup"
  BY <1>2 DEF Settled, Goto, VoucherInv, VoucherTypeOK
<1>10. Known(r)'
  BY <1>6, <1>9 DEF Known
<1> QED
  BY <1>1, <1>3, <1>6, <1>7, <1>8, <1>10, TurnKeepsData
  DEF Settled, VoucherInv, Calls, AtMostOne

(* What a redemption finds of its card once it is redeemed.                *)
LEMMA FoundStep ==
  ASSUME VoucherInv, NEW r \in Requests, NEW call \in {"lookup", "lost"}, Turn(r, call),
         status[CardOf[r]] = "redeemed", FoundRedeemed(r), UNCHANGED <<cardVars, keyVars>>
  PROVE  DataInv'
<1> DEFINE k == KeyOf[r]
           c == CardOf[r]
<1>1. k \in Keys /\ c \in Cards /\ call \in Calls
  BY VoucherAssumption DEF Calls
<1>2. \A q \in Requests : q # r => SameTask(q) /\ answer'[q] = answer[q]
  BY DEF FoundRedeemed, EndTurn, ReleaseMutex, Goto, SameTask, VoucherInv, VoucherTypeOK
<1>3. AnswerEarned(r) /\ Known(r)'
  <2>1. CASE redeemedBy[c] # k
    <3>1. EndTurn(r, "refused")
      BY <2>1 DEF FoundRedeemed
    <3>2. pc'[r] = "over" /\ answer'[r] = "refused"
      BY <3>1 DEF EndTurn, VoucherInv, VoucherTypeOK
    <3> QED BY <3>2, KnownNothing DEF AnswerEarned, Running, Calls
  <2>2. CASE redeemedBy[c] = k /\ grantApplied[c]
    <3>1. EndTurn(r, "ok")
      BY <2>2 DEF FoundRedeemed
    <3>2. pc'[r] = "over"
      BY <3>1 DEF EndTurn, VoucherInv, VoucherTypeOK
    <3> QED BY <2>2, <3>2, KnownNothing DEF AnswerEarned, Running, Calls, cardVars
  <2>3. CASE redeemedBy[c] = k /\ ~grantApplied[c]
    <3>1. pc'[r] = "apply" /\ target'[r] = granted[c] /\ answer' = answer
      BY <2>3 DEF FoundRedeemed, Goto, VoucherInv, VoucherTypeOK
    <3>2. c \in Stranded(k)
      BY <1>1, <2>3 DEF Stranded
    <3>3. keyState[k] = "revoked"
      BY <3>2 DEF VoucherInv, DataInv, Known, Turn
    <3>4. Stranded(k)' = Stranded(k) /\ granted'[c] = granted[c] /\ keyState'[k] = keyState[k]
      BY DEF Stranded, cardVars, keyVars
    <3> QED BY <3>1, <3>2, <3>3, <3>4 DEF Known, AnswerEarned
  <2> QED BY <2>1, <2>2, <2>3
<1> QED
  BY <1>1, <1>2, <1>3, ReadKeepsData DEF keyVars, VoucherInv

LEMMA LookupStep ==
  ASSUME VoucherInv, NEW r \in Requests, Lookup(r) PROVE DataInv'
<1>1. CASE status[CardOf[r]] = "redeemed" /\ FoundRedeemed(r)
  BY <1>1, FoundStep DEF Lookup
<1>2. CASE GoOn(r, "read")
  <2>1. /\ \A q \in Requests : q # r => SameTask(q) /\ answer'[q] = answer[q]
        /\ pc'[r] = "read" /\ answer' = answer
    BY <1>2 DEF GoOn, Goto, SameTask, VoucherInv, VoucherTypeOK
  <2>2. Stranded(KeyOf[r])' = Stranded(KeyOf[r]) /\ keyState' = keyState
    BY DEF Lookup, Stranded, cardVars, keyVars
  <2>3. Known(r)'
    BY <2>1, <2>2 DEF Lookup, Turn, Known, VoucherInv, DataInv
  <2> QED BY <2>1, <2>3, ReadKeepsData DEF Lookup, keyVars, VoucherInv, AnswerEarned, Calls
<1>3. CASE EndTurn(r, "refused")
  <2>1. /\ \A q \in Requests : q # r => SameTask(q) /\ answer'[q] = answer[q]
        /\ pc'[r] = "over" /\ answer'[r] = "refused"
    BY <1>3 DEF EndTurn, ReleaseMutex, SameTask, VoucherInv, VoucherTypeOK
  <2>2. Known(r)'
    BY <2>1, KnownNothing DEF Running, Calls
  <2> QED BY <2>1, <2>2, ReadKeepsData DEF Lookup, keyVars, VoucherInv, AnswerEarned, Calls
<1> QED
  BY <1>1, <1>2, <1>3 DEF Lookup

LEMMA LostStep ==
  ASSUME VoucherInv, NEW r \in Requests, Lost(r) PROVE DataInv'
<1>1. CASE status[CardOf[r]] = "redeemed"
  BY <1>1, FoundStep DEF Lost
<1>2. CASE status[CardOf[r]] # "redeemed"
  <2>1. /\ \A q \in Requests : q # r => SameTask(q) /\ answer'[q] = answer[q]
        /\ pc'[r] = "over" /\ answer'[r] = "refused"
    BY <1>2 DEF Lost, EndTurn, ReleaseMutex, SameTask, VoucherInv, VoucherTypeOK
  <2>2. Known(r)'
    BY <2>1, KnownNothing DEF Running, Calls
  <2> QED BY <2>1, <2>2, ReadKeepsData DEF Lost, keyVars, VoucherInv, AnswerEarned, Calls
<1> QED
  BY <1>1, <1>2

LEMMA ReadStep ==
  ASSUME VoucherInv, NEW r \in Requests, Read(r) PROVE DataInv'
<1>1. /\ \A q \in Requests : q # r => SameTask(q) /\ answer'[q] = answer[q]
      /\ pc'[r] = "flip" /\ answer' = answer
      /\ target'[r] = ComputeGrant(Limited(KeyOf[r]), CardOf[r])
  BY DEF Read, Goto, SameTask, Limited, VoucherInv, VoucherTypeOK
<1>2. /\ Stranded(KeyOf[r])' = Stranded(KeyOf[r]) /\ keyState' = keyState
      /\ Limited(KeyOf[r])' = Limited(KeyOf[r])
  BY DEF Read, Stranded, Limited, cardVars, keyVars
<1>3. Known(r)'
  BY <1>1, <1>2 DEF Read, Turn, Known, VoucherInv, DataInv, ComputeGrant
<1> QED
  BY <1>1, <1>3, ReadKeepsData DEF Read, keyVars, VoucherInv, AnswerEarned, Calls

LEMMA FlipStep ==
  ASSUME VoucherInv, NEW r \in Requests, Flip(r) PROVE DataInv'
<1> DEFINE k == KeyOf[r]
           c == CardOf[r]
<1>1. k \in Keys /\ c \in Cards /\ pc[r] = "flip"
      /\ UNCHANGED <<limit, keyState, answer, todo, target>>
  BY VoucherAssumption DEF Flip, Turn, Goto, keyVars
<1>2. \A q \in Requests : q # r => SameTask(q) /\ answer'[q] = answer[q]
  BY <1>1 DEF Flip, Goto, SameTask, VoucherInv, VoucherTypeOK
<1>3. keyState[k] # "revoked" => Stranded(k) = {}
  BY <1>1 DEF VoucherInv, DataInv, Known
<1>4. CASE status[c] # "unredeemed"
  <2>1. pc'[r] = "lost" /\ UNCHANGED cardVars
    BY <1>4 DEF Flip, Goto, VoucherInv, VoucherTypeOK
  <2>2. Stranded(k)' = Stranded(k)
    BY <2>1 DEF Stranded, cardVars
  <2>3. Known(r)'
    BY <1>1, <1>3, <2>1, <2>2 DEF Known
  <2> QED BY <1>1, <1>2, <2>1, <2>3, ReadKeepsData DEF Flip, VoucherInv, AnswerEarned, Calls
<1>5. CASE status[c] = "unredeemed"
  <2>1. /\ pc'[r] = "apply"
        /\ status'[c] = "redeemed" /\ redeemedBy'[c] = k
        /\ granted'[c] = target[r] /\ ~grantApplied'[c]
        /\ \A d \in Cards : d # c =>
             /\ status'[d] = status[d] /\ redeemedBy'[d] = redeemedBy[d]
             /\ granted'[d] = granted[d] /\ grantApplied'[d] = grantApplied[d]
    BY <1>1, <1>5 DEF Flip, Goto, VoucherInv, VoucherTypeOK
  <2>2. Stranded(k)' = Stranded(k) \cup {c}
    BY <1>1, <2>1 DEF Stranded
  <2>3. \A j \in Keys : j # k => Stranded(j)' = Stranded(j)
    BY <1>1, <1>5, <2>1 DEF Stranded
  <2>4. \A j \in Keys : j # k => Frame(j)
    BY <1>1, <1>5, <2>1, <2>3 DEF Frame, Stranded
  <2>5. CardInv' /\ SpentStays /\ AnswerEarned(r)
    BY <1>1, <1>5, <2>1 DEF CardInv, SpentStays, AnswerEarned, VoucherInv, DataInv
  <2>6. Known(r)'
    BY <1>1, <1>3, <2>1, <2>2 DEF Known
  <2>7. keyState[k] # "revoked" => AtMostOne(k)'
    BY <1>3, <2>2 DEF AtMostOne
  <2> QED BY <1>1, <1>2, <2>4, <2>5, <2>6, <2>7, TurnKeepsData DEF Flip, VoucherInv, Calls
<1> QED
  BY <1>4, <1>5

LEMMA ApplyStep ==
  ASSUME VoucherInv, NEW r \in Requests, Apply(r) PROVE DataInv'
<1> DEFINE k == KeyOf[r]
           c == CardOf[r]
<1>1. k \in Keys /\ pc[r] = "apply" /\ UNCHANGED <<cardVars, keyState, answer, todo, target>>
  BY VoucherAssumption DEF Apply, Turn, Goto, SetPolicy, keyVars
<1>2. \A q \in Requests : q # r => SameTask(q) /\ answer'[q] = answer[q]
  BY <1>1 DEF Apply, Goto, SameTask, VoucherInv, VoucherTypeOK
<1>3. c \in Stranded(k) /\ granted[c] = target[r]
      /\ (keyState[k] # "revoked" => Stranded(k) = {c})
  BY <1>1 DEF VoucherInv, DataInv, Known
<1>4. (\A j \in Keys : Stranded(j)' = Stranded(j)) /\ granted' = granted
  BY <1>1 DEF Stranded, cardVars
<1>5. \A j \in Keys : j # k => Frame(j)
  BY <1>1, <1>4 DEF Apply, SetPolicy, Frame, keyVars, VoucherInv, VoucherTypeOK
<1>6. CardInv' /\ SpentStays /\ AnswerEarned(r)
  BY <1>1 DEF CardInv, SpentStays, AnswerEarned, cardVars, VoucherInv, DataInv
<1>7. keyState[k] # "revoked" => AtMostOne(k)'
  BY <1>3, <1>4, <1>1 DEF AtMostOne
<1>8. IF keyState[k] # "revoked" THEN pc'[r] = "mark" /\ limit'[k] = target[r]
                                 ELSE pc'[r] = "revert"
  BY <1>1 DEF Apply, SetPolicy, Goto, VoucherInv, VoucherTypeOK
<1>9. Known(r)'
  BY <1>1, <1>3, <1>4, <1>8 DEF Known
<1> QED
  BY <1>1, <1>2, <1>5, <1>6, <1>7, <1>9, TurnKeepsData DEF Apply, VoucherInv, Calls

LEMMA RevertStep ==
  ASSUME VoucherInv, NEW r \in Requests, Revert(r) PROVE DataInv'
<1> DEFINE k == KeyOf[r]
           c == CardOf[r]
<1>1. /\ k \in Keys /\ c \in Cards /\ pc[r] = "revert"
      /\ UNCHANGED <<limit, keyState, grantApplied>>
  BY VoucherAssumption DEF Revert, Turn, keyVars
<1>2. /\ \A q \in Requests : q # r => SameTask(q) /\ answer'[q] = answer[q]
      /\ pc'[r] = "over" /\ answer'[r] = "refused"
  BY DEF Revert, EndTurn, ReleaseMutex, SameTask, VoucherInv, VoucherTypeOK
<1>3. c \in Stranded(k) /\ keyState[k] = "revoked"
  BY <1>1 DEF VoucherInv, DataInv, Known
<1>4. /\ status'[c] = "unredeemed" /\ redeemedBy'[c] = NoKey
      /\ \A d \in Cards : d # c => /\ status'[d] = status[d] /\ redeemedBy'[d] = redeemedBy[d]
                                   /\ granted'[d] = granted[d]
  BY <1>1, <1>3 DEF Revert, Stranded, VoucherInv, VoucherTypeOK
<1>5. \A j \in Keys : j # k => Stranded(j)' = Stranded(j)
  BY <1>1, <1>3, <1>4, VoucherAssumption DEF Stranded
<1>6. \A j \in Keys : j # k => Frame(j)
  BY <1>1, <1>3, <1>4, <1>5 DEF Frame, Stranded
<1>7. CardInv' /\ SpentStays /\ AnswerEarned(r)
  BY <1>1, <1>2, <1>3, <1>4 DEF CardInv, SpentStays, AnswerEarned, Stranded, VoucherInv, DataInv
<1>8. Known(r)'
  BY <1>2, KnownNothing DEF Running, Calls
<1> QED
  BY <1>1, <1>2, <1>3, <1>6, <1>7, <1>8, TurnKeepsData DEF Revert, VoucherInv, Calls

LEMMA MarkStep ==
  ASSUME VoucherInv, NEW r \in Requests, Mark(r) PROVE DataInv'
<1> DEFINE k == KeyOf[r]
           c == CardOf[r]
<1>1. /\ k \in Keys /\ c \in Cards /\ pc[r] = "mark"
      /\ UNCHANGED <<status, redeemedBy, granted, limit, keyState>>
  BY VoucherAssumption DEF Mark, Turn, keyVars
<1>2. /\ \A q \in Requests : q # r => SameTask(q) /\ answer'[q] = answer[q]
      /\ pc'[r] = "over"
  BY DEF Mark, EndTurn, ReleaseMutex, SameTask, VoucherInv, VoucherTypeOK
<1>3. c \in Stranded(k) /\ keyState[k] # "revoked" /\ Stranded(k) = {c}
  BY <1>1 DEF VoucherInv, DataInv, Known
<1>4. grantApplied'[c] /\ \A d \in Cards : d # c => grantApplied'[d] = grantApplied[d]
  BY <1>1, <1>3 DEF Mark, Stranded, VoucherInv, VoucherTypeOK
<1>5. (\A j \in Keys : j # k => Stranded(j)' = Stranded(j)) /\ Stranded(k)' = {}
  BY <1>1, <1>3, <1>4 DEF Stranded
<1>6. \A j \in Keys : j # k => Frame(j)
  BY <1>1, <1>5 DEF Frame
<1>7. CardInv' /\ SpentStays /\ AnswerEarned(r)
  BY <1>1, <1>3, <1>4 DEF CardInv, SpentStays, AnswerEarned, Stranded, VoucherInv, DataInv
<1>8. Known(r)'
  BY <1>2, KnownNothing DEF Running, Calls
<1> QED
  BY <1>1, <1>2, <1>5, <1>6, <1>7, <1>8, TurnKeepsData
  DEF Mark, VoucherInv, Calls, AtMostOne

LEMMA ThrowStep ==
  ASSUME VoucherInv, NEW r \in Requests, Throw(r) PROVE DataInv'
<1>1. PICK call \in Writes : Turn(r, call)
  BY DEF Throw
<1>2. /\ \A q \in Requests : q # r => SameTask(q) /\ answer'[q] = answer[q]
      /\ pc'[r] = "idle" /\ answer' = answer /\ UNCHANGED <<cardVars, limit, keyState>>
  BY DEF Throw, ReleaseMutex, SameTask, keyVars, VoucherInv, VoucherTypeOK
<1>3. Known(r)'
  BY <1>2, KnownNothing DEF Running, Calls
<1> QED
  BY <1>1, <1>2, <1>3, ReadKeepsData DEF VoucherInv, AnswerEarned, Calls, Writes

-----------------------------------------------------------------------------
(* The steps between chains.                                               *)

(* Of a step in which nobody's answer changes and every redemption either  *)
(* keeps what it knows or knows nothing.                                   *)
LEMMA StillKeepsData ==
  ASSUME VoucherInv, answer' = answer, SpentStays, CardInv',
         \A k \in Keys : /\ Stranded(k)' = Stranded(k)
                         /\ keyState[k] = "revoked" => keyState'[k] = "revoked",
         \A q \in Requests : Known(q)'
  PROVE  DataInv'
<1>1. OneUnsettled'
  <2> SUFFICES ASSUME NEW k \in Keys, keyState'[k] # "revoked" PROVE AtMostOne(k)'
    BY DEF OneUnsettled, AtMostOne
  <2> QED BY DEF AtMostOne, VoucherInv, DataInv, OneUnsettled
<1>2. SuccessIsDurable'
  BY VoucherAssumption DEF SuccessIsDurable, SpentStays, VoucherInv, DataInv
<1> QED
  BY <1>1, <1>2 DEF DataInv

LEMMA CallerStep ==
  ASSUME VoucherInv, NEW r \in Requests, Arrive(r) \/ Reject(r) \/ Enter(r) PROVE DataInv'
<1>1. /\ UNCHANGED <<cardVars, limit, keyState, answer, todo, target>>
      /\ \A q \in Requests : q # r => SameTask(q)
      /\ pc'[r] \notin Running
  BY DEF Arrive, Reject, Enter, keyVars, SameTask, VoucherInv, VoucherTypeOK, Running, Calls
<1>2. (\A k \in Keys : Frame(k)) /\ SpentStays /\ CardInv'
  BY <1>1, FilesUntouched DEF VoucherInv, DataInv
<1>3. ASSUME NEW q \in Requests PROVE Known(q)'
  <2>1. CASE q = r
    BY <2>1, <1>1, KnownNothing
  <2>2. CASE q # r
    BY <2>2, <1>1, <1>2, KnownFramed, VoucherAssumption DEF VoucherInv, DataInv
  <2> QED BY <2>1, <2>2
<1> QED
  BY <1>1, <1>2, <1>3, StillKeepsData DEF Frame

LEMMA CardStep ==
  ASSUME VoucherInv, NEW c \in Cards, Create(c) \/ RevokeCard(c) PROVE DataInv'
<1>1. /\ UNCHANGED <<redeemedBy, granted, grantApplied, keyVars, taskVars>>
      /\ status[c] # "redeemed" /\ status'[c] # "redeemed"
      /\ \A d \in Cards : d # c => status'[d] = status[d]
  BY DEF Create, RevokeCard, VoucherInv, VoucherTypeOK
<1>2. \A k \in Keys : Stranded(k)' = Stranded(k)
  BY <1>1 DEF Stranded
<1>3. \A k \in Keys : Frame(k)
  BY <1>1, <1>2 DEF Frame, keyVars
<1>4. SpentStays /\ CardInv'
  BY <1>1 DEF SpentStays, CardInv, VoucherInv, DataInv
<1>5. \A q \in Requests : Known(q)'
  BY <1>1, <1>3, KnownFramed, VoucherAssumption DEF SameTask, taskVars, VoucherInv, DataInv
<1> QED
  BY <1>1, <1>2, <1>3, <1>4, <1>5, StillKeepsData DEF Frame, taskVars

LEMMA KeyStep ==
  ASSUME VoucherInv, NEW k \in Keys,
         SetEnabled(k) \/ RevokeKey(k) \/ \E n \in Limits : EditLimit(k, n)
  PROVE  DataInv'
<1>1. Quiet /\ keyState[k] # "revoked" /\ UNCHANGED <<cardVars, taskVars>>
      /\ \A j \in Keys : j # k => keyState'[j] = keyState[j]
  BY DEF SetEnabled, RevokeKey, EditLimit, ChangeKey, VoucherInv, VoucherTypeOK
<1>2. \A q \in Requests : pc'[q] \notin Running
  BY <1>1, QuietMeansIdle DEF VoucherInv, taskVars, Running
<1>3. \A q \in Requests : Known(q)'
  BY <1>2, KnownNothing
<1>4. SpentStays /\ CardInv' /\ \A j \in Keys : Stranded(j)' = Stranded(j)
  BY <1>1 DEF SpentStays, CardInv, Stranded, cardVars, VoucherInv, DataInv
<1> QED
  BY <1>1, <1>3, <1>4, StillKeepsData DEF taskVars

LEMMA CrashStep ==
  ASSUME VoucherInv, Crash PROVE DataInv'
<1>1. UNCHANGED <<cardVars, limit, keyState, answer>>
  BY DEF Crash, keyVars
<1>2. \A q \in Requests : pc'[q] \notin Running
  BY DEF Crash, Running, Calls
<1>3. \A q \in Requests : Known(q)'
  BY <1>2, KnownNothing
<1>4. (\A k \in Keys : Frame(k)) /\ SpentStays /\ CardInv'
  BY <1>1, FilesUntouched DEF VoucherInv, DataInv
<1> QED
  BY <1>1, <1>3, <1>4, StillKeepsData DEF Frame

LEMMA NoStep ==
  ASSUME VoucherInv, UNCHANGED vars PROVE DataInv'
<1>1. UNCHANGED <<cardVars, limit, keyState, answer, pc, todo, target>>
  BY DEF vars, keyVars, taskVars
<1>2. (\A k \in Keys : Frame(k)) /\ SpentStays /\ CardInv'
  BY <1>1, FilesUntouched DEF VoucherInv, DataInv
<1>3. \A q \in Requests : Known(q)'
  BY <1>1, <1>2, KnownFramed, VoucherAssumption DEF SameTask, VoucherInv, DataInv
<1> QED
  BY <1>1, <1>2, <1>3, StillKeepsData DEF Frame

LEMMA DataStep == ASSUME VoucherInv, [Next]_vars PROVE DataInv'
<1>1. ASSUME NEW r \in Requests, Chain(r) PROVE DataInv'
  BY <1>1, ListStep, SettleStep, SettledStep, LookupStep, ReadStep, FlipStep, LostStep,
     ApplyStep, RevertStep, MarkStep DEF Chain
<1> QED
  BY <1>1, CallerStep, ThrowStep, CardStep, KeyStep, CrashStep, NoStep DEF Next

-----------------------------------------------------------------------------
(* The types.                                                              *)

LEMMA TaskTypes ==
  ASSUME VoucherTypeOK, NEW r \in Requests, Chain(r) \/ Throw(r), MutexInv
  PROVE  /\ mutex' \in [Keys -> Seq(Requests)]
         /\ pc' \in [Requests -> Calls \cup {"idle", "body", "over"}]
<1>1. PICK call \in Calls : Turn(r, call)
  BY ChainShape
<1>2. KeyOf[r] \in Keys /\ mutex[KeyOf[r]] # << >> /\ mutex[KeyOf[r]] \in Seq(Requests)
  BY <1>1, VoucherAssumption DEF Turn, VoucherTypeOK
<1>3. Tail(mutex[KeyOf[r]]) \in Seq(Requests)
  BY <1>2
<1>4. CASE Onward(r)
  BY <1>4 DEF Onward, VoucherTypeOK
<1>5. CASE Ends(r)
  BY <1>2, <1>3, <1>5 DEF Ends, VoucherTypeOK
<1> QED
  BY <1>4, <1>5, ChainShape

LEMMA GrantType ==
  ASSUME NEW n \in Nat, NEW c \in Cards PROVE ComputeGrant(n, c) \in Nat
BY VoucherAssumption DEF ComputeGrant

LEMMA FoundTypes ==
  ASSUME VoucherTypeOK, NEW r \in Requests, FoundRedeemed(r)
  PROVE  /\ answer' \in [Requests -> Answers]
         /\ todo' \in [Requests -> SUBSET Cards]
         /\ target' \in [Requests -> Nat]
<1> USE DEF VoucherTypeOK, Answers
<1>1. ASSUME NEW a \in Answers, EndTurn(r, a)
      PROVE  /\ answer' \in [Requests -> Answers]
             /\ todo' \in [Requests -> SUBSET Cards]
             /\ target' \in [Requests -> Nat]
  BY <1>1 DEF EndTurn, ReleaseMutex
<1>2. CASE Goto(r, "apply") /\ target' = [target EXCEPT ![r] = granted[CardOf[r]]]
           /\ UNCHANGED todo
  <2>1. granted[CardOf[r]] \in Nat
    BY VoucherAssumption
  <2> QED BY <1>2, <2>1 DEF Goto
<1>3. CASE EndTurn(r, "refused") \/ EndTurn(r, "ok")
  BY <1>1, <1>3
<1> QED
  BY <1>2, <1>3 DEF FoundRedeemed

LEMMA ChainTypes ==
  ASSUME VoucherInv, NEW r \in Requests, Chain(r) \/ Throw(r) PROVE VoucherTypeOK'
<1>1. /\ mutex' \in [Keys -> Seq(Requests)]
      /\ pc' \in [Requests -> Calls \cup {"idle", "body", "over"}]
  BY TaskTypes DEF VoucherInv
<1>2. KeyOf[r] \in Keys /\ CardOf[r] \in Cards
  BY VoucherAssumption
<1> SUFFICES /\ status' \in [Cards -> Statuses]
             /\ redeemedBy' \in [Cards -> Keys \cup {NoKey}]
             /\ granted' \in [Cards -> Nat]
             /\ grantApplied' \in [Cards -> BOOLEAN]
             /\ limit' \in [Keys -> Nat]
             /\ keyState' \in [Keys -> KeyStates]
             /\ changes' \in 0 .. MaxChanges
             /\ answer' \in [Requests -> Answers]
             /\ todo' \in [Requests -> SUBSET Cards]
             /\ target' \in [Requests -> Nat]
  BY <1>1 DEF VoucherTypeOK
<1> USE DEF VoucherInv, VoucherTypeOK, cardVars, keyVars, Goto, GoOn, EndTurn, ReleaseMutex,
            Answers, Statuses
<1>3. CASE List(r)
  BY <1>3 DEF List, Stranded
<1>4. CASE Settle(r)
  <2>1. Oldest(todo[r]) \in Cards
    BY <1>4, OpenGrant DEF Settle, Turn
  <2>2. granted[Oldest(todo[r])] \in Nat
    BY <2>1
  <2>3. CASE SetPolicy(KeyOf[r], granted[Oldest(todo[r])]) /\ UNCHANGED todo
    BY <1>2, <1>4, <2>2, <2>3 DEF Settle, SetPolicy
  <2>4. CASE todo' = [todo EXCEPT ![r] = todo[r] \ {Oldest(todo[r])}] /\ UNCHANGED keyVars
    BY <1>4, <2>4 DEF Settle
  <2> QED BY <1>4, <2>3, <2>4 DEF Settle
<1>5. CASE Settled(r)
  BY <1>5 DEF Settled
<1>6. CASE Lookup(r)
  <2>1. CASE FoundRedeemed(r)
    BY <1>2, <1>6, <2>1, FoundTypes DEF Lookup
  <2>2. CASE GoOn(r, "read")
    BY <1>6, <2>2 DEF Lookup
  <2>3. CASE EndTurn(r, "refused")
    BY <1>6, <2>3 DEF Lookup
  <2> QED BY <1>6, <2>1, <2>2, <2>3 DEF Lookup
<1>7. CASE Read(r)
  BY <1>2, <1>7, GrantType DEF Read
<1>8. CASE Flip(r)
  <2>1. CASE status[CardOf[r]] = "unredeemed"
    <3>1. target[r] \in Nat
      OBVIOUS
    <3> QED BY <1>2, <1>8, <2>1, <3>1 DEF Flip
  <2>2. CASE status[CardOf[r]] # "unredeemed"
    BY <1>8, <2>2 DEF Flip
  <2> QED BY <2>1, <2>2
<1>9. CASE Lost(r)
  <2>1. CASE FoundRedeemed(r)
    BY <1>2, <1>9, <2>1, FoundTypes DEF Lost
  <2>2. CASE EndTurn(r, "refused")
    BY <1>9, <2>2 DEF Lost
  <2> QED BY <1>9, <2>1, <2>2 DEF Lost
<1>10. CASE Apply(r)
  BY <1>2, <1>10 DEF Apply, SetPolicy
<1>11. CASE Revert(r)
  <2>1. /\ status' \in [Cards -> Statuses]
        /\ redeemedBy' \in [Cards -> Keys \cup {NoKey}]
        /\ granted' \in [Cards -> Nat]
    <3>1. CASE UNCHANGED <<status, redeemedBy, granted>>
      BY <3>1
    <3>2. CASE /\ status' = [status EXCEPT ![CardOf[r]] = "unredeemed"]
               /\ redeemedBy' = [redeemedBy EXCEPT ![CardOf[r]] = NoKey]
               /\ granted' = [granted EXCEPT ![CardOf[r]] = 0]
      BY <3>2
    <3> QED BY <1>11, <3>1, <3>2 DEF Revert
  <2> QED BY <1>11, <2>1 DEF Revert
<1>12. CASE Mark(r)
  BY <1>2, <1>12 DEF Mark
<1>13. CASE Throw(r)
  BY <1>13 DEF Throw
<1> QED
  BY <1>3, <1>4, <1>5, <1>6, <1>7, <1>8, <1>9, <1>10, <1>11, <1>12, <1>13 DEF Chain

LEMMA TypeStep == ASSUME VoucherInv, [Next]_vars PROVE VoucherTypeOK'
<1> USE DEF VoucherInv, VoucherTypeOK, cardVars, keyVars, taskVars
<1>1. ASSUME NEW r \in Requests, Arrive(r) \/ Reject(r) PROVE VoucherTypeOK'
  BY <1>1 DEF Arrive, Reject
<1>2. ASSUME NEW r \in Requests, Enter(r) PROVE VoucherTypeOK'
  <2>1. Append(mutex[KeyOf[r]], r) \in Seq(Requests)
    BY VoucherAssumption
  <2> QED BY <1>2, <2>1 DEF Enter, Calls
<1>3. ASSUME NEW c \in Cards, Create(c) \/ RevokeCard(c) PROVE VoucherTypeOK'
  BY <1>3 DEF Create, RevokeCard, Statuses
<1>4. ASSUME NEW k \in Keys, SetEnabled(k) \/ RevokeKey(k) \/ \E n \in Limits : EditLimit(k, n)
      PROVE  VoucherTypeOK'
  <2>1. changes' \in 0 .. MaxChanges
    BY <1>4, VoucherAssumption DEF SetEnabled, RevokeKey, EditLimit, ChangeKey
  <2>2. CASE SetEnabled(k)
    BY <2>1, <2>2 DEF SetEnabled, KeyStates
  <2>3. CASE RevokeKey(k)
    BY <2>1, <2>3 DEF RevokeKey, KeyStates
  <2>4. ASSUME NEW n \in Limits, EditLimit(k, n) PROVE VoucherTypeOK'
    BY <2>1, <2>4, VoucherAssumption DEF EditLimit
  <2> QED BY <1>4, <2>2, <2>3, <2>4
<1>5. CASE Crash
  <2>1. mutex' \in [Keys -> Seq(Requests)]
    BY <1>5 DEF Crash
  <2>2. pc' \in [Requests -> Calls \cup {"idle", "body", "over"}]
    BY <1>5 DEF Crash
  <2> QED BY <1>5, <2>1, <2>2 DEF Crash
<1>6. CASE UNCHANGED vars
  BY <1>6 DEF vars
<1> QED
  BY <1>1, <1>2, <1>3, <1>4, <1>5, <1>6, ChainTypes DEF Next

-----------------------------------------------------------------------------
(* The theorems.                                                           *)

LEMMA InitVoucherInv == Init => VoucherInv
<1> SUFFICES ASSUME Init PROVE VoucherInv
  OBVIOUS
<1> USE DEF Init
<1>1. VoucherTypeOK
  BY VoucherAssumption DEF VoucherTypeOK, Statuses, KeyStates, Answers
<1>2. MutexInv
  BY DEF MutexInv, Distinct, Queued, Calls
<1>3. CardInv /\ OneUnsettled /\ SuccessIsDurable
  BY DEF CardInv, OneUnsettled, SuccessIsDurable, Stranded
<1>4. \A r \in Requests : Known(r)
  BY DEF Known
<1> QED
  BY <1>1, <1>2, <1>3, <1>4 DEF VoucherInv, DataInv

LEMMA StepVoucherInv == VoucherInv /\ [Next]_vars => VoucherInv'
<1> SUFFICES ASSUME VoucherInv, [Next]_vars PROVE VoucherInv'
  OBVIOUS
<1>1. MutexInv'
  BY MutexStep DEF VoucherInv
<1> QED
  BY <1>1, DataStep, TypeStep DEF VoucherInv

LEMMA VoucherInvAlways == Spec => []VoucherInv
  BY InitVoucherInv, StepVoucherInv, PTL DEF Spec

(* The state keeps its type.                                               *)
THEOREM VoucherTypeCorrect == Spec => []VoucherTypeOK
  BY VoucherInvAlways, PTL DEF VoucherInv

(* The redemptions of a key run one at a time, and none keeps its mutex.   *)
THEOREM VoucherMutex == Spec => []MutexHeld
<1>1. VoucherInv => MutexHeld
  BY FirstOfLine DEF VoucherInv
<1> QED
  BY <1>1, VoucherInvAlways, PTL

(* A key that is not revoked has at most one open grant.                   *)
THEOREM VoucherOneUnsettled == Spec => []OneUnsettled
  BY VoucherInvAlways, PTL DEF VoucherInv, DataInv

(* A redemption answered with success stays redeemed, its grant applied.   *)
THEOREM VoucherDurable == Spec => []SuccessIsDurable
  BY VoucherInvAlways, PTL DEF VoucherInv, DataInv

LEMMA EndRepairs ==
  ASSUME VoucherInv, [Next]_vars, NEW r \in Requests,
         pc[r] \in Calls, pc'[r] = "over", keyState[KeyOf[r]] # "revoked"
  PROVE  Stranded(KeyOf[r])' = {}
<1> USE DEF VoucherInv, VoucherTypeOK
<1>1. ASSUME NEW q \in Requests, q # r, Chain(q) \/ Throw(q) PROVE FALSE
  BY <1>1, ChainShape DEF Onward, Ends, Calls
<1>2. ASSUME NEW q \in Requests, Arrive(q) \/ Reject(q) \/ Enter(q) PROVE FALSE
  BY <1>2 DEF Arrive, Reject, Enter, Calls
<1>3. ASSUME UNCHANGED pc PROVE FALSE
  BY <1>3 DEF Calls
<1>4. CASE Crash
  BY <1>4 DEF Crash, Calls
<1>5. CASE Throw(r)
  BY <1>5 DEF Throw
<1>6. CASE List(r) \/ Settle(r) \/ Settled(r) \/ Read(r) \/ Flip(r) \/ Apply(r)
  BY <1>6 DEF List, Settle, Settled, Read, Flip, Apply, Goto
<1>7. CASE Revert(r)
  BY <1>7 DEF Revert, Turn, DataInv, Known
<1>8. CASE Lookup(r) \/ Lost(r)
  <2>1. Stranded(KeyOf[r]) = {}
    BY <1>8 DEF Lookup, Lost, Turn, DataInv, Known
  <2> QED BY <1>8, <2>1 DEF Lookup, Lost, Stranded, cardVars
<1>9. CASE Mark(r)
  <2>1. Stranded(KeyOf[r]) = {CardOf[r]}
    BY <1>9 DEF Mark, Turn, DataInv, Known
  <2>2. status[CardOf[r]] = "redeemed" /\ CardOf[r] \in Cards
    BY <2>1, VoucherAssumption DEF Stranded
  <2>3. grantApplied' = [grantApplied EXCEPT ![CardOf[r]] = TRUE]
    BY <1>9, <2>2 DEF Mark
  <2> QED BY <1>9, <2>1, <2>2, <2>3 DEF Mark, Stranded
<1>10. Chain(r) \/ Throw(r) \/ Crash
  <2>1. (\E q \in Requests : Chain(q) \/ Throw(q)) \/ Crash
    BY <1>2, <1>3 DEF Next, vars, taskVars, Create, RevokeCard, EditLimit, SetEnabled, RevokeKey
  <2> QED BY <2>1, <1>1
<1> QED
  BY <1>4, <1>5, <1>6, <1>7, <1>8, <1>9, <1>10 DEF Chain

(* A chain that runs to its end leaves no open grant on its key.           *)
THEOREM VoucherRepairs == Spec => NextOneRepairs
<1>1. VoucherInv /\ [Next]_vars =>
        \A r \in Requests :
          /\ pc[r] \in Calls /\ pc'[r] = "over"
          /\ keyState[KeyOf[r]] # "revoked"
          => Stranded(KeyOf[r])' = {}
  BY EndRepairs
<1> QED
  BY <1>1, VoucherInvAlways, PTL DEF Spec, NextOneRepairs

-----------------------------------------------------------------------------
(* The ledger.                                                             *)

(* From the reading of the limit to the flip a key is not a disabled one.  *)
SteadyInv ==
  \A r \in Requests : pc[r] \in {"read", "flip"} => keyState[KeyOf[r]] # "disabled"

LEMMA FlipFollowsRead ==
  ASSUME VoucherInv, [Next]_vars, NEW r \in Requests, pc'[r] = "flip"
  PROVE  pc[r] \in {"read", "flip"} /\ keyState'[KeyOf[r]] = keyState[KeyOf[r]]
<1> USE DEF VoucherInv, VoucherTypeOK
<1>1. KeyOf[r] \in Keys
  BY VoucherAssumption
<1>2. ASSUME NEW q \in Requests, Chain(q) PROVE keyState' = keyState
  BY <1>2
  DEF Chain, List, Settle, Settled, Lookup, Read, Flip, Lost, Apply, Revert, Mark, SetPolicy,
      keyVars
<1>3. ASSUME NEW q \in Requests, Throw(q) \/ Arrive(q) \/ Reject(q) \/ Enter(q)
      PROVE  keyState' = keyState
  BY <1>3 DEF Throw, Arrive, Reject, Enter, keyVars
<1>4. CASE pc[r] = "flip"
  <2>1. ~Quiet
    BY <1>4, QuietMeansIdle DEF Calls
  <2> QED
    BY <1>2, <1>3, <1>4, <2>1
    DEF Next, vars, Create, RevokeCard, EditLimit, SetEnabled, RevokeKey, ChangeKey, Crash, keyVars
<1>5. CASE pc[r] # "flip"
  <2>1. ASSUME NEW q \in Requests, q # r, Chain(q) \/ Throw(q) PROVE FALSE
    BY <2>1, <1>5, ChainShape DEF Onward, Ends
  <2>2. ASSUME NEW q \in Requests, Throw(q) \/ Arrive(q) \/ Reject(q) \/ Enter(q) PROVE FALSE
    BY <2>2, <1>5 DEF Throw, Arrive, Reject, Enter
  <2>3. ASSUME Crash \/ UNCHANGED pc PROVE FALSE
    BY <2>3, <1>5 DEF Crash
  <2>4. Chain(r)
    BY <2>1, <2>2, <2>3
    DEF Next, vars, taskVars, Create, RevokeCard, EditLimit, SetEnabled, RevokeKey
  <2>5. CASE Read(r)
    BY <2>5, <1>2, <2>4 DEF Read, Turn
  <2>6. CASE List(r) \/ Settle(r) \/ Settled(r) \/ Flip(r) \/ Apply(r) \/ Revert(r) \/ Mark(r)
    BY <2>6 DEF List, Settle, Settled, Flip, Apply, Revert, Mark, Goto, EndTurn
  <2>7. CASE Lookup(r) \/ Lost(r)
    BY <2>7 DEF Lookup, Lost, FoundRedeemed, GoOn, Goto, EndTurn
  <2> QED
    BY <2>4, <2>5, <2>6, <2>7 DEF Chain
<1> QED
  BY <1>4, <1>5

LEMMA SteadyStep ==
  ASSUME VoucherInv, SteadyInv, [Next /\ FoundEnabled']_vars
  PROVE  SteadyInv'
<1> SUFFICES ASSUME NEW r \in Requests, pc'[r] \in {"read", "flip"}
             PROVE  keyState'[KeyOf[r]] # "disabled"
  BY DEF SteadyInv
<1>1. CASE pc'[r] = "flip"
  BY <1>1, FlipFollowsRead DEF SteadyInv
<1>2. CASE pc'[r] = "read" /\ FoundEnabled'
  BY <1>2 DEF FoundEnabled
<1>3. CASE UNCHANGED vars
  BY <1>3 DEF SteadyInv, vars, taskVars, keyVars
<1> QED
  BY <1>1, <1>2, <1>3

BalanceOf(k) ==
  IF keyState[k] = "revoked" THEN 0
  ELSE IF Stranded(k) = {} THEN limit[k]
  ELSE granted[Oldest(Stranded(k))]

OwnerOf(c) == IF status[c] = "revoked" THEN Gone ELSE redeemedBy[c]

LEMMA Books ==
  /\ LedgerBalance = [k \in Keys |-> BalanceOf(k)]
  /\ LedgerOwner = [c \in Cards |-> OwnerOf(c)]
BY DEF LedgerBalance, LedgerOwner, BalanceOf, OwnerOf

LEMMA FramedBalance ==
  ASSUME NEW k \in Keys, Frame(k) PROVE BalanceOf(k)' = BalanceOf(k)
<1>1. Stranded(k) # {} => Oldest(Stranded(k)) \in Stranded(k)
  BY DEF Oldest
<1> QED
  BY <1>1 DEF Frame, BalanceOf

(* What the ledger does not see.                                           *)
LEMMA BooksKept ==
  ASSUME \A k \in Keys : BalanceOf(k)' = BalanceOf(k),
         \A c \in Cards : OwnerOf(c)' = OwnerOf(c)
  PROVE  LedgerBalance' = LedgerBalance /\ LedgerOwner' = LedgerOwner
BY DEF LedgerBalance, LedgerOwner, BalanceOf, OwnerOf

(* A chain that moves the grant of its card between the two files moves    *)
(* nothing in the ledger.                                                  *)
LEMMA GrantUnseen ==
  ASSUME VoucherInv, NEW r \in Requests, Settle(r) \/ Settled(r) \/ Apply(r) \/ Mark(r)
  PROVE  UNCHANGED <<LedgerOwner, LedgerBalance, keyState, changes>>
<1> DEFINE k == KeyOf[r]
<1> USE DEF VoucherInv, VoucherTypeOK
<1>1. k \in Keys /\ CardOf[r] \in Cards
      /\ UNCHANGED <<status, redeemedBy, granted, keyState, changes>>
  BY VoucherAssumption
  DEF Settle, Settled, Apply, Mark, SetPolicy, cardVars, keyVars
<1>2. \A c \in Cards : OwnerOf(c)' = OwnerOf(c)
  BY <1>1 DEF OwnerOf
<1>3. CASE Settle(r)
  <2>1. keyState[k] # "revoked" => Stranded(k) # {}
    BY <1>3, OpenGrant DEF Settle, Turn
  <2>2. \A j \in Keys : Stranded(j)' = Stranded(j)
    BY <1>3 DEF Settle, Stranded, cardVars
  <2>3. \A j \in Keys : j # k => limit'[j] = limit[j]
    BY <1>3 DEF Settle, SetPolicy, keyVars
  <2>4. \A j \in Keys : BalanceOf(j)' = BalanceOf(j)
    BY <1>1, <2>1, <2>2, <2>3 DEF BalanceOf
  <2> QED BY <1>1, <1>2, <2>4, BooksKept
<1>4. CASE Settled(r)
  <2> DEFINE c == Oldest(todo[r])
  <2>1. /\ c \in Cards /\ keyState[k] # "revoked" /\ Stranded(k) = {c} /\ todo[r] = {c}
        /\ limit[k] = granted[c]
    BY <1>4, OpenGrant DEF Settled, Turn, DataInv, Known
  <2>2. grantApplied' = [grantApplied EXCEPT ![c] = TRUE] /\ limit' = limit
    BY <1>4 DEF Settled, keyVars
  <2>3. Stranded(k)' = {} /\ \A j \in Keys : j # k => Stranded(j)' = Stranded(j)
    BY <1>1, <2>1, <2>2 DEF Stranded
  <2>4. Oldest(Stranded(k)) = c
    BY <2>1
  <2>5. \A j \in Keys : BalanceOf(j)' = BalanceOf(j)
    BY <1>1, <2>1, <2>2, <2>3, <2>4 DEF BalanceOf
  <2> QED BY <1>1, <1>2, <2>5, BooksKept
<1>5. CASE Apply(r)
  <2>1. Stranded(k) # {}
    BY <1>5 DEF Apply, Turn, DataInv, Known
  <2>2. \A j \in Keys : Stranded(j)' = Stranded(j)
    BY <1>5 DEF Apply, Stranded, cardVars
  <2>3. \A j \in Keys : j # k => limit'[j] = limit[j]
    BY <1>5 DEF Apply, SetPolicy, keyVars
  <2>4. \A j \in Keys : BalanceOf(j)' = BalanceOf(j)
    BY <1>1, <2>1, <2>2, <2>3 DEF BalanceOf
  <2> QED BY <1>1, <1>2, <2>4, BooksKept
<1>6. CASE Mark(r)
  <2> DEFINE c == CardOf[r]
  <2>1. /\ keyState[k] # "revoked" /\ Stranded(k) = {c} /\ c \in Stranded(k)
        /\ limit[k] = target[r] /\ granted[c] = target[r]
    BY <1>6 DEF Mark, Turn, DataInv, Known
  <2>2. grantApplied' = [grantApplied EXCEPT ![c] = TRUE] /\ limit' = limit
    BY <1>6, <2>1 DEF Mark, keyVars, Stranded
  <2>3. Stranded(k)' = {} /\ \A j \in Keys : j # k => Stranded(j)' = Stranded(j)
    BY <1>1, <2>1, <2>2 DEF Stranded
  <2>4. Oldest(Stranded(k)) = c
    BY <2>1 DEF Oldest
  <2>5. \A j \in Keys : BalanceOf(j)' = BalanceOf(j)
    BY <1>1, <2>1, <2>2, <2>3, <2>4 DEF BalanceOf
  <2> QED BY <1>1, <1>2, <2>5, BooksKept
<1> QED
  BY <1>3, <1>4, <1>5, <1>6

(* The flip spends the card, and says what the limit will be.              *)
LEMMA FlipSpends ==
  ASSUME VoucherInv, SteadyInv, NEW r \in Requests, Flip(r),
         status[CardOf[r]] = "unredeemed"
  PROVE  Ledger!Spend(KeyOf[r], CardOf[r]) \/ Ledger!Hold(KeyOf[r], CardOf[r])
<1> DEFINE k == KeyOf[r]
           c == CardOf[r]
<1> USE DEF VoucherInv, VoucherTypeOK
<1>1. k \in Keys /\ c \in Cards /\ UNCHANGED keyVars /\ pc[r] = "flip"
      /\ status' = [status EXCEPT ![c] = "redeemed"]
      /\ redeemedBy' = [redeemedBy EXCEPT ![c] = k]
      /\ granted' = [granted EXCEPT ![c] = target[r]]
      /\ grantApplied' = [grantApplied EXCEPT ![c] = FALSE]
  BY VoucherAssumption DEF Flip, Turn
<1>2. redeemedBy[c] = NoKey /\ k # NoKey
  BY <1>1, VoucherAssumption DEF DataInv, CardInv
<1>3. (keyState[k] # "revoked" => Stranded(k) = {})
      /\ target[r] = ComputeGrant(Limited(k), c)
  BY <1>1 DEF DataInv, Known
<1>4. Stranded(k)' = Stranded(k) \cup {c}
  BY <1>1 DEF Stranded
<1>5. \A j \in Keys : j # k => Stranded(j)' = Stranded(j)
  BY <1>1 DEF Stranded
<1>6. \A j \in Keys : j # k => Frame(j)
  BY <1>1, <1>5 DEF Frame, Stranded, keyVars
<1>7. \A j \in Keys : j # k => BalanceOf(j)' = BalanceOf(j)
  BY <1>6, FramedBalance
<1>8. LedgerOwner[c] = NoKey /\ LedgerOwner' = [LedgerOwner EXCEPT ![c] = k]
  BY <1>1, <1>2 DEF LedgerOwner
<1>9. CASE keyState[k] # "revoked"
  <2>1. Oldest(Stranded(k)') = c /\ Stranded(k)' # {}
    BY <1>3, <1>4, <1>9 DEF Oldest
  <2>2. BalanceOf(k)' = target[r]
    BY <1>1, <1>9, <2>1 DEF BalanceOf, keyVars
  <2>3. BalanceOf(k) = limit[k]
    BY <1>3, <1>9 DEF BalanceOf
  <2>4. LedgerBalance' = [LedgerBalance EXCEPT ![k] = target[r]]
    BY <1>1, <1>7, <2>2 DEF LedgerBalance, BalanceOf
  <2>5. LedgerBalance[k] = limit[k]
    BY <1>1, <2>3, Books
  <2>6. keyState[k] = "live"
    BY <1>1, <1>9 DEF SteadyInv, KeyStates
  <2>7. target[r] = Ledger!Raised(LedgerBalance[k], c)
    BY <1>3, <2>5, <2>6 DEF ComputeGrant, Limited, Ledger!Raised
  <2> QED BY <1>1, <1>8, <1>9, <2>4, <2>7 DEF Ledger!Spend, keyVars
<1>10. CASE keyState[k] = "revoked"
  <2>1. BalanceOf(k)' = BalanceOf(k)
    BY <1>1, <1>10 DEF BalanceOf, keyVars
  <2>2. LedgerBalance' = LedgerBalance
    BY <1>7, <2>1 DEF LedgerBalance, BalanceOf
  <2> QED BY <1>1, <1>8, <1>10, <2>2 DEF Ledger!Hold, keyVars
<1> QED
  BY <1>9, <1>10

LEMMA RevertGivesBack ==
  ASSUME VoucherInv, NEW r \in Requests, Revert(r) PROVE Ledger!GiveBack(CardOf[r])
<1> DEFINE k == KeyOf[r]
           c == CardOf[r]
<1> USE DEF VoucherInv, VoucherTypeOK
<1>1. k \in Keys /\ c \in Cards /\ UNCHANGED keyVars /\ pc[r] = "revert"
      /\ UNCHANGED grantApplied
  BY VoucherAssumption DEF Revert, Turn
<1>2. c \in Stranded(k) /\ keyState[k] = "revoked"
  BY <1>1 DEF DataInv, Known
<1>3. /\ status' = [status EXCEPT ![c] = "unredeemed"]
      /\ redeemedBy' = [redeemedBy EXCEPT ![c] = NoKey]
      /\ granted' = [granted EXCEPT ![c] = 0]
  BY <1>2 DEF Revert, Stranded
<1>4. \A j \in Keys : j # k => Stranded(j)' = Stranded(j)
  BY <1>1, <1>2, <1>3, VoucherAssumption DEF Stranded
<1>5. \A j \in Keys : j # k => Frame(j)
  BY <1>1, <1>2, <1>3, <1>4 DEF Frame, Stranded, keyVars
<1>6. BalanceOf(k)' = BalanceOf(k)
  BY <1>1, <1>2 DEF BalanceOf, keyVars
<1>7. LedgerBalance' = LedgerBalance
  BY <1>5, <1>6, FramedBalance DEF LedgerBalance, BalanceOf
<1>8. LedgerOwner[c] = k /\ LedgerOwner' = [LedgerOwner EXCEPT ![c] = NoKey]
  BY <1>1, <1>2, <1>3 DEF LedgerOwner, Stranded
<1> QED
  BY <1>1, <1>2, <1>7, <1>8 DEF Ledger!GiveBack, keyVars

(* Every other call leaves the files as they are.                          *)
LEMMA OtherCallsUnseen ==
  ASSUME UNCHANGED <<cardVars, keyVars>>
  PROVE  UNCHANGED <<LedgerOwner, LedgerBalance, keyState, changes>>
<1>1. (\A k \in Keys : Frame(k)) /\ \A c \in Cards : OwnerOf(c)' = OwnerOf(c)
  BY FilesUntouched DEF cardVars, keyVars, OwnerOf
<1> QED
  BY <1>1, FramedBalance, BooksKept DEF keyVars

LEMMA CardsInLedger ==
  ASSUME VoucherInv, NEW c \in Cards, Create(c) \/ RevokeCard(c)
  PROVE  Ledger!Withdraw(c) \/ UNCHANGED <<LedgerOwner, LedgerBalance, keyState, changes>>
<1> USE DEF VoucherInv, VoucherTypeOK
<1>1. UNCHANGED <<redeemedBy, granted, grantApplied, keyVars>>
      /\ status[c] # "redeemed" /\ status'[c] # "redeemed"
      /\ \A d \in Cards : d # c => status'[d] = status[d]
  BY DEF Create, RevokeCard
<1>2. \A k \in Keys : Stranded(k)' = Stranded(k)
  BY <1>1 DEF Stranded
<1>3. \A k \in Keys : Frame(k)
  BY <1>1, <1>2 DEF Frame, keyVars
<1>4. LedgerBalance' = LedgerBalance
  BY <1>3, FramedBalance DEF LedgerBalance, BalanceOf
<1>5. CASE Create(c)
  <2>1. \A d \in Cards : OwnerOf(d)' = OwnerOf(d)
    BY <1>1, <1>5 DEF Create, OwnerOf
  <2>2. LedgerOwner' = LedgerOwner
    BY <2>1 DEF LedgerOwner, OwnerOf
  <2> QED BY <1>1, <1>4, <2>2 DEF keyVars
<1>6. CASE RevokeCard(c)
  <2>1. redeemedBy[c] = NoKey
    BY <1>6 DEF RevokeCard, DataInv, CardInv
  <2>2. LedgerOwner[c] = NoKey /\ LedgerOwner' = [LedgerOwner EXCEPT ![c] = Gone]
    BY <1>6, <2>1 DEF RevokeCard, LedgerOwner
  <2> QED BY <1>1, <1>4, <2>2 DEF Ledger!Withdraw, keyVars
<1> QED
  BY <1>5, <1>6

LEMMA KeysInLedger ==
  ASSUME VoucherInv, NEW k \in Keys,
         SetEnabled(k) \/ RevokeKey(k) \/ \E n \in Limits : EditLimit(k, n)
  PROVE  Ledger!EditLimit(k) \/ Ledger!Toggle(k) \/ Ledger!CloseKey(k)
<1> USE DEF VoucherInv, VoucherTypeOK
<1>1. /\ UNCHANGED cardVars /\ keyState[k] # "revoked" /\ changes' = changes + 1
      /\ \A j \in Keys : Stranded(j)' = Stranded(j)
  BY DEF SetEnabled, RevokeKey, EditLimit, ChangeKey, cardVars, Stranded
<1>2. LedgerOwner' = LedgerOwner
  BY <1>1 DEF LedgerOwner, cardVars
<1>3. ASSUME NEW n \in Limits, EditLimit(k, n) PROVE Ledger!EditLimit(k)
  <2>1. keyState' = keyState /\ limit' = [limit EXCEPT ![k] = n] /\ granted' = granted
    BY <1>3 DEF EditLimit, cardVars
  <2>2. \A j \in Keys : j # k => BalanceOf(j)' = BalanceOf(j)
    BY <1>1, <2>1 DEF BalanceOf
  <2>3. BalanceOf(k)' \in Nat
    <3>1. Stranded(k) # {} => Oldest(Stranded(k)) \in Cards
      BY DEF Oldest, Stranded
    <3> QED BY <1>1, <2>1, <3>1, VoucherAssumption DEF BalanceOf
  <2>4. LedgerBalance' = [LedgerBalance EXCEPT ![k] = LedgerBalance'[k]]
    BY <2>2 DEF LedgerBalance, BalanceOf
  <2>5. LedgerBalance'[k] \in Nat
    BY <2>3 DEF LedgerBalance, BalanceOf
  <2> QED BY <1>1, <1>2, <2>1, <2>4, <2>5 DEF Ledger!EditLimit
<1>4. CASE SetEnabled(k)
  <2>1. limit' = limit /\ granted' = granted
        /\ keyState' = [keyState EXCEPT ![k] = IF @ = "live" THEN "disabled" ELSE "live"]
    BY <1>4 DEF SetEnabled, cardVars
  <2>2. \A j \in Keys : BalanceOf(j)' = BalanceOf(j)
    BY <1>1, <2>1 DEF BalanceOf
  <2>3. LedgerBalance' = LedgerBalance
    BY <2>2 DEF LedgerBalance, BalanceOf
  <2> QED BY <1>1, <1>2, <2>1, <2>3 DEF Ledger!Toggle
<1>5. CASE RevokeKey(k)
  <2>1. limit' = limit /\ granted' = granted
        /\ keyState' = [keyState EXCEPT ![k] = "revoked"]
    BY <1>5 DEF RevokeKey, cardVars
  <2>2. BalanceOf(k)' = 0 /\ \A j \in Keys : j # k => BalanceOf(j)' = BalanceOf(j)
    BY <1>1, <2>1 DEF BalanceOf
  <2>3. LedgerBalance' = [LedgerBalance EXCEPT ![k] = 0]
    BY <2>2 DEF LedgerBalance, BalanceOf
  <2> QED BY <1>1, <1>2, <2>1, <2>3 DEF Ledger!CloseKey
<1> QED
  BY <1>3, <1>4, <1>5

LEMMA LedgerStep ==
  ASSUME VoucherInv, SteadyInv, [Next]_vars PROVE [Ledger!LedgerNext]_(Ledger!ledgerVars)
<1> USE DEF Ledger!LedgerNext, Ledger!ledgerVars
<1>1. ASSUME NEW r \in Requests, Chain(r) \/ Throw(r)
      PROVE  [Ledger!LedgerNext]_(Ledger!ledgerVars)
  <2>1. CASE Settle(r) \/ Settled(r) \/ Apply(r) \/ Mark(r)
    BY <2>1, GrantUnseen
  <2>2. CASE Flip(r) /\ status[CardOf[r]] = "unredeemed"
    BY <2>2, FlipSpends, VoucherAssumption
  <2>3. CASE Revert(r)
    BY <2>3, RevertGivesBack, VoucherAssumption
  <2>4. CASE UNCHANGED <<cardVars, keyVars>>
    BY <2>4, OtherCallsUnseen
  <2> QED BY <1>1, <2>1, <2>2, <2>3, <2>4 DEF Chain, List, Lookup, Read, Flip, Lost, Throw
<1>2. ASSUME NEW r \in Requests, Arrive(r) \/ Reject(r) \/ Enter(r)
      PROVE  [Ledger!LedgerNext]_(Ledger!ledgerVars)
  BY <1>2, OtherCallsUnseen DEF Arrive, Reject, Enter
<1>3. CASE Crash \/ UNCHANGED vars
  BY <1>3, OtherCallsUnseen DEF Crash, vars
<1>4. ASSUME NEW c \in Cards, Create(c) \/ RevokeCard(c)
      PROVE  [Ledger!LedgerNext]_(Ledger!ledgerVars)
  BY <1>4, CardsInLedger
<1>5. ASSUME NEW k \in Keys, SetEnabled(k) \/ RevokeKey(k) \/ \E n \in Limits : EditLimit(k, n)
      PROVE  [Ledger!LedgerNext]_(Ledger!ledgerVars)
  BY <1>5, KeysInLedger
<1> QED
  BY <1>1, <1>2, <1>3, <1>4, <1>5 DEF Next

(* Redemption is the ledger's: a card raises one limit, once, in one step, *)
(* as long as no grant is computed for a key that has been disabled.       *)
THEOREM VoucherIsALedger == SteadySpec => ImplementsLedger
<1>1. Init => Ledger!LedgerInit
  BY DEF Init, Ledger!LedgerInit, LedgerOwner, LedgerBalance, Stranded
<1>2. VoucherInv /\ SteadyInv /\ [Next]_vars => [Ledger!LedgerNext]_(Ledger!ledgerVars)
  BY LedgerStep
<1>3. Init => SteadyInv
  BY DEF Init, SteadyInv
<1>4. VoucherInv /\ SteadyInv /\ [Next /\ FoundEnabled']_vars => SteadyInv'
  BY SteadyStep
<1>5. [Next /\ FoundEnabled']_vars => [Next]_vars
  OBVIOUS
<1>6. SteadySpec => Spec
  BY <1>5, PTL DEF SteadySpec, Spec
<1>7. SteadySpec => []SteadyInv
  BY <1>3, <1>4, <1>6, VoucherInvAlways, PTL DEF SteadySpec
<1> QED
  BY <1>1, <1>2, <1>6, <1>7, VoucherInvAlways, PTL DEF Spec, ImplementsLedger, Ledger!LedgerSpec
=============================================================================
