--------------------------- MODULE WaitlistProofs ---------------------------
(***************************************************************************)
(* What taking a waiter out of a queue leaves, for queues of any length,   *)
(* and the first of some places.                                           *)
(***************************************************************************)
EXTENDS Waitlist, SequenceTheorems, FiniteSetTheorems, TLAPS

\* What splice(p, 1) leaves: the elements before the one and those after it.
LEMMA SpliceElements ==
  ASSUME NEW S, NEW s \in Seq(S), NEW p \in 1 .. Len(s)
  PROVE  LET t == SubSeq(s, 1, p - 1) \o SubSeq(s, p + 1, Len(s)) IN
         /\ t \in Seq(S)
         /\ Len(t) = Len(s) - 1
         /\ \A i \in 1 .. Len(s) - 1 : t[i] = IF i < p THEN s[i] ELSE s[i + 1]
<1> DEFINE left == SubSeq(s, 1, p - 1)
           right == SubSeq(s, p + 1, Len(s))
<1>1. DOMAIN s = 1 .. Len(s) /\ Len(s) \in Nat /\ \A i \in 1 .. Len(s) : s[i] \in S
  BY LenProperties, ElementOfSeq
<1>2. /\ left \in Seq(S) /\ Len(left) = p - 1
      /\ \A i \in 1 .. p - 1 : left[i] = s[i]
  <2>1. \A i \in 1 .. p - 1 : s[i] \in S
    BY <1>1
  <2> HIDE DEF left
  <2> QED
    BY <1>1, <2>1, SubSeqProperties, Z3T(20) DEF left
<1>3. /\ right \in Seq(S) /\ Len(right) = Len(s) - p
      /\ \A i \in 1 .. Len(s) - p : right[i] = s[p + i]
  <2>1. \A i \in p + 1 .. Len(s) : s[i] \in S
    BY <1>1
  <2>2. /\ right \in Seq(S)
        /\ Len(right) = IF p + 1 <= Len(s) THEN Len(s) - (p + 1) + 1 ELSE 0
        /\ \A i \in 1 .. Len(s) - (p + 1) + 1 : right[i] = s[(p + 1) + i - 1]
    BY <1>1, <2>1, SubSeqProperties
  <2> HIDE DEF right
  <2>3. \A i \in 1 .. Len(s) - p : right[i] = s[p + i]
    <3> TAKE i \in 1 .. Len(s) - p
    <3>1. i \in 1 .. Len(s) - (p + 1) + 1 /\ (p + 1) + i - 1 = p + i
      BY <1>1
    <3> QED BY <3>1, <2>2
  <2>4. Len(right) = Len(s) - p
    <3>1. Len(right) = IF p + 1 <= Len(s) THEN Len(s) - (p + 1) + 1 ELSE 0
      BY <2>2
    <3>2. Len(s) \in Nat
      BY <1>1
    <3> QED BY <3>1, <3>2
  <2> QED
    BY <2>2, <2>3, <2>4
<1> HIDE DEF left, right
<1>4. /\ left \o right \in Seq(S)
      /\ Len(left \o right) = Len(left) + Len(right)
      /\ \A i \in 1 .. Len(left) + Len(right) :
           (left \o right)[i] = IF i <= Len(left) THEN left[i] ELSE right[i - Len(left)]
  BY <1>2, <1>3, ConcatProperties
<1>5. ASSUME NEW i \in 1 .. Len(s) - 1
      PROVE  (left \o right)[i] = IF i < p THEN s[i] ELSE s[i + 1]
  <2>1. CASE i < p
    BY <1>1, <1>2, <1>3, <1>4, <2>1
  <2>2. CASE ~(i < p)
    <3>1. i - (p - 1) \in 1 .. Len(s) - p /\ p + (i - (p - 1)) = i + 1
      BY <1>1, <2>2
    <3>2. (left \o right)[i] = right[i - (p - 1)]
      BY <1>1, <1>2, <1>3, <1>4, <2>2
    <3> QED BY <3>1, <3>2, <1>3, <2>2
  <2> QED BY <2>1, <2>2
<1>6. Len(left \o right) = Len(s) - 1
  BY <1>1, <1>2, <1>3, <1>4
<1> QED
  BY <1>4, <1>5, <1>6 DEF left, right

\* What is left of the queue when an element it holds once is taken out.
LEMMA WithoutElements ==
  ASSUME NEW S, NEW s \in Seq(S), NEW p \in 1 .. Len(s),
         \A i, j \in DOMAIN s : s[i] = s[j] => i = j
  PROVE  /\ Without(s, s[p]) \in Seq(S)
         /\ Len(Without(s, s[p])) = Len(s) - 1
         /\ \A i \in 1 .. Len(s) - 1 :
              Without(s, s[p])[i] = IF i < p THEN s[i] ELSE s[i + 1]
<1>1. DOMAIN s = 1 .. Len(s)
  BY LenProperties
<1>2. (CHOOSE j \in DOMAIN s : s[j] = s[p]) = p
  BY <1>1
<1>3. Without(s, s[p]) = SubSeq(s, 1, p - 1) \o SubSeq(s, p + 1, Len(s))
  BY <1>2 DEF Without
<1> DEFINE t == SubSeq(s, 1, p - 1) \o SubSeq(s, p + 1, Len(s))
<1>4. /\ t \in Seq(S)
      /\ Len(t) = Len(s) - 1
      /\ \A i \in 1 .. Len(s) - 1 : t[i] = IF i < p THEN s[i] ELSE s[i + 1]
  BY SpliceElements
<1>5. Without(s, s[p]) = t
  BY <1>3
<1> HIDE DEF t
<1> QED
  BY <1>4, <1>5

\* ... which is the other elements, each once.
LEMMA WithoutMembers ==
  ASSUME NEW S, NEW s \in Seq(S), NEW p \in 1 .. Len(s),
         \A i, j \in DOMAIN s : s[i] = s[j] => i = j
  PROVE  /\ \A i, j \in DOMAIN Without(s, s[p]) :
              Without(s, s[p])[i] = Without(s, s[p])[j] => i = j
         /\ \A b : (\E i \in DOMAIN Without(s, s[p]) : Without(s, s[p])[i] = b)
                     <=> (b # s[p] /\ \E i \in DOMAIN s : s[i] = b)
<1> DEFINE t == Without(s, s[p])
           At(i) == IF i < p THEN i ELSE i + 1
<1>1. DOMAIN s = 1 .. Len(s) /\ Len(s) \in Nat
  BY LenProperties
<1>2. /\ t \in Seq(S) /\ Len(t) = Len(s) - 1
      /\ \A i \in 1 .. Len(s) - 1 : t[i] = IF i < p THEN s[i] ELSE s[i + 1]
  BY WithoutElements
<1> HIDE DEF t
<1>3. DOMAIN t = 1 .. Len(s) - 1
  BY <1>2, LenProperties
<1>4. ASSUME NEW i \in DOMAIN t PROVE At(i) \in DOMAIN s /\ At(i) # p /\ t[i] = s[At(i)]
  <2>1. CASE i < p
    BY <1>1, <1>2, <1>3, <2>1
  <2>2. CASE ~(i < p)
    BY <1>1, <1>2, <1>3, <2>2
  <2> QED BY <2>1, <2>2
<1>5. ASSUME NEW i \in DOMAIN t, NEW j \in DOMAIN t, t[i] = t[j] PROVE i = j
  <2>1. At(i) = At(j)
    BY <1>4, <1>5
  <2> QED BY <1>1, <1>3, <2>1
<1>6. ASSUME NEW b, NEW i \in DOMAIN t, t[i] = b
      PROVE  b # s[p] /\ \E j \in DOMAIN s : s[j] = b
  BY <1>1, <1>4, <1>6
<1>7. ASSUME NEW b, b # s[p], NEW j \in DOMAIN s, s[j] = b
      PROVE  \E i \in DOMAIN t : t[i] = b
  <2>1. CASE j < p
    <3>1. j \in DOMAIN t /\ At(j) = j
      BY <1>1, <1>3, <2>1
    <3> QED BY <1>4, <1>7, <3>1
  <2>2. CASE j > p
    <3>1. j - 1 \in DOMAIN t /\ At(j - 1) = j
      BY <1>1, <1>3, <2>2
    <3> QED BY <1>4, <1>7, <3>1
  <2>3. j # p
    BY <1>7
  <2> QED BY <1>1, <2>1, <2>2, <2>3
<1>8. \A b : (\E i \in DOMAIN t : t[i] = b) <=> (b # s[p] /\ \E i \in DOMAIN s : s[i] = b)
  BY <1>6, <1>7
<1> QED
  BY <1>5, <1>8 DEF t

\* The same two facts of a queue and a waiter it holds.
LEMMA WithoutQueued ==
  ASSUME NEW S, NEW s \in Seq(S), Distinct(s), NEW a, Queued(s, a)
  PROVE  /\ Without(s, a) \in Seq(S)
         /\ Distinct(Without(s, a))
         /\ \A b : Queued(Without(s, a), b) <=> b # a /\ Queued(s, b)
<1>1. PICK p \in 1 .. Len(s) : s[p] = a
  BY LenProperties DEF Queued
<1>2. \A i, j \in DOMAIN s : s[i] = s[j] => i = j
  BY DEF Distinct
<1>3. Without(s, s[p]) \in Seq(S)
  BY <1>2, WithoutElements
<1>4. /\ \A i, j \in DOMAIN Without(s, s[p]) :
           Without(s, s[p])[i] = Without(s, s[p])[j] => i = j
      /\ \A b : (\E i \in DOMAIN Without(s, s[p]) : Without(s, s[p])[i] = b)
                  <=> (b # s[p] /\ \E i \in DOMAIN s : s[i] = b)
  BY <1>2, WithoutMembers
<1> QED
  BY <1>1, <1>3, <1>4 DEF Distinct, Queued

\* ... and the type of what is left when the queue may hold a twice.
LEMMA WithoutType ==
  ASSUME NEW S, NEW s \in Seq(S), NEW a, Queued(s, a)
  PROVE  Without(s, a) \in Seq(S)
<1> DEFINE p == CHOOSE j \in DOMAIN s : s[j] = a
<1>1. DOMAIN s = 1 .. Len(s)
  BY LenProperties
<1>2. p \in 1 .. Len(s)
  BY <1>1 DEF Queued
<1> HIDE DEF p
<1> QED
  BY <1>2, SpliceElements DEF Without, p

\* An element that stays is one of what is left, however often both are held.
LEMMA WithoutKeeps ==
  ASSUME NEW S, NEW s \in Seq(S), NEW a, Queued(s, a), NEW b, b # a, Queued(s, b)
  PROVE  Queued(Without(s, a), b)
<1> DEFINE p == CHOOSE j \in DOMAIN s : s[j] = a
           t == SubSeq(s, 1, p - 1) \o SubSeq(s, p + 1, Len(s))
<1>1. DOMAIN s = 1 .. Len(s) /\ Len(s) \in Nat
  BY LenProperties
<1>2. p \in 1 .. Len(s) /\ s[p] = a
  BY <1>1 DEF Queued
<1>3. PICK i \in 1 .. Len(s) : s[i] = b
  BY <1>1 DEF Queued
<1>4. Without(s, a) = t
  BY DEF Without
<1> HIDE DEF p
<1>5. t \in Seq(S) /\ Len(t) = Len(s) - 1
      /\ \A j \in 1 .. Len(s) - 1 : t[j] = IF j < p THEN s[j] ELSE s[j + 1]
  BY <1>2, SpliceElements
<1> HIDE DEF t
<1>6. DOMAIN t = 1 .. Len(s) - 1
  BY <1>5, LenProperties
<1>7. CASE i < p
  <2>1. i \in 1 .. Len(s) - 1
    BY <1>1, <1>2, <1>7
  <2> QED
    BY <1>3, <1>4, <1>5, <1>6, <1>7, <2>1 DEF Queued
<1>8. CASE i > p
  <2>1. i - 1 \in 1 .. Len(s) - 1 /\ ~(i - 1 < p) /\ (i - 1) + 1 = i
    BY <1>1, <1>2, <1>8
  <2> QED
    BY <1>3, <1>4, <1>5, <1>6, <2>1 DEF Queued
<1> QED
  BY <1>2, <1>3, <1>7, <1>8

\* shift(): what leaves the queue with its head.
LEMMA TailQueued ==
  ASSUME NEW S, NEW s \in Seq(S), s # << >>, Distinct(s)
  PROVE  /\ Head(s) \in S
         /\ Queued(s, Head(s))
         /\ Tail(s) \in Seq(S)
         /\ Distinct(Tail(s))
         /\ \A b : Queued(Tail(s), b) <=> b # Head(s) /\ Queued(s, b)
<1> DEFINE t == Tail(s)
<1>1. /\ Len(s) \in Nat /\ Len(s) >= 1 /\ DOMAIN s = 1 .. Len(s)
      /\ Head(s) = s[1] /\ s[1] \in S
  BY LenProperties, EmptySeq, ElementOfSeq, HeadTailProperties
<1>2. /\ t \in Seq(S) /\ Len(t) = Len(s) - 1
      /\ \A i \in 1 .. Len(t) : t[i] = s[i + 1]
  BY HeadTailProperties
<1> HIDE DEF t
<1>3. DOMAIN t = 1 .. Len(s) - 1
  BY <1>2, LenProperties
<1>4. Distinct(t)
  <2> SUFFICES ASSUME NEW i \in DOMAIN t, NEW j \in DOMAIN t, t[i] = t[j] PROVE i = j
    BY DEF Distinct
  <2>1. s[i + 1] = s[j + 1] /\ i + 1 \in DOMAIN s /\ j + 1 \in DOMAIN s
    BY <1>1, <1>2, <1>3
  <2>2. i + 1 = j + 1
    BY <2>1 DEF Distinct
  <2> QED BY <1>3, <2>2
<1>5. ASSUME NEW b, Queued(t, b) PROVE b # Head(s) /\ Queued(s, b)
  <2>1. PICK i \in DOMAIN t : t[i] = b
    BY <1>5 DEF Queued
  <2>2. s[i + 1] = b /\ i + 1 \in DOMAIN s /\ i + 1 # 1 /\ 1 \in DOMAIN s
    BY <1>1, <1>2, <1>3, <2>1
  <2> QED BY <1>1, <2>2 DEF Distinct, Queued
<1>6. ASSUME NEW b, b # Head(s), Queued(s, b) PROVE Queued(t, b)
  <2>1. PICK i \in DOMAIN s : s[i] = b
    BY <1>6 DEF Queued
  <2>2. i - 1 \in DOMAIN t /\ t[i - 1] = s[(i - 1) + 1] /\ (i - 1) + 1 = i
    BY <1>1, <1>2, <1>3, <1>6, <2>1
  <2> QED BY <2>1, <2>2 DEF Queued
<1>7. Queued(s, Head(s))
  <2>1. 1 \in DOMAIN s
    BY <1>1
  <2> QED BY <1>1, <2>1 DEF Queued
<1>8. \A b : Queued(t, b) <=> b # Head(s) /\ Queued(s, b)
  BY <1>5, <1>6
<1> QED
  BY <1>1, <1>2, <1>4, <1>7, <1>8 DEF t

\* push(): what a newcomer adds.
LEMMA AppendQueued ==
  ASSUME NEW S, NEW s \in Seq(S), Distinct(s), NEW a \in S, ~Queued(s, a)
  PROVE  /\ Append(s, a) \in Seq(S)
         /\ Append(s, a) # << >>
         /\ Distinct(Append(s, a))
         /\ Head(Append(s, a)) = IF s = << >> THEN a ELSE Head(s)
         /\ \A b : Queued(Append(s, a), b) <=> b = a \/ Queued(s, b)
<1> DEFINE t == Append(s, a)
<1>1. Len(s) \in Nat /\ DOMAIN s = 1 .. Len(s)
  BY LenProperties
<1>2. /\ t \in Seq(S) /\ Len(t) = Len(s) + 1
      /\ \A i \in 1 .. Len(s) : t[i] = s[i]
      /\ t[Len(s) + 1] = a
  BY AppendProperties
<1> HIDE DEF t
<1>3. DOMAIN t = 1 .. Len(s) + 1 /\ t # << >>
  BY <1>1, <1>2, LenProperties, EmptySeq
<1>4. Distinct(t)
  <2> SUFFICES ASSUME NEW i \in DOMAIN t, NEW j \in DOMAIN t, t[i] = t[j] PROVE i = j
    BY DEF Distinct
  <2> QED BY <1>1, <1>2, <1>3 DEF Distinct, Queued
<1>5. \A b : Queued(t, b) <=> b = a \/ Queued(s, b)
  BY <1>1, <1>2, <1>3 DEF Queued
<1>6. Head(t) = IF s = << >> THEN a ELSE Head(s)
  <2>1. Head(t) = t[1]
    BY <1>2, <1>3, HeadTailProperties
  <2>2. CASE s = << >>
    BY <1>2, <2>1, <2>2, EmptySeq
  <2>3. CASE s # << >>
    <3>1. Len(s) >= 1 /\ Head(s) = s[1]
      BY <1>1, <2>3, EmptySeq, HeadTailProperties
    <3> QED BY <1>1, <1>2, <2>1, <2>3, <3>1
  <2> QED BY <2>2, <2>3
<1> QED
  BY <1>2, <1>3, <1>4, <1>5, <1>6 DEF t

-----------------------------------------------------------------------------
(* A set of natural numbers that is not empty has a least element.         *)
LEMMA LeastNatural ==
  ASSUME NEW T, T \subseteq Nat, T # {}
  PROVE  \E m \in T : \A k \in T : m <= k
<1> DEFINE Below(n) == {j \in T : j <= n}
           F == {Below(n) : n \in T}
<1>1. \A n \in T : IsFiniteSet(Below(n)) /\ Below(n) \subseteq Nat
  <2> SUFFICES ASSUME NEW n \in T PROVE IsFiniteSet(Below(n)) /\ Below(n) \subseteq Nat
    OBVIOUS
  <2>1. Below(n) \in SUBSET Nat /\ n \in Nat /\ \A j \in Below(n) : j <= n
    OBVIOUS
  <2> HIDE DEF Below
  <2> QED BY <2>1, FS_BoundedSetOfNaturals
<1>2. F \subseteq FiniteSubsetsOf(Nat) /\ F # {}
  BY <1>1 DEF FiniteSubsetsOf
<1>3. \E U \in F : \A V \in F : ~ (<<V, U>> \in StrictSubsetOrdering(Nat))
  <2> HIDE DEF F
  <2> QED BY <1>2, FS_StrictSubsetOrderingWellFounded, WFMin, Zenon
<1>4. PICK m \in T : \A V \in F : ~ (<<V, Below(m)>> \in StrictSubsetOrdering(Nat))
  BY <1>3
<1>5. ASSUME NEW k \in T, k < m PROVE FALSE
  <2>1. k \in Nat /\ m \in Nat
    OBVIOUS
  <2>2. m \in Below(m) /\ m \notin Below(k)
    BY <1>5, <2>1
  <2>3. \A j \in T : j <= k => j <= m
    BY <1>5, <2>1
  <2>4. Below(k) \subseteq Below(m) /\ Below(k) # Below(m)
    BY <2>2, <2>3
  <2>5. Below(k) \in F /\ <<Below(k), Below(m)>> \in (SUBSET Nat) \X (SUBSET Nat)
    BY <1>1
  <2> HIDE DEF Below, F
  <2> QED BY <1>4, <2>4, <2>5 DEF StrictSubsetOrdering
<1> QED BY <1>5
=============================================================================
