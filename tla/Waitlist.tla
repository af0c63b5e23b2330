------------------------------ MODULE Waitlist ------------------------------
(***************************************************************************)
(* The arrays of waiters the outbound API server's queues are made of.     *)
(***************************************************************************)
EXTENDS Integers, Sequences

Queued(s, a) == \E i \in DOMAIN s : s[i] = a

Distinct(s) == \A i, j \in DOMAIN s : s[i] = s[j] => i = j

\* splice(indexOf(a), 1): the queue s without a, which it holds once.
Without(s, a) ==
  LET i == CHOOSE j \in DOMAIN s : s[j] = a
  IN  SubSeq(s, 1, i - 1) \o SubSeq(s, i + 1, Len(s))
=============================================================================
