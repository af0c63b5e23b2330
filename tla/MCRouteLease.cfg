SPECIFICATION FairLeaseSpec
CONSTANTS
  c1 = c1
  c2 = c2
  c3 = c3
  c4 = c4
  x1 = x1
  x2 = x2
  None = None
  Calls = {c1, c2, c3, c4}
  Keys = {x1, x2}
  KeyOf <- MCKeyOf
  PayloadOf <- MCPayloadOf
  TtlOf <- MCTtlOf
  Renewals = {1}
  MaxRenewals = 1
INVARIANTS
  LeaseTypeOK
  RoutesAreLeases
  IdempotencyExact
PROPERTIES
  ImplementsRegistry
  EveryLeaseEnds
  EveryRetryAnswered
\* the calls are used up and every lease has ended
CHECK_DEADLOCK FALSE
