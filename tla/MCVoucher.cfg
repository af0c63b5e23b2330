SPECIFICATION SteadySpec
CONSTANTS
  k1 = k1
  k2 = k2
  c1 = c1
  c2 = c2
  r1 = r1
  r2 = r2
  r3 = r3
  NoKey = NoKey
  Gone = Gone
  Keys = {k1, k2}
  Cards = {c1, c2}
  Requests = {r1, r2, r3}
  KeyOf <- MCKeyOf
  CardOf <- MCCardOf
  Credit <- MCCredit
  Cap <- MCCap
  Limits = {5}
  MaxChanges = 2
INVARIANTS
  VoucherTypeOK
  MutexHeld
  OneUnsettled
  SuccessIsDurable
PROPERTIES
  NextOneRepairs
  ImplementsLedger
