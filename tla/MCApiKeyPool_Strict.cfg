CONSTANTS
  k1 = k1
  k2 = k2
  k3 = k3
  r1 = r1
  r2 = r2
  r3 = r3
  s1 = s1
  s2 = s2
  NoKey = NoKey
  NoList = NoList
  Keys = {k1, k2, k3}
  Requests = {r3}
  PolicyOf <- StrictPolicy
  Sessions = {s1, s2}
  Revoked = {k1}
  Edited = {k2}
  Place <- MCPlace
  WeightOf <- MCWeightOf
  SessionOf <- MCSessionOf
  PinOf <- MCPinOf
SPECIFICATION PoolSpec
INVARIANT StrictKept
