SPECIFICATION FairSpec
CONSTANTS
  kimi = kimi
  mimo = mimo
  r1 = r1
  r2 = r2
  NoModel = NoModel
  Requests = {r1, r2}
  Models = {kimi, mimo}
  PrimaryOf <- MCPrimaryOf
  FallbacksOf <- MCFallbacksOf
  ServedAs <- MCServedAs
  Threshold = 3
  MaxProbes = 3
  MaxAttempts = 3
PROPERTY ProbationEnds
