SPECIFICATION FairRuntimeSpec
CONSTANTS
  ann = ann
  bob = bob
  x = x
  y = y
  a1 = a1
  a2 = a2
  b1 = b1
  b2 = b2
  g1 = g1
  g2 = g2
  First = g1
  NoGen = NoGen
  Schedulers = {g1, g2}
  Accounts = {x, y}
  Tenants = {ann, bob}
  Jobs = {a1, a2, b1, b2}
  TenantOf <- MCTenantOf
  AccountsOf <- MCAccountsOf
  MaxActive <- MCMaxActive
  MaxQueued <- MCMaxQueued
INVARIANTS
  ImageTypeOK
  WaitingCounted
  QueuesExact
  RotationExact
  FullWhileWaiting
  CurrentAlive
  NoJobCutOff
PROPERTIES
  TurnsKept
  GenerationsEnd
  WaitersServed
CHECK_DEADLOCK FALSE
