SPECIFICATION FairSerialSpec
CONSTANTS
  Calls = {c1, c2, c3, c4}
  Delays = {1, 2}
  LongAgo = 2
INVARIANTS
  SerialTypeOK
  OneInFlight
  NoLostWakeup
PROPERTIES
  SpacedWithoutTimeouts
  ImplementsFifoLock
  EveryoneServed
