SPECIFICATION FairAdmissionSpec
CONSTANTS
  key = key
  Requests = {r1, r2}
  Keys = {key}
  DirectKeys = {key}
  Acqs <- MCAcqs
  KeyOf <- MCKeyOf
  LimitsOf <- MCLimitsOf
  QueueFactor = 1
  MinQueue = 1
INVARIANTS
  AdmissionTypeOK
  SlotAccounting
  QueueAccounting
  NoStrandedWaiter
  WorkConserving
  HeldSlotsBound
CHECK_DEADLOCK FALSE
PROPERTIES
  GrantsInOrder
  RoutedSlotReturned
