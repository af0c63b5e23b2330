SPECIFICATION AdmissionSpec
CONSTANTS
  key = key
  Requests = {r1}
  Keys = {key}
  DirectKeys = {key}
  Acqs <- MCAcqs
  KeyOf <- MCKeyOf
  LimitsOf <- MCLimitsOf
  QueueFactor = 1
  MinQueue = 1
PROPERTY NoGrantAfterDisconnect
CHECK_DEADLOCK FALSE
