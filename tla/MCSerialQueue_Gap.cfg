SPECIFICATION SerialSpec
CONSTANTS
  Calls = {c1, c2, c3, c4}
  Delays = {2}
  LongAgo = 2
PROPERTY Spaced
