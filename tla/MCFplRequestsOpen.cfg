CONSTANTS
  Call = {c1, c2, c3}
  Threshold = 2
  ResetTimeout = 2
  MaxAttempts = 2
  Capacity = 2
SPECIFICATION LiveSpec
INVARIANT StaysOpen
