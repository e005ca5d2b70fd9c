SPECIFICATION Spec
CONSTANTS
  w1 = w1
  w2 = w2
  Workers = {w1}
  Records = {1, 2}
  MaxAttempts = 1
  BatchSize = 2
  MaxBytes = 2
  Size <- MCSize
  MaxFaults = 0
INVARIANT
  OnlyForceAbandonsRows
CHECK_DEADLOCK FALSE
