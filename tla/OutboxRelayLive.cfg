SPECIFICATION FairSpec
CONSTANTS
  w1 = w1
  w2 = w2
  Workers = {w1, w2}
  Records = {1}
  MaxAttempts = 2
  BatchSize = 2
  MaxBytes = 2
  Size <- MCSizeLarge
  MaxFaults = 1
PROPERTIES
  EveryRowSettles
CHECK_DEADLOCK FALSE
