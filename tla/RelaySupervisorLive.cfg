SPECIFICATION FairSpec
CONSTANTS
  w1 = w1
  w2 = w2
  Workers = {w1}

PROPERTIES
  FailureIsObserved
  StopCompletes
CHECK_DEADLOCK FALSE
