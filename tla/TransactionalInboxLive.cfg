SPECIFICATION FairSpec
CONSTANTS
    Executions = {e1, e2}
    Keys = {k1}
    LockOf <- Colliding
    MaxCrashes = 0
CHECK_DEADLOCK FALSE
PROPERTIES ForceEndsDrain
