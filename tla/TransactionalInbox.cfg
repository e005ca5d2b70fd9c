SPECIFICATION Spec
CONSTANTS
  Executions = {e1, e2}
  Keys = {k1, k2}
  LockOf <- Colliding
  MaxCrashes = 1
SYMMETRY ExecutionSymmetry
INVARIANTS
  ExactlyOnceWhileRetained
  OkMeansApplied
  DrainedMeansFinalized
CHECK_DEADLOCK FALSE
