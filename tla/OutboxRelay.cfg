SPECIFICATION Spec
CONSTANTS
  w1 = w1
  w2 = w2
  Workers = {w1, w2}
  Records = {1, 2}
  MaxAttempts = 2
  BatchSize = 2
  MaxBytes = 1
  Size <- MCSizeLarge
  MaxFaults = 2
SYMMETRY WorkerSymmetry
INVARIANTS
  EachCopyHasItsAttempt
  DuplicatesAccounted
PROPERTIES
  OnlyTheOwnerMarks
  ImplementsAtLeastOnce
CHECK_DEADLOCK FALSE
