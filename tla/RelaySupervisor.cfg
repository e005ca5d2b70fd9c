SPECIFICATION Spec
CONSTANTS
  w1 = w1
  w2 = w2
  Workers = {w1, w2}
SYMMETRY WorkerSymmetry
INVARIANTS
  TypeOK
  NoWorkerOutlivesDrain
  DegradedCountMatches
PROPERTIES
  FinalStateSticks
CHECK_DEADLOCK FALSE
