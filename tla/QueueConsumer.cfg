SPECIFICATION FairSpec
CONSTANTS
  MessageCount = 1
  MaxCopies = 2
  RetryAttempts = 1
  Concurrency = 2
  BufferCapacity = 1
  MaxFaults = 1
  MaxGenerations = 2
INVARIANTS
  TypeOK
  NoMessageLost
  OneFramePerDelivery
  PendingIsRedelivered
  ReconciledMeansQuiet
PROPERTIES
  GenerationsAreDisjoint
  ForceEndsDrain
  FailureEndsRuntime
CHECK_DEADLOCK FALSE
