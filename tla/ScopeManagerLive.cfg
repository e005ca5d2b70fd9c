SPECIFICATION FairSpec
CONSTANTS
    Ids = {a}
    r1 = r1
    r2 = r2
    Resolvers = {r2}
    LifeOf <- MCLifeOf
    MaxGens = 1
    None = None
PROPERTIES ShutdownReturns ClaimedCleanupEnds
CHECK_DEADLOCK FALSE
