SPECIFICATION Spec
CONSTANTS
    Ids = {a}
    r1 = r1
    r2 = r2
    Resolvers = {r1, r2}
    LifeOf <- MCLifeOf
    MaxGens = 1
    None = None
INVARIANTS TypeOK OwnedExactlyOnce IdIsReservedUntilQuiet RootDisposalIsLast ReturnMeansQuiet
CHECK_DEADLOCK FALSE
