SPECIFICATION FairSpec
CONSTANTS
    Callers = {c1}
    Listener = listener
    Publishers = {p1}
    Workers = {w1}
    OsSignals = {"Terminate", "Quit"}
    None = None
INVARIANTS
    ShutdownWins
    DrainedStaysQuiet
PROPERTIES
    InitiationReachesWaiter
    SecondSignalForces
CHECK_DEADLOCK FALSE
