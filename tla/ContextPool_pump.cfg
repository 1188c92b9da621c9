SPECIFICATION FairSpec
CONSTANTS
    x1 = x1
    x2 = x2
    c1 = c1
    c2 = c2
    None = None
    Context = {x1, x2}
    Caller = {c1, c2}
    Kind = {"eval", "reset", "global"}
    Outcome = {"answer", "exit"}
    MayStop = TRUE
    MaxCalls = 2
    MaxRequests = 2
    MaxTimeouts = 1
    MaxFaults = 1
INVARIANTS PumpSound
PROPERTIES RequestsAnswered StoppedFreed PoolStops
CHECK_DEADLOCK FALSE
