SPECIFICATION FairSpec
CONSTANTS
    x1 = x1
    x2 = x2
    c1 = c1
    c2 = c2
    None = None
    Context = {x1, x2}
    Caller = {c1}
    Kind = {"eval"}
    Outcome = {"answer"}
    MayStop = FALSE
    MaxCalls = 0
    MaxRequests = 1
    MaxTimeouts = 0
    MaxFaults = 1
PROPERTIES EndedFreed
CHECK_DEADLOCK FALSE
