SPECIFICATION FairSpec
CONSTANTS
    c1 = c1
    c2 = c2
    h1 = h1
    Js = Js
    Caller = {c1, c2}
    Host = {}
    HostBase = 2
    Awaits = TRUE
    Kind = {"eval", "global"}
    Outcome = {"answer"}
    MayStop = FALSE
    MaxCalls = 1
    MaxResets = 0
PROPERTIES CallersAnswered
CHECK_DEADLOCK FALSE
