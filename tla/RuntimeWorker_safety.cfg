SPECIFICATION Spec
CONSTANTS
    c1 = c1
    c2 = c2
    h1 = h1
    Js = Js
    Caller = {c1, c2}
    Host = {h1}
    HostBase = 3
    Awaits = TRUE
    Kind = {"eval", "reset", "global"}
    Outcome = {"answer", "exit"}
    MayStop = TRUE
    MaxCalls = 2
    MaxResets = 1
SYMMETRY Symmetry
INVARIANTS AnsweredOnce SlotsExact ResolvesOwnContext
PROPERTIES LostOnlyInAwait
CHECK_DEADLOCK FALSE
