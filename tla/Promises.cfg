SPECIFICATION Spec
CONSTANTS
    Promise = {p1, p2, p3}
    MaxDepth = 1
    MaxOperations = 1
    MaxCalls = 1
SYMMETRY Symmetry
INVARIANTS SettledByOne NoStrandedWaiter AggregateExact
PROPERTIES SettledForever
CHECK_DEADLOCK FALSE
