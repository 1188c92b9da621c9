SPECIFICATION Spec
CONSTANTS
    Promise = {p1, p2}
    MaxDepth = 1
    MaxOperations = 1
    MaxCalls = 2
INVARIANTS ResolversIdempotent
CHECK_DEADLOCK FALSE
