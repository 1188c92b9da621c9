SPECIFICATION Spec
CONSTANTS
    k1 = k1
    k2 = k2
    k3 = k3
    c1 = c1
    c2 = c2
    m1 = m1
    m2 = m2
    r1 = r1
    r2 = r2
    Key = {k1, k2, k3}
    Client = {c1, c2}
    Module = {m1, m2}
    Ref = {r1, r2}
    NoKey = NoKey
    OldCode = OldCode
    MaxSkips = 0
    MaxGeneration = 2
    MaxCrashes = 1
INVARIANTS BooksExact DrainedIsIdle RunsLeasedCode
CHECK_DEADLOCK FALSE
SYMMETRY Symmetry
