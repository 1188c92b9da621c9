SPECIFICATION Spec
CONSTANTS
    a = a
    b = b
    d = d
    c1 = c1
    c2 = c2
    Key = {a, b, d}
    Client = {c1, c2}
    Capacity = 2
    Size <- Sizes
    Budget = 3
    NoTerm = NoTerm
    MaxCrashes = 2
INVARIANTS ProgramsPersist BooksExact
PROPERTIES NoImplicitEviction
CHECK_DEADLOCK FALSE
SYMMETRY Symmetry
