SPECIFICATION Spec
CONSTANTS
    r1 = r1
    r2 = r2
    s1 = s1
    s2 = s2
    s3 = s3
    Name = {"a"}
    Runtime = {r1, r2}
    Session = {s1, s2, s3}
    Owner <- TwoAndOne
    Mode = {"shared", "exclusive"}
    Resettable = {}
INVARIANTS CallbackExclusion
CHECK_DEADLOCK FALSE
