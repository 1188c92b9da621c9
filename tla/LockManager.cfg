SPECIFICATION FairSpec
CONSTANTS
    r1 = r1
    r2 = r2
    s1 = s1
    s2 = s2
    s3 = s3
    Name = {"a", "b"}
    Runtime = {r1, r2}
    Session = {s1, s2, s3}
    Owner <- TwoAndOne
    Mode = {"shared", "exclusive"}
    Resettable = {r1}
INVARIANTS QueueExact
PROPERTIES NoExclusiveOvertake ImplementsLockTable DeadHolderCleaned WaitersAnswered
CHECK_DEADLOCK FALSE
