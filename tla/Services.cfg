SPECIFICATION MCSpec
CONSTANTS
    t1 = t1
    t2 = t2
    t3 = t3
    a = a
    b = b
    c1 = c1
    c2 = c2
    h1 = h1
    Js = Js
    NoTerm = NoTerm
    Thread = {t1, t2, t3}
    MaxQueueSize = 1
    Operation = {o1, o2}
    MaxOperations = 1
    Timer = {1, 2, 3}
    BufferSize = 2
    MaxRequests = 2
    MaxInputs = 2
INVARIANTS LoopUnbroken FreedUnused OperationsSound SocketSound
PROPERTIES ClosingReturns1
    StoreWaitersAnswered StoreUnpinCompletes
    WorkerAnsweredOrLost WorkerReturns
    HandlersEnd CallerAnswered
    ClearedNeverFires ExpiredFires CloseArrives
CHECK_DEADLOCK FALSE
