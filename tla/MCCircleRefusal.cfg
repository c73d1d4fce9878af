SPECIFICATION Spec
CONSTANTS
    alice = alice
    master = master
    k1 = k1
    c1 = c1
    c2 = c2
    Consumers = {alice}
    Master = master
    Keys = {k1}
    NoTransfer = NoTransfer
    InitialBalance <- MCInitialBalance
    Calls = {c1, c2}
    Requests <- Checked
    NoRequest = NoRequest
    NotCached = NotCached
    LinkedAtStart = {alice}
    Worlds <- OneWorld
CHECK_DEADLOCK FALSE
INVARIANT RefusalMeansNotMoved
