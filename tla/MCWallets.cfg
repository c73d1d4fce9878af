SPECIFICATION MCSpec
CONSTANTS
    alice = alice
    bob = bob
    master = master
    nobody = nobody
    i1 = i1
    i2 = i2
    i3 = i3
    i4 = i4
    i5 = i5
    i6 = i6
    p1 = p1
    p2 = p2
    p3 = p3
    p4 = p4
    p5 = p5
    n1 = n1
    n2 = n2
    n3 = n3
    n4 = n4
    n5 = n5
    Consumers = {alice, bob}
    Master = master
    Nobody = nobody
    Keys = {n1, n2, n3, n4, n5}
    NoTransfer = NoTransfer
    InitialBalance <- MCInitialBalance
    Calls = {n1, n2, n3, n4, n5}
    Requests <- MCRequests
    NoRequest = NoRequest
    NotCached = NotCached
    LinkedAtStart = {alice}
    Worlds <- MCWorlds
    Webhooks <- EveryWebhook
    Idems = {i1, i2, i3, i4, i5, i6}
    PomeloIDs = {p1, p2, p3, p4, p5}
    NoWebhook = NoWebhook
    NoRow = NoRow
CHECK_DEADLOCK FALSE
INVARIANTS CheckedFailureIsFinal SuccessIsMovedOrProbed FirstRefusalMovedNothing
    HandedOutWalletIsLinked CacheExact OneDebitPerPurchase DecisionsMatchTheMoney
PROPERTIES LinkingSettles DecidedIsDoneInTurn EveryDeliveryInTurnEnds
