SPECIFICATION MCSpec
CONSTANTS
    c1 = c1
    c2 = c2
    c3 = c3
    c4 = c4
    r1 = r1
    r2 = r2
    Calls = {c1, c2}
    Requests <- TwoFlows
    NoRequest = NoRequest
    Nobody = Nobody
    Faulty = TRUE
    Refreshes = {r1, r2}
    Provider <- MCProvider
    Entered <- MCEntered
    Scale = 100
    MaxRows <- MCMaxRows
    Amounts <- MCAmounts
    FeePercent = 3
    FeeFixed = 7
    FeeNoba = 2
    MonoFee = 1241
    NobaFee = 3
    Askers = {c1}
    Consumers <- MCConsumers
    Tags <- MCTags
    Folded <- MCFolded
    FirstTags <- MCFirstTags
    Wanted <- MCWanted
    NotAsked = NotAsked
    NoRow = NoRow
CHECK_DEADLOCK FALSE
INVARIANT RunsAreScreened
