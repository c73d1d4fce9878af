SPECIFICATION MCSpec
CONSTANTS
    c1 = c1
    c2 = c2
    c3 = c3
    e1 = e1
    e2 = e2
    acme = acme
    ana = ana
    luis = luis
    mail1 = mail1
    mail2 = mail2
    mail3 = mail3
    mail4 = mail4
    root = root
    boss = boss
    clerk = clerk
    phone1 = phone1
    daily = daily
    once = once
    Calls = {c1, c2, c3}
    Requests <- AnyRequest
    NoRequest = NoRequest
    Consumers = {ana, luis}
    WithEmail = {ana}
    Devices = {phone1}
    InitialTokens <- MCTokens
    Schedules = {daily, once}
    Interval <- MCInterval
    MaxTime = 1
    Nothing = Nothing
    Employees = {e1, e2}
    InitialEmployees <- MCEmployees
    Employers = {acme}
    InitialPercents <- MCPercents
    Emails = {mail1, mail2, mail3, mail4}
    Worlds <- MCWorlds
    Admins = {root, boss, clerk}
    InitialAdmins <- MCAdmins
    Tasks <- MCAdminRequests
    Profiles <- MCProfiles
    MaxSeeds = 2
    NoRow = NoRow
INVARIANTS
    NeverMoreThanAsked
    AllocationFitsInTurn
    OncePerConsumerInTurn
    SomeAdminRemainsInTurn
    NoticesArrive
    MessagesAreComplete
PROPERTY PowersAreGiven
CHECK_DEADLOCK FALSE
