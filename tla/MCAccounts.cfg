SPECIFICATION MCSpec
CONSTANTS
    c1 = c1
    c2 = c2
    c3 = c3
    e1 = e1
    e2 = e2
    e3 = e3
    alice = alice
    bob = bob
    mail1 = mail1
    mail2 = mail2
    mail3 = mail3
    tel1 = tel1
    tel2 = tel2
    Calls = {c1, c2, c3}
    Requests <- AnyRequest
    NoRequest = NoRequest
    Consumers = {alice, bob}
    InitialRows <- MCRows
    NoRow = NoRow
    Emails = {mail1, mail2, mail3}
    Phones = {tel1, tel2}
    Nothing = Nothing
    Worlds <- MCWorlds
    InitialEmails <- MCCardEmails
    EarlierUsers = {e1}
    InitialUsers <- MCEarlierUser
    Reliable = {c3}
    Earlier = {e1, e2, e3}
    InitialCodes <- MCCodes
    InitialTokens <- MCTokens
    InitialWallets <- MCWallets
CHECK_DEADLOCK FALSE
INVARIANTS OneAccountPerContact ShownIsAllowed ApprovalHasASource RefreshTokenOnce
     ApprovedWalletIsScreened
    OneCardEach CardholderIsOwnIfStill AskedAgainGetsItInTurn
PROPERTY OwnFieldsInTurn
