SPECIFICATION CallsSpec
CONSTANTS
    pay1 = pay1
    pay2 = pay2
    ann = ann
    ben = ben
    acme = acme
    apex = apex
    docA = docA
    docB = docB
    docX = docX
    nameA = nameA
    m1 = m1
    m2 = m2
    t1 = t1
    t2 = t2
    c1 = c1
    c2 = c2
    Payrolls = {pay1}
    Employees = {ann, ben}
    Employers = {acme, apex}
    EmployerOf <- MCEmployerOf
    Documents = {docA, docB, docX}
    DocumentOf <- MCDocumentOf
    Names = {nameA}
    NameOf <- MCNameOf
    Payments = {m1, m2}
    Allocations <- MCAllocations
    Txs = {t1}
    Nothing = Nothing
    Calls = {c1, c2}
    Requests <- PaidLate
    NoRequest = NoRequest
    MaxRuns <- OneRun
    Worlds <- Overlapping
    Credits = {1}
CHECK_DEADLOCK FALSE
INVARIANT ExpiredIsNotFunded
