------------------------------ MODULE Workforce ------------------------------
(***************************************************************************)
(* The Employee rows: EmployeeService with what ConsumerService,           *)
(* EmployerService and BubbleService ask of it.  Employers invite by       *)
(* email, consumers link themselves and choose how much of their salary is *)
(* paid through Noba, and the dashboard edits rows and caps those amounts. *)
(* An employee is named by the call that created the row.                  *)
(***************************************************************************)
EXTENDS Notifications

CONSTANTS
    Employees, InitialEmployees,    \* the employees at the start, their rows
    Employers, InitialPercents      \* maxAllocationPercent of each, 0 for none

Staff == Employees \cup Calls
Statuses == {"CREATED", "INVITED", "LINKED", "UNLINKED"}

\* A salary of 0 is read as none.
EmployeeType ==
    [employer : Employers, consumer : Consumers \cup {Nothing}, email : Emails \cup {Nothing},
     status : Statuses, allocation : Nat, salary : Nat]

StaffRequests ==
    [kind : {"invite"}, employer : Employers, email : Emails, sendEmail : BOOLEAN, salary : Nat]
    \cup [kind : {"register"}, as : Consumers, employer : Employers, allocation : Nat]
    \cup [kind : {"link"}, as : Consumers, employee : Staff]
    \cup [kind : {"allocate"}, as : Consumers, employer : Employers, allocation : Nat]
    \cup [kind : {"edit"}, employee : Staff, status : Statuses \cup {Nothing},
          salary : Nat \cup {Nothing}]
    \cup [kind : {"setMax"}, employer : Employers, percent : Nat]

ASSUME WorkforceAssumption ==
    /\ Employees \cap Calls = {}
    /\ Requests \subseteq NotificationRequests \cup StaffRequests
    /\ NoRequest \notin NotificationRequests \cup StaffRequests
    /\ InitialEmployees \in [Employees -> EmployeeType]
    /\ InitialPercents \in [Employers -> Nat]
    /\ NoRow \notin EmployeeType
    /\ Nothing \notin Staff

VARIABLES
    row,        \* the Employee rows
    percent,    \* the Employer rows' maxAllocationPercent
    target,     \* the employee a call is about
    seen,       \* the row as the call has read it
    seenMax,    \* the employer's percentage as the call has read it
    caps        \* the updates a call has still to make

staffVars == <<row, percent, target, seen, seenMax, caps>>
vars == <<callVars, noticeVars, staffVars, world>>

WorkforceInit ==
    /\ NotificationsInit
    /\ row = [e \in Staff |-> IF e \in Employees THEN InitialEmployees[e] ELSE NoRow]
    /\ percent = InitialPercents
    /\ target = [c \in Calls |-> Nothing]
    /\ seen = [c \in Calls |-> NoRow]
    /\ seenMax = [c \in Calls |-> 0]
    /\ caps = [c \in Calls |-> {}]

Exists(e) == row[e] # NoRow
IsActive(e) == Exists(e) /\ row[e].status # "UNLINKED"
SetTarget(c, e) == target' = [target EXCEPT ![c] = e]

\* One employee per consumer and employer.
IsFree(e, r) ==
    \A f \in Staff \ {e} :
        Exists(f) /\ row[f].consumer # Nothing =>
            row[f].consumer # r.consumer \/ row[f].employer # r.employer

-----------------------------------------------------------------------------
(* Allocations *)

\* No maximum is one of 100 percent.
Maximum(p) == IF p = 0 THEN 100 ELSE p
Exceeds(allocation, p, salary) == 100 * allocation > p * salary
\* Rounded to the cent.
Cap(p, salary) == (p * salary + 50) \div 100

-----------------------------------------------------------------------------
(* Requests arrive *)

FirstStep(kind) ==
    CASE kind = "invite" -> "findActive"
      [] kind = "register" -> "insert"
      [] kind = "allocate" -> "lookup"
      [] kind \in {"link", "edit"} -> "read"
      [] kind = "setMax" -> "setPercent"
      [] kind \in {"transfer", "notice", "adjustment", "payrollStatus"} -> "load"
      [] kind = "subscribe" -> "findToken"
      [] kind = "unsubscribe" -> "deleteToken"
      [] kind = "remind" -> "choose"

Receive(c, r) ==
    /\ pc[c] = "idle"
    /\ Serial => \A d \in Calls : ~Running(d)
    /\ "employee" \in DOMAIN r => Exists(r.employee)
    /\ req' = [req EXCEPT ![c] = r]
    /\ SetTarget(c, IF "employee" \in DOMAIN r THEN r.employee ELSE Nothing)
    /\ Continue(c, FirstStep(r.kind))
    /\ UNCHANGED <<part, readTokens, readAt, noticeVars, row, percent, seen, seenMax, caps>>

-----------------------------------------------------------------------------
(* createEmployee, inviteEmployee *)

\* An invitation is sent for an employee who has had none.
AfterCreate(c, r) ==
    IF Kind(c) = "invite" /\ req[c].sendEmail /\ r.status = "CREATED"
    THEN Continue(c, "invite") ELSE Finish(c, "created")

\* getActiveEmployeeByEmail: one of any employer.
FindActive(c) ==
    /\ pc[c] = "findActive"
    /\ \/ \E e \in Staff :
            /\ IsActive(e) /\ row[e].email = req[c].email
            /\ SetTarget(c, e) /\ AfterCreate(c, row[e])
       \/ /\ \A e \in Staff : IsActive(e) => row[e].email # req[c].email
          /\ Continue(c, "insert") /\ UNCHANGED target
       \/ Fails(c) /\ UNCHANGED target
    /\ UNCHANGED <<req, part, readTokens, readAt, noticeVars, row, percent, seen, seenMax, caps>>

NewEmployee(r) ==
    IF r.kind = "invite"
    THEN [employer |-> r.employer, consumer |-> Nothing, email |-> r.email,
          status |-> "CREATED", allocation |-> 0, salary |-> r.salary]
    ELSE [employer |-> r.employer, consumer |-> r.as, email |-> Nothing,
          status |-> "LINKED", allocation |-> r.allocation, salary |-> 0]

InsertEmployee(c) ==
    LET new == NewEmployee(req[c])
    IN  /\ pc[c] = "insert"
        /\ \/ /\ IsFree(c, new)
              /\ row' = [row EXCEPT ![c] = new]
              /\ SetTarget(c, c)
              /\ AfterCreate(c, new) \/ Fails(c)
           \/ /\ ~IsFree(c, new) \/ Faulty
              /\ Finish(c, "error") /\ UNCHANGED <<row, target>>
        /\ UNCHANGED <<req, part, readTokens, readAt, noticeVars, percent, seen, seenMax, caps>>

SendInvitation(c) ==
    /\ pc[c] = "invite"
    /\ \/ Emit(c, "invite.employee", target[c], TRUE) /\ Continue(c, "read")
       \/ Fails(c) /\ UNCHANGED emitted
    /\ UNCHANGED <<req, part, readTokens, readAt, token, history, handled, mailed, pushed, now,
                   staffVars>>

-----------------------------------------------------------------------------
(* updateEmployee: read with the employer, decide, write *)

LookupEmployee(c) ==
    /\ pc[c] = "lookup"
    /\ \/ \E e \in Staff :
            /\ Exists(e) /\ row[e].consumer = req[c].as /\ row[e].employer = req[c].employer
            /\ SetTarget(c, e) /\ Continue(c, "read")
       \/ /\ \A e \in Staff : Exists(e) =>
                row[e].consumer # req[c].as \/ row[e].employer # req[c].employer
          /\ Finish(c, "refused") /\ UNCHANGED target
       \/ Fails(c) /\ UNCHANGED target
    /\ UNCHANGED <<req, part, readTokens, readAt, noticeVars, row, percent, seen, seenMax, caps>>

\* A link may not replace another consumer; nobody goes back to CREATED.
IsAllowed(r, old) ==
    /\ r.kind = "link" => old.consumer \in {Nothing, r.as}
    /\ r.kind = "edit" => r.status # "CREATED"

ReadEmployee(c) ==
    LET old == row[target[c]]
    IN  /\ pc[c] = "read"
        /\ \/ /\ IsAllowed(req[c], old)
              /\ seen' = [seen EXCEPT ![c] = old]
              /\ seenMax' = [seenMax EXCEPT ![c] = percent[old.employer]]
              /\ Continue(c, "write")
           \/ ~IsAllowed(req[c], old) /\ Finish(c, "refused") /\ UNCHANGED <<seen, seenMax>>
           \/ Fails(c) /\ UNCHANGED <<seen, seenMax>>
        /\ UNCHANGED <<req, part, readTokens, readAt, noticeVars, row, percent, target, caps>>

Given(c, field) == field \in DOMAIN req[c] /\ req[c][field] # Nothing

\* An explicit salary of 0 counts, a salary of 0 in the row does not.
SalaryIsKnown(c) == (Kind(c) = "edit" /\ Given(c, "salary")) \/ seen[c].salary > 0
Salary(c) == IF Kind(c) = "edit" /\ Given(c, "salary") THEN req[c].salary ELSE seen[c].salary
Asked(c) == IF Kind(c) = "allocate" THEN req[c].allocation ELSE seen[c].allocation

\* Variant: the maximum is taken for the amount.
AllocationAtMaximum(c) ==
    IF SalaryIsKnown(c) THEN Cap(Maximum(seenMax[c]), Salary(c)) ELSE Asked(c)

Allocation(c) ==
    IF SalaryIsKnown(c) /\ Exceeds(Asked(c), Maximum(seenMax[c]), Salary(c))
    THEN Cap(Maximum(seenMax[c]), Salary(c)) ELSE Asked(c)

\* The fields given, and those written back as they were read.
NewStatus(c, old) ==
    CASE Kind(c) = "link" -> "LINKED"
      [] Kind(c) = "invite" -> "INVITED"
      [] Kind(c) = "edit" /\ Given(c, "status") -> req[c].status
      [] OTHER -> old.status

Updated(c, old) ==
    [old EXCEPT !.consumer = IF Kind(c) = "link" THEN req[c].as ELSE @,
                !.status = NewStatus(c, old),
                !.allocation = Allocation(c),
                !.salary = IF SalaryIsKnown(c) THEN Salary(c) ELSE @]

WriteEmployee(c) ==
    LET e == target[c]
        new == Updated(c, row[e])
    IN  /\ pc[c] = "write"
        /\ \/ /\ IsFree(e, new)
              /\ row' = [row EXCEPT ![e] = new]
              /\ Finish(c, "updated") \/ Fails(c)
           \/ (~IsFree(e, new) \/ Faulty) /\ Finish(c, "error") /\ UNCHANGED row
        /\ UNCHANGED <<req, part, readTokens, readAt, noticeVars, percent, target, seen, seenMax,
                       caps>>

-----------------------------------------------------------------------------
(* updateEmployerInNoba and updateAllocationAmountsForNewMaxAllocationPercent *)

\* A percentage of 0 is not written.
SetPercent(c) ==
    /\ pc[c] = "setPercent"
    /\ \/ /\ req[c].percent # 0
          /\ percent' = [percent EXCEPT ![req[c].employer] = req[c].percent]
          /\ Continue(c, "list") \/ Fails(c)
       \/ req[c].percent = 0 /\ Finish(c, "updated") /\ UNCHANGED percent
       \/ Fails(c) /\ UNCHANGED percent
    /\ UNCHANGED <<req, part, readTokens, readAt, noticeVars, row, target, seen, seenMax, caps>>

\* Variant: the percentage is taken for a factor.
OverTheMultiple(c) ==
    {[employee |-> e, allocation |-> Cap(req[c].percent, row[e].salary)] :
        e \in {f \in Staff : /\ IsActive(f) /\ row[f].employer = req[c].employer
                             /\ row[f].allocation > req[c].percent * row[f].salary}}

OverTheMaximum(c) ==
    {[employee |-> e, allocation |-> Cap(req[c].percent, row[e].salary)] :
        e \in {f \in Staff : /\ IsActive(f) /\ row[f].employer = req[c].employer
                             /\ Exceeds(row[f].allocation, req[c].percent, row[f].salary)}}

ListEmployees(c) ==
    /\ pc[c] = "list"
    /\ \/ caps' = [caps EXCEPT ![c] = OverTheMaximum(c)] /\ Continue(c, "cap")
       \/ Fails(c) /\ UNCHANGED caps
    /\ UNCHANGED <<req, part, readTokens, readAt, noticeVars, row, percent, target, seen, seenMax>>

\* Promise.all: every update runs, in any order, whether or not another fails; one that
\* does makes the answer an error.
CapEmployee(c) ==
    /\ pc[c] = "cap"
    /\ \E cap \in caps[c] :
        /\ caps' = [caps EXCEPT ![c] = @ \ {cap}]
        /\ \/ /\ row' = [row EXCEPT ![cap.employee].allocation = cap.allocation]
              /\ UNCHANGED answer
           \/ Faulty /\ answer' = [answer EXCEPT ![c] = "error"] /\ UNCHANGED row
    /\ UNCHANGED <<pc, req, part, readTokens, readAt, noticeVars, percent, target, seen, seenMax>>

EndCaps(c) ==
    /\ pc[c] = "cap"
    /\ \/ /\ caps[c] = {} /\ UNCHANGED caps
          /\ Finish(c, IF answer[c] = "error" THEN "error" ELSE "updated")
       \/ Fails(c) /\ caps' = [caps EXCEPT ![c] = {}]
    /\ UNCHANGED <<req, part, readTokens, readAt, noticeVars, row, percent, target, seen, seenMax>>

-----------------------------------------------------------------------------
StaffStep(c) ==
    \/ FindActive(c) \/ InsertEmployee(c) \/ SendInvitation(c)
    \/ LookupEmployee(c) \/ ReadEmployee(c) \/ WriteEmployee(c)
    \/ SetPercent(c) \/ ListEmployees(c) \/ CapEmployee(c) \/ EndCaps(c)

CallStep(c) == StaffStep(c) \/ (NotificationStep(c) /\ UNCHANGED staffVars)

WorkforceNext ==
    /\ \/ \E c \in Calls : (\E r \in Requests : Receive(c, r)) \/ CallStep(c)
       \/ ((\E e \in emitted : HandleEvent(e)) \/ NextDay) /\ UNCHANGED staffVars
    /\ UNCHANGED world

WorkforceSpec == WorkforceInit /\ [][WorkforceNext]_vars

-----------------------------------------------------------------------------
(* Properties *)

\* The amounts a consumer, or whoever created the row, has asked for.
AskedFor(e) ==
    (IF e \in Employees THEN {InitialEmployees[e].allocation} ELSE {0})
    \cup {req[c].allocation : c \in {d \in Calls :
            target[d] = e /\ Kind(d) \in {"register", "allocate"}}}

\* However updates with stale rows and cappings overlap, an amount stays within what was
\* once asked for.  (One that was lowered meanwhile may come back, by a call that had read
\* it before.)
NeverMoreThanAsked ==
    \A e \in Staff : Exists(e) => \E amount \in AskedFor(e) : row[e].allocation <= amount

\* The amounts of the employees there are at the start are within their maxima.
FitsAtFirst ==
    \A e \in Employees :
        LET first == InitialEmployees[e]
        IN  first.status # "UNLINKED" /\ first.salary > 0 =>
                first.allocation <= Cap(Maximum(InitialPercents[first.employer]), first.salary)

\* A new maximum of an employer's was not carried through, and whoever set it was told.
NewMaximumFailed(m) ==
    \E c \in Calls : answer[c] = "error" /\ Kind(c) = "setMax" /\ req[c].employer = m

\* While calls take turns, between calls nobody takes more than the employer's maximum of
\* a known salary, whatever queries and writes have failed: only a call that set a new
\* maximum and was answered with an error may leave amounts above it.
AllocationFitsInTurn ==
    Serial /\ (\A c \in Calls : ~Running(c)) =>
        \A e \in Staff :
            IsActive(e) /\ row[e].salary > 0 /\ ~NewMaximumFailed(row[e].employer) =>
                row[e].allocation <= Cap(Maximum(percent[row[e].employer]), row[e].salary)
=============================================================================
